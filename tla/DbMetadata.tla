----------------------------- MODULE DbMetadata -----------------------------
(***************************************************************************)
(* The metadata of the on-disk trie database and its recovery              *)
(* (category/mpt/db_metadata_context.cpp, update_aux.cpp).                  *)
(*                                                                         *)
(* Two copies of the metadata are mapped into memory.  Every update writes *)
(* copy 0 and then copy 1, each under that copy's dirty bit (hold_dirty).  *)
(* Each copy has its own root offsets rings, which are not part of what is *)
(* copied when a dirty copy is restored from the other.  Readers use copy  *)
(* 0.  The process may die between any two stores; its stores survive.     *)
(*                                                                         *)
(* An operation is a program: a sequence of updates (one step of it is an  *)
(* update of one copy: set the bit, store ring entries, store the header   *)
(* and clear the bit) and of decisions that read copy 0 and expand into    *)
(* further updates.                                                        *)
(***************************************************************************)
EXTENDS Integers, Sequences, SequencesExt, FiniteSets, FiniteSetsExt

CONSTANTS Chunks,     \* cnv chunks that hold root offsets
          Entries,    \* root offsets per chunk and copy
          MinHistory, \* MIN_HISTORY_LENGTH
          Ahead,      \* proposals run at most this far ahead of finalization
          MaxVersion, \* bound on versions
          MaxNodes,   \* bound on root nodes written
          MaxCrashes, \* bound on crashes
          OneAtATime  \* no crash before the copies agree again after the last

\* Ring sizes are powers of two and can be halved; what consensus may still
\* rewind to is inside the shortest history.
ASSUME MetadataAssumption ==
    /\ Chunks \in {2, 4} /\ Entries \in {1, 2, 4}
    /\ Ahead \in Nat \ {0} /\ MinHistory \in Nat
    /\ Ahead < MinHistory /\ MinHistory <= (Chunks \div 2) * Entries
    /\ MaxVersion \in Nat /\ MaxNodes \in Nat /\ MaxCrashes \in Nat
    /\ OneAtATime \in BOOLEAN

VARIABLES main,    \* the two metadata copies
          ring,    \* ring[which]: the root offsets of that copy, chunk by chunk
          nodes,   \* the root nodes in the fast list, in the order of writing
          proc,    \* which program has the database open for writing
          todo,    \* what is left of the operation under way
          which,   \* the copy being updated by its first update
          stage,   \* stores of that update already done on that copy
          acked,   \* the latest version whose finalization has returned
          abort,   \* the assertion that ended the last program, if one did
          aborts,  \* openings in a row ended by an assertion, up to two
          crashes, \* crashes so far
          torn,    \* a crash hit an activation after it wiped its sources
          split,   \* a crash fell between the two copies of an update
          settled  \* since the last crash the copies have been equal again

vars == <<main, ring, nodes, proc, todo, which, stage, acked, abort, aborts,
          crashes, torn, split, settled>>
----------------------------------------------------------------------------
INVALID == 0        \* INVALID_OFFSET; root offsets are positions in nodes
NONE == -1          \* INVALID_BLOCK_NUM
NULL_CHUNK == -1

Copies == {0, 1}
Rings == {0, 1}

EmptyRing == [lb |-> 0, nv |-> 0, ids |-> [k \in 0..Chunks-1 |-> NULL_CHUNK],
              len |-> 0]

NewMain ==
    [dirty |-> FALSE, prim |-> 0, active |-> FALSE,
     pending |-> [op |-> "none", param |-> 0],
     r |-> [p \in Rings |->
              IF p = 0 THEN [EmptyRing EXCEPT !.ids = [k \in 0..Chunks-1 |-> k],
                                              !.len = Chunks]
              ELSE EmptyRing],
     history |-> Chunks * Entries, wip |-> 0, fin |-> NONE]

\* A new pool, just closed by the program that made it.
Init ==
    /\ main = [c \in Copies |-> NewMain]
    /\ ring = [c \in Copies |-> [a \in 0..Chunks*Entries-1 |-> INVALID]]
    /\ nodes = <<>>
    /\ proc = "down" /\ todo = <<>> /\ which = 0 /\ stage = 0
    /\ acked = NONE /\ abort = "none" /\ aborts = 0 /\ crashes = 0
    /\ torn = FALSE /\ split = FALSE /\ settled = TRUE
----------------------------------------------------------------------------
(* The ring of one copy: root_offsets_delegator.                           *)

Capacity(m, p) == m.r[p].len * Entries

\* The cell of copy-local memory behind position pos of a ring.
Cell(m, p, pos) == m.r[p].ids[pos \div Entries] * Entries + (pos % Entries)

CellOf(m, p, v) == Cell(m, p, v % Capacity(m, p))

MaxOf(m, p) == m.r[p].nv - 1

\* update_version_lower_bound_: the first version from idx on with a root.
Raise(m, d, p, idx) ==
    LET top == MaxOf(m, p)
    IN IF top = NONE THEN m.r[p].lb
       ELSE IF idx >= top THEN idx
       ELSE Min({v \in idx..top : v = top \/ d[CellOf(m, p, v)] # INVALID})

\* Which ring is the primary is read from copy 0 for both copies.
Primary == main[0].prim
Secondary == 1 - Primary

max_version == MaxOf(main[0], Primary)
lower_bound == IF max_version = NONE THEN NONE ELSE main[0].r[Primary].lb

\* operator[]: the version is not compared with the bounds of the ring.
RootAt(v) == ring[0][CellOf(main[0], Primary, v)]

get_root_offset_at_version(v) ==
    IF max_version # NONE /\ v \in lower_bound..max_version
    THEN RootAt(v) ELSE INVALID
----------------------------------------------------------------------------
(* Updates.  Ok is what the code asserts on the copy before it stores;     *)
(* Stores counts the stores to the ring; Stored is the ring after the kth; *)
(* Header is the header after the update, its bit cleared.                 *)

\* update_root_offset also empties the ring when the only version goes; the
\* question is asked of copy 0, whichever copy is being updated.
ErasesOnly(u, c) ==
    /\ u.root = INVALID
    /\ u.v = max_version
    /\ u.v = IF c = 0 THEN Raise(main[0], ring[0], Primary, main[0].r[Primary].lb)
             ELSE lower_bound

\* fast_forward_next_version starts over when the ring is empty or the jump
\* leaves nothing of it.
StartsOver(u, c) ==
    LET top == MaxOf(main[c], Primary)
    IN top = NONE \/ u.v - top >= Capacity(main[c], Primary)

\* Chunks that activate moves: still with the primary.
Shrinks(u, c) == main[c].r[Primary].len = 2 * u.n
Grows(u, c) == 2 * main[c].r[Primary].len = u.n

\* Faulty variants: the old bound is not kept, or not raised.
BoundWithoutMax(u, c) == main[c].r[Primary].nv - u.n * Entries
BoundKept(u, c) == main[c].r[Primary].lb

\* The lower bound of the primary once its capacity is halved.
ShrunkBound(u, c) ==
    LET nv == main[c].r[Primary].nv
    IN Max({main[c].r[Primary].lb, nv - u.n * Entries})

Ok(u, c) ==
    LET m == main[c]
        len == m.r[Primary].len
        top == MaxOf(m, Primary)
    IN CASE u.op \in {"push", "assign"} -> len # 0
         [] u.op = "forward"    -> top = NONE \/ u.v > top
         [] u.op = "rewind"     -> u.v < top /\ top - u.v <= Capacity(m, Primary)
         [] u.op = "history"    -> u.v > 0 /\ u.v <= Capacity(m, Primary)
         [] u.op = "activate"   -> len \in {u.n, 2 * u.n}
         [] u.op = "deactivate" -> u.n \in {len, 2 * len}
         [] OTHER               -> TRUE

Stores(u, c) ==
    CASE u.op = "push"       -> 1
      [] u.op = "assign"     -> IF ErasesOnly(u, c) THEN 2 ELSE 1
      [] u.op = "forward"    -> 1
      [] u.op = "reset"      -> 1
      [] u.op = "rewind"     -> MaxOf(main[c], Primary) - u.v
      [] u.op = "activate"   -> IF Shrinks(u, c) THEN 2 ELSE 1
      [] u.op = "deactivate" -> IF Grows(u, c) THEN 2 ELSE 0
      [] OTHER               -> 0

Wiped(d, cells) == [a \in DOMAIN d |-> IF a \in cells THEN INVALID ELSE d[a]]

RingCells(m, p) == {Cell(m, p, pos) : pos \in 0..Capacity(m, p)-1}

ChunkCells(ids) == {id * Entries + e : id \in ids, e \in 0..Entries-1}

\* Entries lo..nv-1 copied from their place under capacity old to their place
\* under capacity new; m maps the longer of the two rings.
Moved(d, m, old, new, lo, nv) ==
    LET Place(v, cap) == Cell(m, Primary, v % cap)
        moving == {v \in lo..nv-1 : v % old # v % new}
    IN [a \in DOMAIN d |->
          IF \E v \in moving : a = Place(v, new)
          THEN d[Place(CHOOSE v \in moving : a = Place(v, new), old)]
          ELSE d[a]]

\* The chunk lists after a body of activate or deactivate: a slot that holds a
\* chunk already is left alone.
GivenAway(m, n) ==
    LET P == m.r[Primary]
        S == m.r[Secondary]
        moves == {k \in 0..n-1 : S.ids[k] = NULL_CHUNK}
    IN [m EXCEPT
          !.r[Secondary].ids = [k \in DOMAIN @ |-> IF k \in moves THEN P.ids[n + k] ELSE @[k]],
          !.r[Primary].ids = [k \in DOMAIN @ |-> IF k - n \in moves THEN NULL_CHUNK ELSE @[k]]]

TakenBack(m, n) ==
    LET P == m.r[Primary]
        S == m.r[Secondary]
        moves == {k \in 0..(n - P.len)-1 : P.ids[P.len + k] = NULL_CHUNK}
    IN [m EXCEPT
          !.r[Primary].ids = [k \in DOMAIN @ |-> IF k - P.len \in moves THEN S.ids[k - P.len] ELSE @[k]],
          !.r[Secondary].ids = [k \in DOMAIN @ |-> IF k \in moves THEN NULL_CHUNK ELSE @[k]]]

\* Faulty variant: the half that goes is wiped before the entries are moved.
WipedFirst(u, c, k) ==
    LET m == main[c]
        new == u.n * Entries
    IN IF Shrinks(u, c) /\ k = 2
       THEN Moved(ring[c], m, 2 * new, new, ShrunkBound(u, c), m.r[Primary].nv)
       ELSE Wiped(ring[c], ChunkCells({GivenAway(m, u.n).r[Secondary].ids[j] : j \in 0..u.n-1}))

\* do_activate_secondary_body_: kept entries move into the half that stays,
\* then the half that goes is filled with INVALID_OFFSET.
ActivateStored(u, c, k) ==
    LET m == main[c]
        new == u.n * Entries
    IN IF Shrinks(u, c) /\ k = 1
       THEN Moved(ring[c], m, 2 * new, new, ShrunkBound(u, c), m.r[Primary].nv)
       ELSE Wiped(ring[c], ChunkCells({GivenAway(m, u.n).r[Secondary].ids[j] : j \in 0..u.n-1}))

ActivateHeader(u, c) ==
    [GivenAway(main[c], u.n) EXCEPT
        !.r[Primary].lb = ShrunkBound(u, c), !.r[Primary].len = u.n,
        !.r[Secondary].lb = 0, !.r[Secondary].nv = 0, !.r[Secondary].len = u.n,
        !.active = TRUE]

\* do_deactivate_secondary_body_: the returned half is filled with
\* INVALID_OFFSET, then entries are copied to their place in the whole.
DeactivateStored(u, c, k) ==
    LET m == TakenBack(main[c], u.n)
        P == m.r[Primary]
    IN IF k = 1
       THEN Wiped(ring[c], ChunkCells({P.ids[j] : j \in P.len..u.n-1}))
       ELSE Moved(ring[c], m, P.len * Entries, u.n * Entries, P.lb, P.nv)

DeactivateHeader(u, c) ==
    [TakenBack(main[c], u.n) EXCEPT
        !.r[Primary].len = u.n, !.r[Secondary].len = 0, !.active = FALSE]

Stored(u, c, k) ==
    LET m == main[c]
        d == ring[c]
        top == MaxOf(m, Primary)
    IN CASE u.op = "push"       -> [d EXCEPT ![CellOf(m, Primary, m.r[Primary].nv)] = u.root]
         [] u.op = "assign"     -> IF k = 1 THEN [d EXCEPT ![CellOf(m, Primary, u.v)] = u.root]
                                   ELSE Wiped(d, RingCells(m, Primary))
         [] u.op = "forward"    -> Wiped(d, IF StartsOver(u, c) THEN RingCells(m, Primary)
                                            ELSE {CellOf(m, Primary, v) : v \in top+1..u.v-1})
         [] u.op = "reset"      -> Wiped(d, RingCells(m, Primary))
         [] u.op = "rewind"     -> [d EXCEPT ![CellOf(m, Primary, u.v + k)] = INVALID]
         [] u.op = "activate"   -> ActivateStored(u, c, k)
         [] u.op = "deactivate" -> DeactivateStored(u, c, k)

PushHeader(u, c) ==
    LET m == [main[c] EXCEPT !.r[Primary].nv = @ + 1]
    IN IF u.root = INVALID THEN m
       ELSE [m EXCEPT !.r[Primary].lb = Raise(m, ring[c], Primary, @)]

AssignHeader(u, c) ==
    IF ErasesOnly(u, c) THEN [main[c] EXCEPT !.r[Primary].lb = 0, !.r[Primary].nv = 0]
    ELSE [main[c] EXCEPT !.r[Primary].lb =
            Raise(main[c], ring[c], Primary, IF u.root = INVALID THEN @ ELSE Min({u.v, @}))]

RewindHeader(u, c) ==
    LET m == [main[c] EXCEPT !.r[Primary].lb = Min({u.v, @}), !.r[Primary].nv = u.v + 1]
    IN [m EXCEPT !.r[Primary].lb = Raise(m, ring[c], Primary, @)]

Header(u, c) ==
    LET m == main[c]
    IN CASE u.op = "push"       -> PushHeader(u, c)
         [] u.op = "assign"     -> AssignHeader(u, c)
         [] u.op = "forward"    -> [m EXCEPT !.r[Primary].nv = u.v,
                                             !.r[Primary].lb = IF StartsOver(u, c) THEN u.v ELSE @]
         [] u.op = "reset"      -> [m EXCEPT !.r[Primary].lb = u.v, !.r[Primary].nv = u.v]
         [] u.op = "rewind"     -> RewindHeader(u, c)
         [] u.op = "history"    -> [m EXCEPT !.history = u.v]
         [] u.op = "offsets"    -> [m EXCEPT !.wip = u.v]
         [] u.op = "finalized"  -> [m EXCEPT !.fin = u.v]
         [] u.op = "pending"    -> [m EXCEPT !.pending = u.v]
         [] u.op = "promote"    -> [m EXCEPT !.prim = u.v]
         [] u.op = "activate"   -> ActivateHeader(u, c)
         [] u.op = "deactivate" -> DeactivateHeader(u, c)
----------------------------------------------------------------------------
(* Programs.                                                               *)

Updates == {"push", "assign", "forward", "reset", "rewind", "history", "offsets",
            "finalized", "pending", "promote", "activate", "deactivate"}

Stamp(op, param) == [op |-> "pending", v |-> [op |-> op, param |-> param]]
ClearStamp == Stamp("none", 0)

\* The body of a timeline operation, between the two stamps.
Body(op, param) ==
    CASE op = "activate"   -> <<[op |-> "activate", n |-> param], [op |-> "capHistory", n |-> param]>>
      [] op = "deactivate" -> <<[op |-> "deactivate", n |-> param]>>
      [] op = "promote"    -> <<[op |-> "promote", v |-> param]>>

Timeline(op, param) == <<Stamp(op, param)>> \o Body(op, param) \o <<ClearStamp>>

\* Faulty variant: the root is published before the offset that covers it.
RootFirst(v, r) == <<[op |-> "store", v |-> v, root |-> r], [op |-> "offsets", v |-> r]>>

\* write_new_root_node, once the node is on disk.
WriteRoot(v, r) == <<[op |-> "offsets", v |-> r], [op |-> "store", v |-> v, root |-> r]>>

Push(r) == [op |-> "push", root |-> r]
Erase(v) == [op |-> "assign", v |-> v, root |-> INVALID]
BoundIs(v) == [op |-> "boundIs", v |-> v]

\* clear_ondisk_db
ClearDb == <<[op |-> "reset", v |-> 0], [op |-> "finalized", v |-> NONE],
             [op |-> "offsets", v |-> 0], [op |-> "match"]>>

\* rewind_to_version
Rewind(v) == <<[op |-> "rewind", v |-> v], [op |-> "offsetsAfter", v |-> v], [op |-> "match"]>>

\* Faulty variant: there is always something to rewind.
AlwaysRewind == IF main[0].fin = NONE THEN ClearDb ELSE Rewind(main[0].fin)

\* What the node does first with rewind_to_latest_finalized.
RewindToFinalized ==
    IF main[0].fin = NONE THEN ClearDb
    ELSE IF main[0].fin = max_version THEN <<>>
    ELSE Rewind(main[0].fin)

\* Faulty variant: only copy 0 is asked.
PendingInCopy0 == main[0].pending

\* The intent record that is replayed: copy 0's, or copy 1's if 0 has none.
Pending == IF main[0].pending.op # "none" THEN main[0].pending ELSE main[1].pending

\* What the decision at the head of the program expands into.
Decide(s) ==
    CASE s.op = "replay" ->
            IF Pending.op = "none" THEN <<>>
            ELSE Body(Pending.op, Pending.param) \o <<ClearStamp>>
      [] s.op = "capHistory" ->
            IF main[0].history > s.n * Entries
            THEN <<[op |-> "history", v |-> Max({s.n * Entries, MinHistory})]>>
            ELSE <<>>
      [] s.op = "rewindToFinalized" -> RewindToFinalized
      [] s.op = "offsetsAfter" -> <<[op |-> "offsets", v |-> RootAt(s.v)]>>
      [] s.op = "eraseUpTo" ->
            IF lower_bound # NONE /\ lower_bound <= s.v
            THEN <<Erase(lower_bound), s>> ELSE <<>>
      [] s.op = "store" ->
            IF max_version = NONE
            THEN <<[op |-> "forward", v |-> s.v], Push(s.root), BoundIs(s.v)>>
            ELSE IF s.v <= max_version
            THEN <<[op |-> "assign", v |-> s.v, root |-> s.root],
                   BoundIs(Min({s.v, lower_bound}))>>
            ELSE IF s.v - lower_bound >= main[0].history
            THEN <<[op |-> "eraseUpTo", v |-> s.v - main[0].history],
                   [op |-> "inHistory", v |-> s.v], Push(s.root)>>
            ELSE <<Push(s.root)>>
      [] OTHER -> <<>>

\* The assertions of those decisions.
Sound(s) ==
    CASE s.op = "replay" ->
            \/ \E c \in Copies : main[c].pending.op = "none"
            \/ main[0].pending = main[1].pending
      [] s.op = "match" -> RootAt(max_version) <= main[0].wip /\ main[0].wip <= Len(nodes)
      [] s.op = "rewindToFinalized" ->
            main[0].fin # NONE => get_root_offset_at_version(main[0].fin) # INVALID
      [] s.op = "store" ->
            /\ s.v <= max_version + 1 \/ max_version = NONE
            /\ max_version >= main[0].history => s.v > max_version - main[0].history
      [] s.op = "boundIs" -> lower_bound = s.v
      [] s.op = "inHistory" -> s.v - lower_bound < main[0].history
      [] OTHER -> TRUE
----------------------------------------------------------------------------
(* Steps.                                                                  *)

Stop == proc' = "down" /\ todo' = <<>> /\ which' = 0 /\ stage' = 0

\* A failed assertion ends the process; dirty bits stay as they are.
Fail(label) ==
    /\ Stop
    /\ abort' = label
    /\ aborts' = Min({aborts + 1, 2})
    /\ UNCHANGED <<ring, nodes, acked, crashes, torn, split, settled>>

\* hold_dirty on the next copy.
SetDirty ==
    /\ todo # <<>> /\ Head(todo).op \in Updates /\ stage = 0
    /\ main' = [main EXCEPT ![which].dirty = TRUE]
    /\ \/ /\ Ok(Head(todo), which)
          /\ stage' = 1
          /\ UNCHANGED <<ring, nodes, proc, todo, which, acked, abort, aborts, crashes, torn, split, settled>>
       \/ /\ ~Ok(Head(todo), which)
          /\ Fail(Head(todo).op)

\* The next store to the rings.
StoreRing ==
    /\ todo # <<>> /\ stage \in 1..Stores(Head(todo), which)
    /\ ring' = [ring EXCEPT ![which] = Stored(Head(todo), which, stage)]
    /\ stage' = stage + 1
    /\ UNCHANGED <<main, nodes, proc, todo, which, acked, abort, aborts, crashes, torn, split, settled>>

\* The stores to the header, and the end of the scope.  Until the bit is clear
\* none of them survives a crash, so that they are one step.
ClearDirty ==
    /\ todo # <<>> /\ stage > Stores(Head(todo), which) /\ stage > 0
    /\ main' = [main EXCEPT ![which] = [Header(Head(todo), which) EXCEPT !.dirty = FALSE]]
    /\ stage' = 0
    /\ which' = 1 - which
    /\ todo' = IF which = 1 THEN Tail(todo) ELSE todo
    /\ UNCHANGED <<ring, nodes, proc, acked, abort, aborts, crashes, torn, split, settled>>

\* A decision: rewind_to_match_offsets trims what follows the offset, a
\* finalization returns to its caller, an opened database is usable.
Expand ==
    /\ todo # <<>> /\ Head(todo).op \notin Updates
    /\ UNCHANGED main
    /\ LET s == Head(todo)
       IN \/ /\ Sound(s)
             /\ todo' = Decide(s) \o Tail(todo)
             /\ nodes' = IF s.op = "match" THEN SubSeq(nodes, 1, main[0].wip) ELSE nodes
             /\ acked' = IF s.op = "ack" THEN s.v ELSE acked
             /\ aborts' = IF s.op = "opened" THEN 0 ELSE aborts
             /\ abort' = IF s.op = "opened" THEN "none" ELSE abort
             /\ UNCHANGED <<ring, proc, which, stage, crashes, torn, split, settled>>
          \/ /\ ~Sound(s)
             /\ Fail(s.op)

\* Faulty variant: only copy 0, the one that is read, is restored.
HealedFirst == IF main[0].dirty THEN [main EXCEPT ![0] = main[1]] ELSE main

\* db_copy restores a dirty copy from the other one, which must be clean.
Healed ==
    IF main[0].dirty THEN [main EXCEPT ![0] = main[1]]
    ELSE IF main[1].dirty THEN [main EXCEPT ![1] = main[0]]
    ELSE main

\* Opening: restore, replay the intent log, trim; the node also goes back to
\* the latest finalized version.
Open(program) ==
    /\ proc = "down"
    /\ IF main[0].dirty /\ main[1].dirty
       THEN /\ Fail("copy")
            /\ UNCHANGED main
       ELSE /\ main' = Healed
            /\ proc' = program
            /\ todo' = <<[op |-> "replay"], [op |-> "match"]>>
                       \o (IF program = "node" THEN <<[op |-> "rewindToFinalized"]>> ELSE <<>>)
                       \o <<[op |-> "opened"]>>
            /\ UNCHANGED <<ring, nodes, which, stage, acked, abort, aborts, crashes, torn, split, settled>>

\* The copies hold the same, ring entries outside the history excepted.
Agree ==
    /\ main[0] = main[1]
    /\ max_version # NONE =>
          \A v \in lower_bound..max_version :
             ring[0][CellOf(main[0], Primary, v)] = ring[1][CellOf(main[1], Primary, v)]

Idle(program) == proc = program /\ todo = <<>>

Run(program, ops) ==
    /\ Idle(program)
    /\ todo' = ops
    /\ settled' = (settled \/ Agree)
    /\ split' = (split /\ ~settled')
    /\ UNCHANGED <<main, ring, proc, which, stage, acked, abort, aborts, crashes, torn>>
----------------------------------------------------------------------------
(* Operations.                                                             *)

\* adjust_history_length_based_on_disk_usage: what it does depends on the disk
\* usage, which is not modelled.
Adjust ==
    {<<>>}
      \union {<<[op |-> "eraseUpTo", v |-> best],
               [op |-> "history", v |-> Max({max_version - best, MinHistory})]>> :
                 best \in IF max_version = NONE THEN {} ELSE lower_bound .. max_version - MinHistory}
      \union {<<[op |-> "history", v |-> cap]>> :
                 cap \in IF max_version = NONE THEN {}
                         ELSE {Capacity(main[0], Primary)} \ 0..main[0].history}

\* The root of a version is written at the end of the fast list.
Upsert(v, kind, first, then) ==
    /\ Len(nodes) < MaxNodes
    /\ nodes' = Append(nodes, [v |-> v, kind |-> kind])
    /\ Run("node", first \o WriteRoot(v, Len(nodes) + 1) \o then)

\* A proposal: a new version or another block at a version not yet finalized.
Propose(v) ==
    /\ v \in main[0].fin+1 .. max_version+1
    /\ v <= main[0].fin + Ahead
    /\ \E first \in Adjust : Upsert(v, "proposal", first, <<>>)

\* Finalizing writes the root of its version again and then records it.
Finalize ==
    LET v == main[0].fin + 1
    IN /\ v <= max_version
       /\ Upsert(v, "final", <<>>, <<[op |-> "finalized", v |-> v], [op |-> "ack", v |-> v]>>)

NothingPending == \A c \in Copies : main[c].pending.op = "none"

\* activate_secondary_header
Activate ==
    /\ ~main[0].active /\ NothingPending /\ main[0].r[Primary].len >= 2
    /\ Run("tool", Timeline("activate", main[0].r[Primary].len \div 2))
    /\ UNCHANGED nodes

\* deactivate_secondary_header
Deactivate ==
    /\ main[0].active /\ NothingPending
    /\ main[0].r[Primary].len > 0 /\ main[0].r[Secondary].len > 0
    /\ Run("tool", Timeline("deactivate", main[0].r[Primary].len + main[0].r[Secondary].len))
    /\ UNCHANGED nodes

\* promote_secondary_to_primary_header.  No code writes to the secondary yet,
\* so that only a database without a finalized version can be promoted and
\* still be opened by the node.
Promote ==
    /\ main[0].active /\ NothingPending /\ main[0].fin = NONE
    /\ main[0].r[Secondary].nv = 0
    /\ Run("tool", Timeline("promote", Secondary))
    /\ UNCHANGED nodes

Close ==
    /\ proc # "down" /\ todo = <<>>
    /\ Stop
    /\ UNCHANGED <<main, ring, nodes, acked, abort, aborts, crashes, torn, split, settled>>

\* A crash in the first copy of an activation, after the half that goes was
\* wiped: the replay will copy the kept entries from it a second time.
Tears ==
    /\ todo # <<>> /\ Head(todo).op = "activate"
    /\ which = 0 /\ stage = 3

\* Copy 0 is written and clean, copy 1 neither: nothing will be restored.
Splits == which = 1 /\ stage = 0

Crash ==
    /\ proc # "down" /\ crashes < MaxCrashes /\ (OneAtATime => settled)
    /\ Stop
    /\ settled' = FALSE
    /\ crashes' = crashes + 1
    /\ torn' = (torn \/ Tears)
    /\ split' = (split \/ Splits)
    /\ UNCHANGED <<main, ring, nodes, acked, abort, aborts>>

Next ==
    \/ \E program \in {"node", "tool"} : Open(program)
    \/ SetDirty
    \/ StoreRing
    \/ ClearDirty
    \/ Expand
    \/ \E v \in 0..MaxVersion : Propose(v)
    \/ Finalize
    \/ Activate
    \/ Deactivate
    \/ Promote
    \/ Close
    \/ Crash

Spec == Init /\ [][Next]_vars
----------------------------------------------------------------------------
(* Properties.                                                             *)

MainType ==
    [dirty : BOOLEAN, prim : Rings, active : BOOLEAN,
     pending : [op : {"none", "activate", "deactivate", "promote"}, param : 0..Chunks],
     r : [Rings -> [lb : Nat, nv : Nat,
                    ids : [0..Chunks-1 -> NULL_CHUNK..Chunks-1], len : 0..Chunks]],
     history : 1..Chunks*Entries, wip : 0..MaxNodes, fin : NONE..MaxVersion]

\* Bounds, counts and chunk lists stay within their ranges in both copies.
TypeOK ==
    /\ main \in [Copies -> MainType]
    /\ ring \in [Copies -> [0..Chunks*Entries-1 -> 0..MaxNodes]]
    /\ nodes \in Seq([v : 0..MaxVersion, kind : {"proposal", "final"}])
    /\ proc \in {"down", "node", "tool"} /\ which \in Copies /\ stage \in Nat
    /\ acked \in NONE..MaxVersion /\ aborts \in 0..2
    /\ {torn, split, settled} \subseteq BOOLEAN

Usable == proc # "down" /\ todo = <<>>

\* In an opened database a version that has a root offset names a root node that
\* was written for this version and has not been trimmed: a slot reused after a
\* wrap, a resize or a crash is never read as an older version.
RootsReadable ==
    ~torn /\ Usable =>
       \A v \in 0..MaxVersion :
          LET r == get_root_offset_at_version(v)
          IN r # INVALID => r \in 1..Len(nodes) /\ nodes[r].v = v

\* Whatever a crash left behind, the assertions of opening, replaying, trimming
\* and writing hold: no copy is restored from a dirty one, the last root lies
\* before the offset, the finalized version has a root.  The one exception is the
\* assertion of root_offsets_delegator::rewind_to_version, see AbortHeals.
AssertionsHold == ~torn => abort \in {"none", "rewind"}

\* A crash between the two copies of an append makes the next start of the node
\* fail on copy 1 in rewind_to_version.  The start after that succeeds: copy 0 is
\* rewound already and the bit left set has copy 1 restored from it.
AbortHeals == ~torn => aborts < 2

FinalRoot(v) ==
    LET r == get_root_offset_at_version(v)
    IN r \in 1..Len(nodes) /\ nodes[r] = [v |-> v, kind |-> "final"]

\* A finalization that has returned is never lost: in an opened database the
\* latest finalized version is at least the last one acknowledged, and its root is
\* the one the finalization wrote.
FinalizedSurvives ==
    ~torn /\ Usable =>
       /\ main[0].fin >= acked
       /\ main[0].fin # NONE => FinalRoot(main[0].fin)

\* Activation, deactivation and promotion happen completely or not at all: in an
\* opened database no intent is left, both copies agree on which ring is primary,
\* on whether the secondary is active and on the chunk lists, and every chunk
\* belongs to exactly one ring.
TimelinesWhole ==
    Usable =>
       /\ NothingPending
       /\ main[0].prim = main[1].prim /\ main[0].active = main[1].active
       /\ \A p \in Rings : /\ main[0].r[p].len = main[1].r[p].len
                           /\ main[0].r[p].ids = main[1].r[p].ids
       /\ \A id \in 0..Chunks-1 :
             Cardinality({<<p, k>> \in Rings \X (0..Chunks-1) :
                            k < main[0].r[p].len /\ main[0].r[p].ids[k] = id}) = 1

\* In a running node both copies will write the next version to the same place,
\* unless a crash fell between the copies: next_version_ is counted up in each
\* copy, so that a difference would stay.
PositionsAgree ==
    ~torn /\ ~split /\ Idle("node") => main[0].r[Primary].nv = main[1].r[Primary].nv

\* The comment in do_activate_secondary_body_: the sources of the copied entries
\* are never written, so the loop is idempotent under replay.  Then the root of
\* the finalized version is still there in every opened database.
ReplayKeepsRoots ==
    Usable /\ main[0].fin # NONE => FinalRoot(main[0].fin)
=============================================================================
