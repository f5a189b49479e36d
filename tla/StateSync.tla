----------------------------- MODULE StateSync -----------------------------
(***************************************************************************)
(* A node catching up with the finalized state of another one              *)
(* (category/statesync). The client asks, prefix by prefix, for what       *)
(* changed in an interval of blocks; the server answers with the deletions *)
(* between the client's old target and the new one and then with the       *)
(* accounts and slots of the target's state whose trie nodes have a        *)
(* version in the interval. The target moves on while the client is busy.  *)
(*                                                                         *)
(* Every address has a prefix of its own and every account one storage     *)
(* slot; balance 0 stands for no account and word 0 for an empty slot.     *)
(* Code and headers are left out. The network and consensus, which carry   *)
(* the messages and announce the targets, are external: a response may     *)
(* break off anywhere and is then asked for again, requests that a new     *)
(* target supersedes are dropped, and the client may crash at any moment.  *)
(***************************************************************************)
EXTENDS FinalizedDeletions, FiniteSets

CONSTANTS
    Addr,
    Busy,               \* the addresses that blocks work on
    Genesis,            \* state of block 0
    MaxBlock,           \* bound: length of the server's chain
    MaxFaults           \* bound: responses that break off, and crashes

ASSUME SyncBounds ==
    Busy \subseteq Addr /\ {MaxBlock, MaxFaults} \subseteq Nat

VARIABLES
    chain,      \* server: state of each finalized block, node versions included
    ring,       \* server: monad_statesync_server_context::deletions
    fin,        \* client's disk: finalized version and its state
    up,         \* whether a client context exists
    tgrt,       \* its target
    progress,   \* per prefix: block reached and old target
    ctx,        \* its working state: store (tdb), latest version, deltas,
                \* buffered; ok: no assertion has failed
    rq,         \* per prefix: request not yet answered
    stream,     \* per prefix: rest of the response under way
    partial,    \* prefixes with a response applied in part
    good,       \* finalize has always returned true
    faults      \* broken responses and crashes so far

server == <<chain, ring>>
client == <<tgrt, progress, ctx>>
net == <<rq, stream, partial>>
vars == <<server, fin, up, client, net, good, faults>>

NoAccount == [balance |-> 0, slot |-> 0, version |-> 0, slot_version |-> 0,
              incarnation |-> 0]
Plain(s) == [a \in Addr |-> [balance |-> s[a].balance, slot |-> s[a].slot]]
Nothing == [a \in Addr |-> [balance |-> 0, slot |-> 0]]
NoRequest == [from |-> 0, until |-> 0, target |-> 0, old_target |-> 0]
Head0 == Len(chain) - 1         \* number of the last finalized block
StateAt(n) == chain[n + 1]

-----------------------------------------------------------------------------
\* The server.

\* What a block can do to an account: create, pay, write a slot, destroy, or
\* destroy and create again. The trie node of an account gets the block's
\* version with any change below it.
Changes(x, n) ==
    LET at(w) == IF w = 0 THEN 0 ELSE n
        fresh == {[balance |-> 1, slot |-> w, version |-> n,
                   slot_version |-> at(w), incarnation |-> n] : w \in 0 .. 1}
        paid == [x EXCEPT !.balance = 3 - @, !.version = n]
        written == {[x EXCEPT !.slot = w, !.slot_version = at(w), !.version = n] :
                    w \in {0, IF x.slot = 1 THEN 2 ELSE 1} \ {x.slot}}
    IN  IF x.balance = 0 THEN fresh
        ELSE {paid, NoAccount} \union written \union fresh

\* on_commit: the slots emptied and the accounts that died, created again or
\* not, by a block that takes account a from x to y.
DeletionsOf(a, x, y) ==
    LET reborn == x.balance > 0 /\ x.incarnation # y.incarnation
    IN  IF x.balance > 0 /\ (y.balance = 0 \/ reborn)
        THEN <<[addr |-> a, key |-> FALSE]>>
        ELSE IF x.slot > 0 /\ y.slot = 0
        THEN <<[addr |-> a, key |-> TRUE]>>
        ELSE <<>>

Deletions(s, t) ==
    FlattenSeq(SetToSeq({DeletionsOf(a, s[a], t[a]) : a \in Addr}))

\* A block is committed and finalized: its deletions are written to the ring
\* and its state becomes readable. It changes one account.
NewBlock ==
    /\ Head0 < MaxBlock
    /\ LET n == Head0 + 1
           cur == StateAt(Head0)
       IN  \E a \in Busy : \E y \in Changes(cur[a], n) :
             LET t == [cur EXCEPT ![a] = y]
             IN  /\ chain' = Append(chain, t)
                 /\ ring' = Write(ring, n, Deletions(cur, t))
    /\ UNCHANGED <<fin, up, client, net, good, faults>>

\* send_deletion: the deletions of the blocks after the old target, as far as
\* they are remembered.
Kept(q) == {n \in q.old_target + 1 .. q.target :
                \A i \in q.old_target + 1 .. n : Has(ring, i)}
SendDeletion(a, q) ==
    IF q.old_target = InvalidBlock THEN <<>>
    ELSE SelectSeq(
           FlattenSeq([k \in 1 .. Cardinality(Kept(q)) |->
                          ForEach(ring, q.old_target + k)]),
           LAMBDA d : d.addr = a)
DeletionsThere(q) ==
    \/ q.old_target = InvalidBlock
    \/ \A n \in q.old_target + 1 .. q.target : Has(ring, n)

\* Faulty variant: does not look below an account it does not send.
TraverseSkipping(a, q) ==
    LET x == StateAt(q.target)[a]
    IN  IF x.balance = 0 \/ x.version \notin q.from .. q.until THEN <<>>
        ELSE <<[type |-> "account", val |-> x.balance]>>
             \o IF x.slot > 0 /\ x.slot_version \in q.from .. q.until
                THEN <<[type |-> "storage", val |-> x.slot]>> ELSE <<>>

\* Traverse: subtries older than the interval are not entered; a slot is sent
\* although its account is newer than the interval.
Traverse(a, q) ==
    LET x == StateAt(q.target)[a]
    IN  IF x.balance = 0 \/ x.version < q.from THEN <<>>
        ELSE (IF x.version <= q.until
              THEN <<[type |-> "account", val |-> x.balance]>> ELSE <<>>)
             \o (IF x.slot > 0 /\ x.slot_version \in q.from .. q.until
                 THEN <<[type |-> "storage", val |-> x.slot]>> ELSE <<>>)

\* statesync_server_handle_request: upserts, then done. Without the deletions
\* the response ends unsuccessfully.
Response(a, q) ==
    LET dels == SendDeletion(a, q)
        gone == [k \in DOMAIN dels |->
                    [type |-> IF dels[k].key THEN "storage_delete"
                                             ELSE "account_delete",
                     val |-> 0]]
    IN  IF DeletionsThere(q)
        THEN gone \o Traverse(a, q) \o <<[type |-> "done", val |-> q.until]>>
        ELSE gone \o <<[type |-> "failed", val |-> 0]>>

\* monad_statesync_server_run_once: one request at a time, any of the waiting.
Serve(a) ==
    /\ rq[a] # NoRequest
    /\ \A b \in Addr : stream[b] = <<>>
    /\ stream' = [stream EXCEPT ![a] = Response(a, rq[a])]
    /\ UNCHANGED <<server, fin, up, client, rq, partial, good, faults>>

\* The connection is lost in the middle of a response. (When nothing of it has
\* been applied, this makes no difference to the client.)
BreakOff(a) ==
    /\ faults < MaxFaults
    /\ stream[a] # <<>>
    /\ a \in partial
    /\ stream' = [stream EXCEPT ![a] = <<>>]
    /\ faults' = faults + 1
    /\ UNCHANGED <<server, fin, up, client, rq, partial, good>>

-----------------------------------------------------------------------------
\* The client.

\* A delta of an account: none, deleted (nullopt), or a balance with a slot to
\* write; Keep when the slot is not among the storage deltas.
Keep == -1
NoDelta == [kind |-> "none", balance |-> 0, slot |-> Keep]
Gone == [kind |-> "gone", balance |-> 0, slot |-> Keep]
Set(b, w) == [kind |-> "set", balance |-> b, slot |-> w]

Opened(n, s) == [store |-> s, latest |-> n, ok |-> TRUE,
                 deltas |-> [a \in Addr |-> NoDelta],
                 buffered |-> [a \in Addr |-> 0]]

Current == IF fin.n = InvalidBlock THEN 0 ELSE fin.n + 1

Check(c, p) == [c EXCEPT !.ok = @ /\ p]
Exists(c, a) == c.store[a].balance > 0

\* An account of the store with a delta applied.
Applied(x, d) ==
    CASE d.kind = "none" -> x
      [] d.kind = "gone" -> [balance |-> 0, slot |-> 0]
      [] d.kind = "set" -> [balance |-> d.balance,
                            slot |-> IF d.slot = Keep THEN x.slot ELSE d.slot]

\* commit: the deltas are written to the current version, which starts as a
\* copy of the finalized one.
Commit(c) ==
    [c EXCEPT !.store = [a \in Addr |-> Applied(@[a], c.deltas[a])],
              !.latest = Current,
              !.deltas = [a \in Addr |-> NoDelta]]

\* account_update, b = 0 for a deletion, up to the recursive call.
UpdateAccount(c, a, b) ==
    LET d == c.deltas[a]
        set(x, e) == [x EXCEPT !.deltas[a] = e]
        orphan == c.buffered[a]
    IN  CASE orphan > 0 ->
               LET x == [Check(c, ~Exists(c, a) /\ d = NoDelta)
                            EXCEPT !.buffered[a] = 0]
               IN  IF b > 0 THEN set(x, Set(b, orphan)) ELSE x
          [] orphan = 0 /\ b > 0 ->
               set(c, Set(b, IF d.kind = "set" THEN d.slot ELSE Keep))
          [] orphan = 0 /\ b = 0 /\ Exists(c, a) -> set(c, Gone)
          [] orphan = 0 /\ b = 0 /\ ~Exists(c, a) -> set(c, NoDelta)

\* Faulty variant: puts an account over its deletion without committing that.
AccountUpdateOver(c, a, b) == UpdateAccount(c, a, b)

\* An account that comes back after a deletion is a new incarnation: the
\* deletion is committed first, so that its storage goes.
AccountUpdate(c, a, b) ==
    IF c.buffered[a] = 0 /\ c.deltas[a] = Gone /\ b > 0
    THEN UpdateAccount(Commit(c), a, b)
    ELSE UpdateAccount(c, a, b)

\* storage_update, w = 0 for a deletion, up to the recursive call.
UpdateStorage(c, a, w) ==
    LET d == c.deltas[a]
        old == c.store[a].slot
    IN  CASE c.buffered[a] > 0 ->
               [Check(c, ~Exists(c, a) /\ d = NoDelta)
                   EXCEPT !.buffered[a] = w]
          [] c.buffered[a] = 0 /\ d.kind = "set" ->
               [c EXCEPT !.deltas[a].slot = IF w > 0 \/ old > 0 THEN w ELSE Keep]
          [] c.buffered[a] = 0 /\ d.kind = "gone" -> c
          [] c.buffered[a] = 0 /\ d.kind = "none" /\ (w > 0 \/ old > 0) ->
               IF Exists(c, a)
               THEN [c EXCEPT !.deltas[a] = Set(c.store[a].balance, w)]
               ELSE [Check(c, w > 0) EXCEPT !.buffered[a] = w]
          [] OTHER -> c

\* Faulty variant: buffers a slot while its account's deletion is pending.
StorageUpdateEarly(c, a, w) ==
    IF c.buffered[a] = 0 /\ c.deltas[a] = Gone /\ w > 0
    THEN [c EXCEPT !.buffered[a] = w]
    ELSE UpdateStorage(c, a, w)

\* Likewise a slot written after its account was deleted.
StorageUpdate(c, a, w) ==
    IF c.buffered[a] = 0 /\ c.deltas[a] = Gone /\ w > 0
    THEN UpdateStorage(Commit(c), a, w)
    ELSE UpdateStorage(c, a, w)

\* StatesyncProtocolV1::handle_upsert, without the periodic commit.
HandleUpsert(c, a, m) ==
    IF m.type \in {"account", "account_delete"}
    THEN AccountUpdate(c, a, m.val)
    ELSE StorageUpdate(c, a, m.val)

Reached(t, prog) ==
    t # InvalidBlock /\ \A a \in Addr : prog[a].n = t

\* Faulty variant: never asks for the last part.
SendRequestMost(t, prog) ==
    [from |-> IF prog.n = InvalidBlock THEN 0 ELSE prog.n + 1,
     until |-> (t * 99) \div 100, target |-> t, old_target |-> prog.old_target]

\* send_request: first up to 99% of the target, then the rest.
SendRequest(t, prog) ==
    LET from == IF prog.n = InvalidBlock THEN 0 ELSE prog.n + 1
        most == (t * 99) \div 100
    IN  [from |-> from, until |-> IF from >= most THEN t ELSE most,
         target |-> t, old_target |-> prog.old_target]
MayRequest(t, prog) ==
    /\ prog.n = InvalidBlock \/ prog.n < t
    /\ prog.old_target = InvalidBlock \/ prog.old_target <= t

\* Faulty variant: asks for the same blocks again.
NextRequestAgain(t, prog) ==
    IF prog.n = t THEN NoRequest
    ELSE [SendRequest(t, prog) EXCEPT !.from = prog.n, !.until = prog.n]

\* What handle_done asks for next.
NextRequest(t, prog) == IF prog.n = t THEN NoRequest ELSE SendRequest(t, prog)

\* monad_statesync_client_handle_target. Consensus announces the last finalized
\* block, once; the chain may grow before and after. Requests under way are
\* dropped; a first response is not abandoned once part of it is applied.
HandleTarget(t) ==
    /\ up
    /\ t > 0
    /\ t # tgrt
    /\ \A a \in partial : progress[a].old_target # InvalidBlock
    /\ tgrt' = t
    /\ IF t = ctx.latest
       THEN /\ ctx' = Check(ctx, Reached(t, progress))
            /\ rq' = [a \in Addr |-> NoRequest]
       ELSE /\ ctx' = Check(ctx, \A a \in Addr : MayRequest(t, progress[a]))
            /\ rq' = [a \in Addr |-> SendRequest(t, progress[a])]
    /\ stream' = [a \in Addr |-> <<>>]
    /\ UNCHANGED <<server, fin, up, progress, partial, good, faults>>

\* An upsert arrives; every so many upserts are followed by a commit.
Upsert(a) ==
    /\ stream[a] # <<>>
    /\ Head(stream[a]).type \notin {"done", "failed"}
    /\ LET c == HandleUpsert(ctx, a, Head(stream[a])) IN ctx' \in {c, Commit(c)}
    /\ stream' = [stream EXCEPT ![a] = Tail(@)]
    /\ partial' = partial \union {a}
    /\ UNCHANGED <<server, fin, up, tgrt, progress, rq, good, faults>>

\* monad_statesync_client_handle_done
HandleDone(a) ==
    /\ stream[a] # <<>>
    /\ Head(stream[a]).type = "done"
    /\ LET n == Head(stream[a]).val
           prog == [progress EXCEPT ![a] = [n |-> n, old_target |-> tgrt]]
           later == progress[a].n = InvalidBlock \/ n > progress[a].n
           c == Check(ctx, later /\ (n = tgrt \/ MayRequest(tgrt, prog[a])))
       IN  /\ progress' = prog
           /\ rq' = [rq EXCEPT ![a] = NextRequest(tgrt, prog[a])]
           /\ ctx' = IF Reached(tgrt, prog) THEN Commit(c) ELSE c
    /\ stream' = [stream EXCEPT ![a] = <<>>]
    /\ partial' = partial \ {a}
    /\ UNCHANGED <<server, fin, up, tgrt, good, faults>>

\* An unsuccessful response does not reach the client; the request is repeated.
Failed(a) ==
    /\ stream[a] # <<>>
    /\ Head(stream[a]).type = "failed"
    /\ stream' = [stream EXCEPT ![a] = <<>>]
    /\ UNCHANGED <<server, fin, up, client, rq, partial, good, faults>>


\* What the database holds when it is opened again: the versions after the
\* finalized one are dropped, and all of them if none is finalized.
Rewound == fin

\* The context is gone, and what was under way with it.
Closed ==
    /\ up' = FALSE
    /\ tgrt' = InvalidBlock
    /\ progress' = [a \in Addr |-> [n |-> InvalidBlock, old_target |-> InvalidBlock]]
    /\ ctx' = Opened(InvalidBlock, Nothing)
    /\ rq' = [a \in Addr |-> NoRequest]
    /\ stream' = [a \in Addr |-> <<>>]
    /\ partial' = {}

\* monad_statesync_client_finalize, called when the target is reached, and
\* monad_statesync_client_context_destroy.
Finalize ==
    /\ up
    /\ Reached(tgrt, progress)
    /\ LET whole == \A a \in Addr : ctx.deltas[a] = NoDelta /\ ctx.buffered[a] = 0
       IN  /\ good' = (good /\ whole /\ ctx.store = Plain(StateAt(tgrt)))
           /\ fin' = IF whole THEN [n |-> tgrt, state |-> ctx.store] ELSE fin
    /\ Closed
    /\ UNCHANGED <<server, faults>>

Crash ==
    /\ up
    /\ tgrt # InvalidBlock
    /\ faults < MaxFaults
    /\ faults' = faults + 1
    /\ fin' = Rewound
    /\ Closed
    /\ UNCHANGED <<server, good>>

\* monad_statesync_client_context_create
Create ==
    /\ ~up
    /\ up' = TRUE
    /\ progress' = [a \in Addr |-> [n |-> fin.n, old_target |-> fin.n]]
    /\ ctx' = Opened(fin.n, fin.state)
    /\ UNCHANGED <<server, fin, tgrt, net, good, faults>>

\* The client's database is empty or has the genesis block loaded.
Init ==
    /\ chain = <<Genesis>>
    /\ ring = Write(EmptyRing, 0, <<>>)
    /\ fin \in {[n |-> InvalidBlock, state |-> Nothing],
               [n |-> 0, state |-> Plain(Genesis)]}
    /\ up = FALSE
    /\ tgrt = InvalidBlock
    /\ progress = [a \in Addr |-> [n |-> InvalidBlock, old_target |-> InvalidBlock]]
    /\ ctx = Opened(InvalidBlock, Nothing)
    /\ rq = [a \in Addr |-> NoRequest]
    /\ stream = [a \in Addr |-> <<>>]
    /\ partial = {}
    /\ good = TRUE
    /\ faults = 0

\* What synchronizing takes; no fault and no new block.
Sync ==
    \/ Create
    \/ HandleTarget(Head0)
    \/ \E a \in Addr : Serve(a) \/ Upsert(a) \/ HandleDone(a) \/ Failed(a)
    \/ Finalize

Next ==
    \/ NewBlock
    \/ Sync
    \/ \E a \in Addr : BreakOff(a)
    \/ Crash

Spec == Init /\ [][Next]_vars

\* The node that runs the client starts and finalizes it, the last block is
\* announced, the server answers and the network delivers: some step of these
\* is taken as long as one is possible, in whatever order.
FairSpec == Spec /\ WF_vars(Sync)

-----------------------------------------------------------------------------
\* Types, and that every request passes the server's static validation.
TypeOK ==
    /\ fin.n \in 0 .. MaxBlock \union {InvalidBlock}
    /\ tgrt \in 1 .. MaxBlock \union {InvalidBlock}
    /\ \A a \in Addr :
         /\ {fin.state[a].balance, ctx.store[a].balance} \subseteq 0 .. 2
         /\ {fin.state[a].slot, ctx.store[a].slot, ctx.buffered[a]} \subseteq 0 .. 2
         /\ ctx.deltas[a] \in {NoDelta, Gone}
                                \union {Set(b, w) : b \in 1 .. 2, w \in Keep .. 2}
         /\ rq[a] # NoRequest =>
              /\ rq[a].from <= rq[a].until /\ rq[a].until <= rq[a].target
              /\ rq[a].old_target = InvalidBlock \/ rq[a].old_target <= rq[a].target
    /\ partial \subseteq Addr

\* No assertion of the client, nor of the server's ring of deletions, fails:
\* whatever order updates, deletions and commits come in, storage is buffered
\* only for accounts the client does not have, progress only grows, and a
\* block's deletions replace those of the oldest blocks.
AssertionsHold == ctx.ok /\ ring.ok

\* What the client makes of an account: its store under its deltas.
View(a) == Applied(ctx.store[a], ctx.deltas[a])

\* has_reached_target means what it says: all deltas are committed, no slot
\* waits for its account, and the state is the target's, whatever targets the
\* prefixes were synchronized to on the way. So finalize returns true.
SyncedIsServer ==
    /\ Reached(tgrt, progress) =>
         /\ \A a \in Addr : ctx.deltas[a] = NoDelta /\ ctx.buffered[a] = 0
         /\ ctx.store = Plain(StateAt(tgrt))
    /\ good

\* What a done message promises about its prefix, target reached or not: the
\* accounts and slots of the old target's state that are no newer than the
\* progress are there (a slot perhaps waiting for its account), and what that
\* state does not have, the client does not have either.
CaughtUp(a) ==
    LET x == StateAt(progress[a].old_target)[a]
        v == View(a)
        slot == IF ctx.buffered[a] > 0 THEN ctx.buffered[a] ELSE v.slot
    IN  /\ x.balance = 0 => v.balance = 0
        /\ x.balance > 0 /\ x.version <= progress[a].n => v.balance = x.balance
        /\ x.slot = 0 => slot = 0
        /\ x.slot > 0 /\ x.slot_version <= progress[a].n => slot = x.slot

\* handle_done: a prefix with no response half applied is as the last done
\* message said.
PrefixCaughtUp ==
    \A a \in Addr : progress[a].n # InvalidBlock /\ a \notin partial => CaughtUp(a)


\* The server's ring holds an unbroken run of blocks up to the last one, and
\* for each of them exactly what the block deleted, although both rings wrap.
DeletionsRemembered ==
    /\ \A n \in 1 .. Head0 :
         Has(ring, n) =>
           /\ ToSet(ForEach(ring, n)) = ToSet(Deletions(StateAt(n - 1), StateAt(n)))
           /\ n < Head0 => Has(ring, n + 1)
    /\ Has(ring, Head0)

\* A request asks for deletions the server no longer has: the client is too far
\* behind and has to start from nothing.
TooFarBehind == \E a \in Addr : rq[a] # NoRequest /\ ~DeletionsThere(rq[a])

\* Once the chain stops growing the client ends up with its last block
\* finalized, after any broken responses and crashes, unless it fell behind
\* what the server remembers.
EventuallySynced == <>[](fin.n = Head0 \/ Head0 = 0 \/ TooFarBehind)
=============================================================================
