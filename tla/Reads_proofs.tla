---------------------------- MODULE Reads_proofs -----------------------------
(***************************************************************************)
(* The readers of the block state.  Each delta keeps the before-images of  *)
(* the database and the world now, whichever fiber fills in its slots and  *)
(* in whatever order; and what a fiber has read stays what the block state *)
(* says, or is found out when it merges.  The invariant that says so, and  *)
(* the steps of a fiber that read.                                         *)
(***************************************************************************)
EXTENDS Solvency_proofs

\* Zenon proves a step that names no prover; the steps that need arithmetic,
\* records or functions taken apart name SMT.
USE ZenonT(20), SMTT(20)

-----------------------------------------------------------------------------
(* One delta d of the block state, at address a.                           *)

\* The account is still the one the database has.
Same(d) ==
    /\ d.first # NoAccount
    /\ d.second # NoAccount
    /\ d.first.inc = d.second.inc

\* The word of slot k before the block, for the account that is there now.
Old(d, a, k) == IF Same(d) THEN Db[a].storage[k] ELSE 0

\* The before-images are those of the database, and a vacant account has no
\* storage.
DeltaOK(a, d) ==
    /\ d.first = Db[a].acct
    /\ d.second = NoAccount => d.storage = NoSlots
    /\ Same(d) /\ Vacant(d.second) => Vacant(d.first)
    /\ \A k \in Key : d.storage[k] # Absent =>
         /\ d.storage[k].first = Old(d, a, k)
         /\ Vacant(d.second) => d.storage[k].second = 0

\* e is d with slots that readers filled in from the database.
Fills(a, d, e) ==
    /\ e.first = d.first
    /\ e.second = d.second
    /\ \A k \in Key : e.storage[k] # d.storage[k] =>
         /\ d.second # NoAccount
         /\ d.storage[k] = Absent
         /\ e.storage[k] # Absent
         /\ e.storage[k].first = Old(d, a, k)
         /\ e.storage[k].second = Old(d, a, k)

\* What a State has read at a, its OriginalAccountState o, is what the block
\* state says, and will say once the slots it lacks are filled in.
Agrees(a, d, o) ==
    /\ o.acct = d.second
    /\ \A k \in Key : o.storage[k] # Absent =>
         /\ d.storage[k] # Absent => o.storage[k] = d.storage[k].second
         /\ d.storage[k] = Absent => o.storage[k] = 0 /\ Old(d, a, k) = 0

\* The slots a speculation has read at a are in the block state as long as
\* the account it read is there.
Kept(d, o) ==
    \/ Vacant(o.acct)
    \/ d.second # NoAccount /\ d.second.inc = o.acct.inc =>
         \A k \in Key : o.storage[k] # Absent => d.storage[k] # Absent

\* A vacant account has never had storage.
LEMMA VacantOld ==
    ASSUME NEW a \in Addr, NEW d, DeltaOK(a, d), Vacant(d.second), NEW k \in Key
    PROVE  Old(d, a, k) = 0
BY WorldAssumption DEF DeltaOK, Old

LEMMA FillsSame ==
    ASSUME NEW a, NEW d, NEW e, Fills(a, d, e)
    PROVE  (Same(e) <=> Same(d)) /\ \A k \in Key : Old(e, a, k) = Old(d, a, k)
<1>1. Same(e) <=> Same(d)
  BY DEF Fills, Same
<1> QED
  BY <1>1 DEF Old

LEMMA FillsOK ==
    ASSUME NEW a \in Addr, NEW d, NEW e, DeltaOK(a, d), Fills(a, d, e)
    PROVE  /\ e.second = d.second
           /\ e.first = Db[a].acct
           /\ Same(e) /\ Vacant(e.second) => Vacant(e.first)
           /\ \A k \in Key : e.storage[k] # Absent =>
                /\ e.storage[k].first = Old(e, a, k)
                /\ Vacant(e.second) => e.storage[k].second = 0
           /\ \A k \in Key : e.second = NoAccount => e.storage[k] = Absent
<1>1. (Same(e) <=> Same(d)) /\ \A k \in Key : Old(e, a, k) = Old(d, a, k)
  BY FillsSame
<1>2. e.first = d.first /\ e.second = d.second
  BY DEF Fills
<1>3. ASSUME NEW k \in Key, e.storage[k] # Absent
      PROVE  /\ e.storage[k].first = Old(d, a, k)
             /\ Vacant(e.second) => e.storage[k].second = 0
  <2>1. CASE e.storage[k] = d.storage[k]
    BY <1>2, <1>3, <2>1 DEF DeltaOK
  <2>2. CASE e.storage[k] # d.storage[k]
    BY <1>2, <1>3, <2>2, VacantOld DEF Fills
  <2> QED
    BY <2>1, <2>2
<1>4. ASSUME NEW k \in Key, e.second = NoAccount
      PROVE  e.storage[k] = Absent
  BY <1>2, <1>4 DEF Fills, DeltaOK, NoSlots
<1> QED
  BY <1>1, <1>2, <1>3, <1>4 DEF DeltaOK

LEMMA FillsDelta ==
    ASSUME NEW a \in Addr, NEW d, NEW e \in Delta, DeltaOK(a, d), Fills(a, d, e)
    PROVE  DeltaOK(a, e)
<1>1. e.second = NoAccount => e.storage = NoSlots
  BY FillsOK, SMT DEF Delta, NoSlots
<1> QED
  BY <1>1, FillsOK, SMT DEF DeltaOK

LEMMA FillsAgrees ==
    ASSUME NEW a, NEW d, NEW e, Fills(a, d, e), NEW o, Agrees(a, d, o)
    PROVE  Agrees(a, e, o)
<1>1. \A k \in Key : Old(e, a, k) = Old(d, a, k)
  BY FillsSame
<1>2. e.second = d.second
  BY DEF Fills
<1>3. ASSUME NEW k \in Key, o.storage[k] # Absent
      PROVE  /\ e.storage[k] # Absent => o.storage[k] = e.storage[k].second
             /\ e.storage[k] = Absent => o.storage[k] = 0 /\ Old(e, a, k) = 0
  BY <1>1, <1>3 DEF Fills, Agrees
<1> QED
  BY <1>2, <1>3 DEF Agrees

LEMMA FillsKept ==
    ASSUME NEW a, NEW d, NEW e, Fills(a, d, e), NEW o, Kept(d, o)
    PROVE  Kept(e, o)
BY DEF Fills, Kept

\* A merge of what was read rightly: e is the account the State of incarnation
\* inc leaves at a.
LEMMA MergeDelta ==
    ASSUME NEW b \in Shared, NEW a \in Known(b), DeltaOK(a, b[a]),
           NEW inc \in 1 .. MaxTxs + 1, NEW o, NEW e \in AccountState,
           Agrees(a, b[a], o), Final(o, e, inc)
    PROVE  DeltaOK(a, MergeAccount(b, a, e)[a])
<1>c. PICK c : c = MergeAccount(b, a, e)
  OBVIOUS
<1>d. PICK d : d = b[a]
  OBVIOUS
<1>1. /\ c[a].first = d.first /\ c[a].second = e.acct
      /\ e.acct = NoAccount => c[a].storage = NoSlots
      /\ e.acct # NoAccount => \A k \in Key :
           /\ e.storage[k] = Absent => c[a].storage[k] = d.storage[k]
           /\ e.storage[k] # Absent =>
                /\ c[a].storage[k] # Absent
                /\ c[a].storage[k].second = e.storage[k]
                /\ c[a].storage[k].first =
                     IF d.storage[k] # Absent THEN d.storage[k].first ELSE 0
  BY <1>c, <1>d, MergeAccountSame, SMT
<1>2. PICK f : f = c[a]
  OBVIOUS
<1>3. DeltaOK(a, d) /\ Agrees(a, d, o) /\ a \in Addr /\ d.first = Db[a].acct
  BY <1>d DEF Known, DeltaOK
<1>4. CASE e.acct = NoAccount
  BY <1>1, <1>2, <1>3, <1>4, <1>c DEF DeltaOK, Same, NoSlots
<1>5. CASE e.acct # NoAccount
  <2>1. /\ Descends(d.second, e.acct, inc) /\ Stored(o, e) /\ o.acct = d.second
    BY <1>3, <1>5 DEF Final, Agrees
  <2>2. /\ f.first = d.first /\ f.second = e.acct /\ f.second # NoAccount
        /\ \A k \in Key :
           /\ e.storage[k] = Absent => f.storage[k] = d.storage[k]
           /\ e.storage[k] # Absent =>
                /\ f.storage[k] # Absent
                /\ f.storage[k].second = e.storage[k]
                /\ f.storage[k].first =
                     IF d.storage[k] # Absent THEN d.storage[k].first ELSE 0
    BY <1>1, <1>2, <1>5
  <2>3. /\ Vacant(f.second) => Vacant(d.second)
        /\ Same(f) /\ Vacant(f.second) => Vacant(f.first)
        /\ \A k \in Key : Old(f, a, k) = Old(d, a, k)
    <3>1. CASE d.second # NoAccount /\ e.acct.inc = d.second.inc
               /\ (Vacant(e.acct) => Vacant(d.second))
      <4>1. Same(f) <=> Same(d)
        BY <2>2, <3>1 DEF Same
      <4> QED
        BY <1>3, <2>2, <3>1, <4>1 DEF Old, DeltaOK
    <3>2. CASE e.acct.inc = inc /\ Vacant(d.second)
      <4>1. ~Same(f)
        BY <1>3, <2>2, <3>2, WorldAssumption, SMT DEF Same
      <4>2. \A k \in Key : Old(d, a, k) = 0
        BY <1>3, <3>2, VacantOld
      <4> QED
        BY <3>2, <4>1, <4>2 DEF Old
    <3> QED
      BY <1>5, <2>1, <3>1, <3>2 DEF Descends
  <2>4. ASSUME NEW k \in Key, f.storage[k] # Absent
        PROVE  /\ f.storage[k].first = Old(f, a, k)
               /\ Vacant(f.second) => f.storage[k].second = 0
    <3>1. CASE e.storage[k] = Absent
      BY <1>3, <2>2, <2>3, <2>4, <3>1 DEF DeltaOK
    <3>2. CASE e.storage[k] # Absent
      <4>1. o.storage[k] # Absent /\ (Vacant(f.second) => e.storage[k] = 0)
        BY <2>1, <2>2, <3>2 DEF Stored
      <4>2. d.storage[k] = Absent => Old(d, a, k) = 0
        BY <1>3, <4>1 DEF Agrees
      <4> QED
        BY <1>3, <2>2, <2>3, <3>2, <4>1, <4>2 DEF DeltaOK
    <3> QED
      BY <3>1, <3>2
  <2> QED
    BY <1>2, <1>3, <1>c, <2>2, <2>3, <2>4 DEF DeltaOK
<1> QED
  BY <1>4, <1>5

-----------------------------------------------------------------------------
(* The invariant.  It speaks of a block whose execution has not thrown: an *)
(* exception sets a promise out of turn.                                   *)

\* Transaction x, if it is one of the block's, has merged the account at a or
\* will not.
Past(x, a) ==
    x \in Tx => \/ pc[x] \in {"exit", "done"}
                \/ pc[x] = "merge" /\ a \notin todo[x]

World(a) ==
    bs[a] # Absent =>
      /\ DeltaOK(a, bs[a])
      /\ bs[a].second # NoAccount => Past(bs[a].second.inc, a)

\* What a speculation has read at a, rightly or not.
Guess(o, a) ==
    /\ Kept(bs[a], o)
    /\ o.acct # NoAccount => Past(o.acct.inc, a)

\* The read of a slot that fiber i has in flight.
Asked(i) ==
    LET d == bs[io[i].a]
        inc == IncarnationAt(i, io[i].a)
    IN  /\ io[i].db <=> d.first # NoAccount /\ d.first.inc = inc
        /\ pc[i] = "retry" => Incarnate(bs, io[i].a, inc)

Ahead(i) ==
    /\ pc[i] # "abort"
    /\ pc[i] \in {"none", "idle"} => \A a \in Addr : st[i].orig[a] = Absent
    /\ pc[i] = "spec" => \A a \in Addr :
         st[i].orig[a] # Absent => Guess(st[i].orig[a], a)
    /\ pc[i] = "retry" => \A a \in Addr :
         st[i].orig[a] # Absent => Agrees(a, bs[a], st[i].orig[a])
    /\ pc[i] = "merge" => \A a \in todo[i] : Agrees(a, bs[a], st[i].orig[a])
    /\ io[i] # NoIo /\ io[i].k # Absent => Asked(i)

CInv ==
    thrown = {} =>
      /\ main = "header" => bs = EmptyBlockState
      /\ main = "epilogue" => \A i \in Tx : pc[i] = "done"
      /\ \A a \in Addr : World(a)
      /\ \A i \in Tx : Ahead(i)

\* Merging only goes on.
Forward ==
    \A j \in Tx :
      /\ pc[j] \in {"exit", "done"} => pc'[j] \in {"exit", "done"}
      /\ pc[j] = "merge" => \/ pc'[j] = "exit"
                            \/ pc'[j] = "merge" /\ todo'[j] \subseteq todo[j]

LEMMA PastStays ==
    ASSUME Tx' = Tx, Forward, NEW x, NEW a, Past(x, a)
    PROVE  Past(x, a)'
BY DEF Past, Forward

\* A fiber that a step leaves alone: it only meets deltas with more slots, or,
\* while it speculates, others that keep what it has read.
LEMMA OtherAhead ==
    ASSUME IInv, Tx' = Tx, Forward, NEW j \in Tx, Ahead(j),
           st'[j] = st[j], pc'[j] = pc[j], io'[j] = io[j], todo'[j] = todo[j],
           \A a \in Addr : bs[a] # Absent =>
              /\ bs'[a].first = bs[a].first
              /\ pc[j] = "spec" /\ st[j].orig[a] # Absent /\ Guess(st[j].orig[a], a) =>
                   Kept(bs'[a], st[j].orig[a])
              /\ pc[j] \in {"retry", "merge"} => Fills(a, bs[a], bs'[a])
    PROVE  Ahead(j)'
<1>1. FiberOK(j) /\ WellFormed(st[j]) /\ TypeOK
  BY DEF IInv, FiberOK
<1>2. ASSUME pc[j] = "spec", NEW a \in Addr, st[j].orig[a] # Absent
      PROVE  Guess(st[j].orig[a], a)'
  <2>1. Guess(st[j].orig[a], a) /\ bs[a] # Absent
    BY <1>1, <1>2 DEF Ahead, FiberOK
  <2>2. Kept(bs'[a], st[j].orig[a])
    BY <1>2, <2>1
  <2>o. PICK o : o = st[j].orig[a]
    OBVIOUS
  <2>3. o.acct # NoAccount => Past(o.acct.inc, a)'
    <3>1. PICK x : x = o.acct.inc
      OBVIOUS
    <3> QED
      BY <2>1, <2>o, <3>1, PastStays DEF Guess
  <2> QED
    BY <2>2, <2>3, <2>o DEF Guess
<1>3. ASSUME pc[j] = "retry", NEW a \in Addr, st[j].orig[a] # Absent
      PROVE  Agrees(a, bs'[a], st[j].orig[a])
  <2>1. Agrees(a, bs[a], st[j].orig[a]) /\ bs[a] # Absent
    BY <1>1, <1>3 DEF Ahead, FiberOK
  <2> QED
    BY <1>3, <2>1, FillsAgrees
<1>4. ASSUME pc[j] = "merge", NEW a \in todo[j]
      PROVE  Agrees(a, bs'[a], st[j].orig[a])
  <2>1. a \in Addr /\ bs[a] # Absent
    BY <1>1, <1>4 DEF FiberOK, WellFormed, TypeOK
  <2>2. Agrees(a, bs[a], st[j].orig[a])
    BY <1>4 DEF Ahead
  <2> QED
    BY <1>4, <2>1, <2>2, FillsAgrees
<1>5. ASSUME io[j] # NoIo, io[j].k # Absent
      PROVE  Asked(j)'
  <2>1. /\ Asked(j) /\ io[j].a \in Addr /\ bs[io[j].a] # Absent
    BY <1>1, <1>5 DEF Ahead, FiberOK
  <2>2. bs'[io[j].a].first = bs[io[j].a].first
    BY <2>1
  <2>3. pc[j] = "retry" => bs'[io[j].a].second = bs[io[j].a].second
    BY <2>1 DEF Fills
  <2> QED
    BY <2>1, <2>2, <2>3 DEF Asked, Incarnate, IncarnationAt
<1> QED
  BY <1>2, <1>3, <1>4, <1>5 DEF Ahead, NoIo

\* The world of an address whose delta only gets more slots.
LEMMA WorldGrows ==
    ASSUME Tx' = Tx, Forward, NEW a \in Addr, World(a), bs' \in Shared,
           bs[a] # Absent => Fills(a, bs[a], bs'[a]),
           bs[a] = Absent => World(a)'
    PROVE  World(a)'
<1>1. CASE bs[a] # Absent /\ bs'[a] # Absent
  <2>1. DeltaOK(a, bs[a]) /\ Fills(a, bs[a], bs'[a]) /\ bs'[a] \in Delta
        /\ bs'[a].second = bs[a].second
    BY <1>1 DEF World, Fills, Shared
  <2>2. DeltaOK(a, bs'[a])
    BY <2>1, FillsDelta
  <2>3. (bs[a].second # NoAccount => Past(bs[a].second.inc, a))'
    <3>1. PICK x : x = bs[a].second.inc
      OBVIOUS
    <3>2. bs'[a].second # NoAccount => Past(x, a)'
      BY <1>1, <2>1, <3>1, PastStays DEF World
    <3> QED
      BY <2>1, <3>1, <3>2
  <2> QED
    BY <2>2, <2>3 DEF World
<1> QED
  BY <1>1 DEF World

\* A step of fiber i: the calling thread neither executes the header nor has
\* collected the results.
LEMMA CommitStep ==
    ASSUME IInv, OrderInv, CInv, NEW i \in Tx, Fiber(i),
           thrown = {} => \A a \in Addr : World(a)',
           thrown = {} => \A j \in Tx : Ahead(j)'
    PROVE  CInv'
<1>1. /\ Tx' = Tx /\ main' = main /\ thrown \subseteq thrown'
      /\ pc[i] \notin {"none", "done"}
  BY FiberMoves DEF Tx, Moved
<1>2. main # "header"
  BY <1>1 DEF OrderInv, HeaderFirst
<1>3. thrown = {} => main # "epilogue"
  BY <1>1 DEF CInv
<1>4. thrown' = {} => thrown = {}
  BY <1>1
<1> QED
  BY <1>1, <1>2, <1>3, <1>4 DEF CInv

-----------------------------------------------------------------------------
(* The reads of fiber i, which change its State, its read in flight, and   *)
(* the deltas by what the database returned.                               *)

LEMMA FillsSelf == ASSUME NEW a, NEW d PROVE Fills(a, d, d)
BY DEF Fills

LEMMA ReadCommit ==
    ASSUME IInv, TypeOK', OrderInv, CInv, NEW i \in Tx, Fiber(i),
           pc[i] \in {"spec", "retry"}, NEW t, NEW r,
           st' = [st EXCEPT ![i] = t], io' = [io EXCEPT ![i] = r],
           UNCHANGED <<block, pc, todo>>,
           thrown = {} => \A b \in Addr :
              /\ bs[b] # Absent => Fills(b, bs[b], bs'[b])
              /\ bs[b] = Absent => World(b)'
              /\ \/ t.orig[b] = st[i].orig[b]
                 \/ /\ pc[i] = "spec" => Guess(t.orig[b], b)'
                    /\ pc[i] = "retry" => Agrees(b, bs'[b], t.orig[b]),
           thrown = {} /\ r # NoIo /\ r.k # Absent => Asked(i)'
    PROVE  CInv'
<1> SUFFICES ASSUME thrown = {} PROVE (\A a \in Addr : World(a)') /\ \A j \in Tx : Ahead(j)'
  BY CommitStep
<1>1. /\ TypeOK /\ FiberOK(i) /\ bs' \in Shared /\ Tx' = Tx /\ Forward
      /\ \A a \in Addr : World(a)
      /\ \A j \in Tx : Ahead(j)
  BY DEF IInv, TypeOK, Shared, Tx, CInv, Forward
<1>2. \A a \in Addr : World(a)'
  BY <1>1, WorldGrows
<1>3. /\ st'[i] = t /\ io'[i] = r /\ pc'[i] = pc[i]
      /\ \A j \in Tx \ {i} : st'[j] = st[j] /\ io'[j] = io[j]
  BY <1>1 DEF TypeOK
<1>4. ASSUME NEW j \in Tx, j # i PROVE Ahead(j)'
  <2>1. st'[j] = st[j] /\ io'[j] = io[j] /\ pc'[j] = pc[j] /\ todo'[j] = todo[j]
    BY <1>3, <1>4
  <2>2. ASSUME NEW a \in Addr, bs[a] # Absent
        PROVE  /\ bs'[a].first = bs[a].first
               /\ pc[j] = "spec" /\ st[j].orig[a] # Absent /\ Guess(st[j].orig[a], a) =>
                    Kept(bs'[a], st[j].orig[a])
               /\ Fills(a, bs[a], bs'[a])
    <3>1. Fills(a, bs[a], bs'[a])
      BY <2>2
    <3>2. ASSUME Guess(st[j].orig[a], a) PROVE Kept(bs'[a], st[j].orig[a])
      <4>1. Kept(bs[a], st[j].orig[a])
        BY <3>2 DEF Guess
      <4> QED
        BY <3>1, <4>1, FillsKept, SMT
    <3>3. bs'[a].first = bs[a].first
      BY <3>1 DEF Fills
    <3> QED
      BY <3>1, <3>2, <3>3
  <2> QED
    BY <1>1, <2>1, <2>2, OtherAhead
<1>5. Ahead(i)'
  <2>1. ASSUME NEW b \in Addr, t.orig[b] # Absent
        PROVE  /\ pc[i] = "spec" => Guess(t.orig[b], b)'
               /\ pc[i] = "retry" => Agrees(b, bs'[b], t.orig[b])
    <3>1. CASE t.orig[b] = st[i].orig[b]
      <4>1. bs[b] # Absent /\ Fills(b, bs[b], bs'[b])
        BY <1>1, <2>1, <3>1 DEF FiberOK
      <4>o. PICK o, x : o = t.orig[b] /\ x = o.acct.inc
        OBVIOUS
      <4>2. ASSUME pc[i] = "spec" PROVE Guess(o, b)'
        <5>1. Guess(o, b)
          BY <1>1, <2>1, <3>1, <4>2, <4>o DEF Ahead
        <5>2. Kept(bs'[b], o)
          BY <4>1, <5>1, FillsKept DEF Guess
        <5>3. o.acct # NoAccount => Past(x, b)'
          BY <1>1, <4>o, <5>1, PastStays DEF Guess
        <5> QED
          BY <4>o, <5>2, <5>3 DEF Guess
      <4>3. ASSUME pc[i] = "retry" PROVE Agrees(b, bs'[b], o)
        <5>1. Agrees(b, bs[b], o)
          BY <1>1, <2>1, <3>1, <4>3, <4>o DEF Ahead
        <5> QED
          BY <4>1, <5>1, FillsAgrees
      <4> QED
        BY <4>2, <4>3, <4>o
    <3> QED
      BY <3>1
  <2> QED
    BY <1>3, <2>1 DEF Ahead, NoIo
<1> QED
  BY <1>2, <1>4, <1>5

LEMMA EmplaceAccountFills ==
    ASSUME NEW b \in Shared, NEW a \in Addr
    PROVE  LET c == EmplaceAccount(b, a, Db[a].acct)
           IN  /\ \A e \in Addr : b[e] # Absent => Fills(e, b[e], c[e])
               /\ \A e \in Addr \ {a} : c[e] = b[e]
               /\ b[a] = Absent => /\ DeltaOK(a, c[a])
                                   /\ c[a].second = Db[a].acct
                                   /\ c[a].storage = NoSlots
<1> DEFINE d == [first |-> Db[a].acct, second |-> Db[a].acct, storage |-> NoSlots]
<1>1. d.first = Db[a].acct /\ d.second = Db[a].acct /\ d.storage = NoSlots
  OBVIOUS
<1>2. EmplaceAccount(b, a, Db[a].acct) = IF b[a] # Absent THEN b ELSE [b EXCEPT ![a] = d]
  BY DEF EmplaceAccount
<1> HIDE DEF d
<1>3. DeltaOK(a, d)
  BY <1>1 DEF DeltaOK, NoSlots
<1>4. CASE b[a] # Absent
  BY <1>2, <1>4, FillsSelf
<1>5. CASE b[a] = Absent
  <2>p. PICK c : c = [b EXCEPT ![a] = d]
    OBVIOUS
  <2>1. c[a] = d /\ \A e \in Addr \ {a} : c[e] = b[e]
    BY <2>p DEF Shared
  <2>2. \A e \in Addr : b[e] # Absent => Fills(e, b[e], c[e])
    BY <1>5, <2>1, FillsSelf
  <2> QED
    BY <1>1, <1>2, <1>3, <1>5, <2>p, <2>1, <2>2
<1> QED
  BY <1>4, <1>5

\* An account just read from a delta d.
LEMMA FirstRead ==
    ASSUME NEW a, NEW d, NEW o, o = OriginalAccountState(d.second)
    PROVE  Kept(d, o) /\ Agrees(a, d, o) /\ o.acct = d.second
<1>1. o.acct = d.second /\ o.storage = NoSlots
  BY DEF OriginalAccountState
<1> QED
  BY <1>1 DEF Kept, Agrees, NoSlots

LEMMA FindAccountCommit ==
    ASSUME IInv, IInv', OrderInv, SInv, CInv, NEW i \in Tx, FindAccount(i)
    PROVE  CInv'
<1>0. pc[i] \in {"spec", "retry"} /\ st[i].out = "running" /\ io[i] = NoIo /\ Fiber(i)
  BY DEF FindAccount, Executing, Fiber
<1>1. /\ TypeOK /\ TypeOK' /\ FiberOK(i) /\ Good(st[i]) /\ bs \in Shared /\ Rich(bs)
      /\ IsTx(block[i])
  BY <1>0, Executes DEF IInv
<1>2. bs' = bs /\ UNCHANGED <<block, pc, todo>> /\ Tx' = Tx
  BY DEF FindAccount, Tx
<1>3. PICK a \in MissingAccounts(i) :
         IF bs[a] # Absent
         THEN st' = [st EXCEPT ![i] = Remember(@, a, bs[a].second)] /\ io' = io
         ELSE io' = [io EXCEPT ![i] = [a |-> a, k |-> Absent, db |-> TRUE]] /\ st' = st
  BY DEF FindAccount
<1>4. a \in Addr /\ st[i].orig[a] = Absent
  BY <1>0, <1>1, AccountsType DEF MissingAccounts, FiberOK
<1>5. ASSUME NEW b \in Addr
      PROVE  /\ bs[b] # Absent => Fills(b, bs[b], bs'[b])
             /\ bs[b] = Absent => World(b)'
  BY <1>2, FillsSelf DEF World
<1>6. CASE bs[a] # Absent
  <2>p. PICK t, x : x = bs[a].second /\ t = Remember(st[i], a, x)
    OBVIOUS
  <2>1. x \in Account \union {NoAccount} /\ Balance(x) >= 0
    BY <1>1, <1>4, <1>6, <2>p DEF Shared, Delta, Rich
  <2>2. /\ t.orig[a] = OriginalAccountState(x)
        /\ \A b \in Addr \ {a} : t.orig[b] = st[i].orig[b]
    BY <1>1, <1>4, <2>p, <2>1, RememberExt, SMT
  <2>o. PICK o, inc : o = t.orig[a] /\ inc = x.inc
    OBVIOUS
  <2>3. Kept(bs[a], o) /\ Agrees(a, bs[a], o) /\ o.acct = x
    BY <2>p, <2>2, <2>o, FirstRead
  <2>4. thrown = {} /\ x # NoAccount => Past(inc, a)'
    <3>1. thrown = {} /\ x # NoAccount => Past(inc, a)
      BY <1>4, <1>6, <2>p, <2>o DEF CInv, World
    <3> QED
      BY <1>2, <3>1 DEF Past
  <2>5. thrown = {} => Guess(o, a)' /\ Agrees(a, bs'[a], o)
    BY <1>2, <2>3, <2>4, <2>o DEF Guess
  <2>6. st' = [st EXCEPT ![i] = t] /\ io' = [io EXCEPT ![i] = NoIo]
    BY <1>0, <1>1, <1>3, <1>6, <2>p DEF TypeOK
  <2>7. ASSUME thrown = {}, NEW b \in Addr
        PROVE  \/ t.orig[b] = st[i].orig[b]
               \/ /\ pc[i] = "spec" => Guess(t.orig[b], b)'
                  /\ pc[i] = "retry" => Agrees(b, bs'[b], t.orig[b])
    BY <2>2, <2>5, <2>7, <2>o
  <2> QED
    BY <1>0, <1>1, <1>2, <1>5, <2>6, <2>7, ReadCommit
<1>7. CASE bs[a] = Absent
  <2>p. PICK r : r = [a |-> a, k |-> Absent, db |-> TRUE]
    OBVIOUS
  <2>1. /\ st' = [st EXCEPT ![i] = st[i]] /\ io' = [io EXCEPT ![i] = r] /\ r.k = Absent
    BY <1>1, <1>3, <1>7, <2>p DEF TypeOK
  <2> QED
    BY <1>0, <1>1, <1>2, <1>5, <2>1, ReadCommit
<1> QED
  BY <1>6, <1>7

LEMMA LoadAccountCommit ==
    ASSUME IInv, IInv', OrderInv, SInv, CInv, NEW i \in Tx, LoadAccount(i)
    PROVE  CInv'
<1>a. PICK a : a = io[i].a
  OBVIOUS
<1>0. /\ pc[i] \in {"spec", "retry"} /\ st[i].out = "running" /\ a \in Addr
      /\ st[i].orig[a] = Absent /\ Fiber(i)
  BY <1>a DEF LoadAccount, IInv, SInv, FiberOK, Sound, Fiber
<1>1. TypeOK /\ TypeOK' /\ FiberOK(i) /\ Good(st[i]) /\ bs \in Shared /\ Rich(bs)
  BY <1>0, Executes DEF IInv
<1>c. PICK c, x, t : /\ c = EmplaceAccount(bs, a, Db[a].acct) /\ x = c[a].second
                     /\ t = Remember(st[i], a, x)
  OBVIOUS
<1>2. /\ bs' = c /\ st' = [st EXCEPT ![i] = t] /\ io' = [io EXCEPT ![i] = NoIo]
      /\ UNCHANGED <<block, pc, todo>> /\ Tx' = Tx
  BY <1>a, <1>c DEF LoadAccount, Tx
<1>3. /\ \A e \in Addr : bs[e] # Absent => Fills(e, bs[e], c[e])
      /\ \A e \in Addr \ {a} : c[e] = bs[e]
      /\ bs[a] = Absent => DeltaOK(a, c[a]) /\ x = Db[a].acct
  BY <1>0, <1>1, <1>c, EmplaceAccountFills, SMT
<1>4. x \in Account \union {NoAccount} /\ Balance(x) >= 0
  <2>1. Db[a].acct \in Account \union {NoAccount}
    BY <1>0, DbAssumption
  <2>2. c \in Shared /\ Known(c) = Known(bs) \union {a} /\ Rich(c)
    BY <1>0, <1>1, <1>c, <2>1, EmplaceAccountType, EmplaceAccountRich
  <2> QED
    BY <1>0, <1>c, <2>2 DEF Known, Shared, Delta, Rich
<1>5. /\ t.orig[a] = OriginalAccountState(x)
      /\ \A b \in Addr \ {a} : t.orig[b] = st[i].orig[b]
  BY <1>0, <1>1, <1>4, <1>c, RememberExt
<1>o. PICK o, inc : o = t.orig[a] /\ inc = x.inc
  OBVIOUS
<1>6. Kept(c[a], o) /\ Agrees(a, c[a], o) /\ o.acct = x
  BY <1>5, <1>c, <1>o, FirstRead
<1>7. ASSUME thrown = {}, x # NoAccount PROVE Past(inc, a)'
  <2>1. CASE bs[a] = Absent
    <3>1. inc \notin 1 .. MaxTxs + 1
      BY <1>0, <1>3, <1>7, <1>o, <2>1, WorldAssumption
    <3>2. inc \notin Tx
      BY <1>1, <3>1, BlocksAssumption, SMT DEF TypeOK, Tx
    <3> QED
      BY <1>2, <3>2 DEF Past
  <2>2. CASE bs[a] # Absent
    <3>1. x = bs[a].second
      BY <1>0, <1>3, <1>c, <2>2 DEF Fills
    <3>2. Past(inc, a)
      BY <1>0, <1>7, <1>o, <2>2, <3>1 DEF CInv, World
    <3> QED
      BY <1>2, <3>2 DEF Past
  <2> QED
    BY <2>1, <2>2
<1>8. thrown = {} => Guess(o, a)' /\ Agrees(a, bs'[a], o)
  BY <1>2, <1>6, <1>7, <1>o DEF Guess
<1>9. ASSUME thrown = {}, NEW b \in Addr
      PROVE  /\ bs[b] # Absent => Fills(b, bs[b], bs'[b])
             /\ bs[b] = Absent => World(b)'
             /\ \/ t.orig[b] = st[i].orig[b]
                \/ /\ pc[i] = "spec" => Guess(t.orig[b], b)'
                   /\ pc[i] = "retry" => Agrees(b, bs'[b], t.orig[b])
  <2>1. CASE b = a
    <3>1. bs[a] = Absent => World(a)'
      BY <1>2, <1>3, <1>7, <1>9, <1>c, <1>o DEF World
    <3> QED
      BY <1>2, <1>3, <1>8, <1>9, <1>o, <2>1, <3>1
  <2>2. CASE b # a
    BY <1>2, <1>3, <1>5, <2>2 DEF World
  <2> QED
    BY <2>1, <2>2
<1> QED
  BY <1>0, <1>1, <1>2, <1>9, ReadCommit

\* Slot k is read as w at an account that is now x in the State: o becomes p.
\* A block state e that no longer has the account has nothing to say of it.
LEMMA SlotRead ==
    ASSUME NEW a \in Addr, NEW e, DeltaOK(a, e), NEW k \in Key, NEW w, NEW o, NEW p,
           p.acct = o.acct, p.storage[k] = w,
           \A j \in Key \ {k} : p.storage[j] = o.storage[j],
           NEW x, NEW inc, ~Vacant(x), Descends(o.acct, x, inc), NEW in \in BOOLEAN,
           in <=> e.second # NoAccount /\ e.second.inc = x.inc,
           in => e.storage[k] # Absent /\ w = e.storage[k].second
    PROVE  /\ Kept(e, o) => Kept(e, p)
           /\ Agrees(a, e, o) /\ (in \/ w = 0) => Agrees(a, e, p)
<1>1. x # NoAccount
  BY DEF Vacant, Nonce, HasCode
<1>2. CASE in
  BY <1>2 DEF Kept, Agrees
<1>3. CASE ~in
  <2>1. CASE o.acct # NoAccount /\ x.inc = o.acct.inc
    BY <1>3, <2>1 DEF Kept, Agrees
  <2>2. CASE Vacant(o.acct)
    <3>1. Kept(e, p)
      BY <2>2 DEF Kept
    <3>2. ASSUME Agrees(a, e, o), w = 0 PROVE Agrees(a, e, p)
      <4>1. Vacant(e.second) /\ p.acct = e.second
        BY <2>2, <3>2 DEF Agrees
      <4>2. Old(e, a, k) = 0 /\ (e.storage[k] # Absent => e.storage[k].second = 0)
        BY <4>1, VacantOld DEF DeltaOK
      <4> QED
        BY <3>2, <4>1, <4>2 DEF Agrees
    <3> QED
      BY <1>3, <3>1, <3>2
  <2> QED
    BY <1>1, <2>1, <2>2 DEF Descends
<1> QED
  BY <1>2, <1>3

\* What the code of the transaction has made of the account it runs at.
LEMMA Running ==
    ASSUME IInv, SInv, NEW i \in Tx, pc[i] \in {"spec", "retry"}, st[i].out = "running",
           ip[i] >= 4
    PROVE  LET a == Target(block[i])
           IN  /\ a \in Known(bs) /\ Loaded(st[i], a) /\ ~Vacant(RecentAccount(st[i], a))
               /\ Descends(st[i].orig[a].acct, RecentAccount(st[i], a), i)
<1>p. PICK a : a = Target(block[i])
  OBVIOUS
<1>1. /\ FiberOK(i) /\ Good(st[i]) /\ st[i].inc = i /\ IsTx(block[i])
      /\ Phase(st[i], block[i], ip[i])
  BY Executes
<1>2. a \in Addr /\ st[i].cur[a] # Absent /\ ~Vacant(RecentAccount(st[i], a))
  BY <1>1, <1>p DEF Phase, IsTx
<1>3. Loaded(st[i], a) /\ a \in Known(bs)
  BY <1>1, <1>2 DEF FiberOK, WellFormed, Loaded, Known
<1>4. Entry(st[i].orig[a], Recent(st[i], a), st[i].inc)
  BY <1>1, <1>3, RecentEntry
<1> QED
  BY <1>p, <1>1, <1>2, <1>3, <1>4 DEF Entry, Holds, RecentAccount

LEMMA FindSlotCommit ==
    ASSUME IInv, IInv', OrderInv, SInv, CInv, NEW i \in Tx, FindSlot(i)
    PROVE  CInv'
<1>0. pc[i] \in {"spec", "retry"} /\ st[i].out = "running" /\ io[i] = NoIo /\ Fiber(i)
  BY DEF FindSlot, Executing, Fiber
<1>1. /\ TypeOK /\ TypeOK' /\ FiberOK(i) /\ Good(st[i]) /\ IsTx(block[i]) /\ bs \in Shared
  BY <1>0, Executes DEF IInv
<1>2. bs' = bs /\ UNCHANGED <<block, pc, todo>> /\ Tx' = Tx
  BY DEF FindSlot, Tx
<1>a. PICK a, x : a = Target(block[i]) /\ x = RecentAccount(st[i], a)
  OBVIOUS
<1>i. PICK inc : inc = x.inc /\ inc = IncarnationAt(i, a)
  BY <1>a DEF IncarnationAt
<1>3. PICK k \in SlotsOf(st[i], block[i], ip[i]) :
         LET f == FindStorage(bs, a, inc, k)
         IN  IF f.done
             THEN /\ st' = [st EXCEPT ![i] = RememberSlot(@, a, k, f.word)]
                  /\ io' = io
             ELSE /\ io' = [io EXCEPT ![i] = [a |-> a, k |-> k, db |-> f.db]]
                  /\ st' = st
  BY <1>a, <1>i DEF FindSlot
<1>4. k \in Key /\ ip[i] >= 4
  <2>1. /\ ip[i] \in 4 .. LastStep(block[i]) - 1
        /\ k = block[i].code[ip[i] - 3].k
    BY DEF SlotsOf
  <2>2. block[i].code[ip[i] - 3] \in Op /\ ip[i] >= 4
    BY <1>1, <2>1, CodeFacts, SMT
  <2> QED
    BY <2>1, <2>2 DEF Op
<1>5. /\ a \in Known(bs) /\ a \in Addr /\ Loaded(st[i], a) /\ ~Vacant(x)
      /\ Descends(st[i].orig[a].acct, x, i)
  BY <1>0, <1>4, <1>a, Running DEF Known
<1>f. PICK f : f = FindStorage(bs, a, inc, k)
  OBVIOUS
<1>6. /\ f.word \in Word
      /\ ~Incarnate(bs, a, inc) => f.done /\ f.word = 0
      /\ Incarnate(bs, a, inc) /\ bs[a].storage[k] # Absent =>
           f.done /\ f.word = bs[a].storage[k].second
      /\ Incarnate(bs, a, inc) /\ bs[a].storage[k] = Absent =>
           ~f.done /\ (f.db <=> bs[a].first # NoAccount /\ bs[a].first.inc = inc)
  <2>1. f.word \in Word
    BY <1>1, <1>4, <1>5, <1>f, FindStorageType
  <2>2. ASSUME ~Incarnate(bs, a, inc)
        PROVE  f.done /\ f.word = 0
    BY <1>f, <2>2 DEF FindStorage
  <2>3. ASSUME Incarnate(bs, a, inc), bs[a].storage[k] # Absent
        PROVE  f.done /\ f.word = bs[a].storage[k].second
    BY <1>f, <2>3 DEF FindStorage
  <2>4. ASSUME Incarnate(bs, a, inc), bs[a].storage[k] = Absent
        PROVE  ~f.done /\ (f.db <=> bs[a].first # NoAccount /\ bs[a].first.inc = inc)
    BY <1>f, <2>4 DEF FindStorage
  <2> QED
    BY <2>1, <2>2, <2>3, <2>4
<1>7. ASSUME NEW b \in Addr
      PROVE  /\ bs[b] # Absent => Fills(b, bs[b], bs'[b])
             /\ bs[b] = Absent => World(b)'
  BY <1>2, FillsSelf DEF World
<1>8. CASE f.done
  <2>p. PICK t, o, q : /\ t = RememberSlot(st[i], a, k, f.word)
                       /\ o = st[i].orig[a] /\ q = t.orig[a]
    OBVIOUS
  <2>1. /\ \A b \in Addr \ {a} : t.orig[b] = st[i].orig[b]
        /\ q.acct = o.acct /\ q.storage[k] = f.word
        /\ \A j \in Key \ {k} : q.storage[j] = o.storage[j]
    BY <1>1, <1>4, <1>5, <1>6, <2>p, RememberSlotReads, SMT DEF Good
  <2>2. PICK in \in BOOLEAN : in <=> Incarnate(bs, a, inc)
    OBVIOUS
  <2>3. ASSUME thrown = {}
        PROVE  /\ Kept(bs[a], o) => Kept(bs[a], q)
               /\ Agrees(a, bs[a], o) => Agrees(a, bs[a], q)
    <3>1. DeltaOK(a, bs[a])
      BY <1>5, <2>3 DEF CInv, World, Known
    <3>2. /\ in <=> bs[a].second # NoAccount /\ bs[a].second.inc = x.inc
          /\ in => bs[a].storage[k] # Absent /\ f.word = bs[a].storage[k].second
          /\ in \/ f.word = 0
      BY <1>6, <1>8, <1>i, <2>2 DEF Incarnate
    <3>3. Descends(o.acct, x, i)
      BY <1>5, <2>p
    <3> QED
      BY <1>4, <1>5, <2>1, <3>1, <3>2, <3>3, SlotRead, SMT
  <2>4. ASSUME thrown = {}
        PROVE  /\ pc[i] = "spec" => Guess(q, a)'
               /\ pc[i] = "retry" => Agrees(a, bs'[a], q)
    <3>1. /\ pc[i] = "spec" => Guess(o, a)
          /\ pc[i] = "retry" => Agrees(a, bs[a], o)
      BY <1>5, <2>4, <2>p DEF CInv, Ahead, Loaded
    <3> QED
      BY <1>2, <2>1, <2>3, <2>4, <3>1 DEF Guess, Past
  <2>5. st' = [st EXCEPT ![i] = t] /\ io' = [io EXCEPT ![i] = NoIo]
    BY <1>0, <1>1, <1>3, <1>8, <1>f, <2>p DEF TypeOK
  <2>6. ASSUME thrown = {}, NEW b \in Addr
        PROVE  \/ t.orig[b] = st[i].orig[b]
               \/ /\ pc[i] = "spec" => Guess(t.orig[b], b)'
                  /\ pc[i] = "retry" => Agrees(b, bs'[b], t.orig[b])
    BY <2>1, <2>4, <2>6, <2>p
  <2> QED
    BY <1>0, <1>1, <1>2, <1>7, <2>5, <2>6, ReadCommit
<1>9. CASE ~f.done
  <2>p. PICK r : r = [a |-> a, k |-> k, db |-> f.db]
    OBVIOUS
  <2>1. /\ st' = [st EXCEPT ![i] = st[i]] /\ io' = [io EXCEPT ![i] = r]
        /\ r.a = a /\ r.db = f.db
    BY <1>1, <1>3, <1>9, <1>f, <2>p DEF TypeOK
  <2>2. io'[i] = r /\ st'[i] = st[i] /\ pc'[i] = pc[i]
    BY <1>1, <1>2, <2>1 DEF TypeOK
  <2>3. /\ f.db <=> bs[a].first # NoAccount /\ bs[a].first.inc = inc
        /\ Incarnate(bs, a, inc)
    BY <1>6, <1>9
  <2>4. Asked(i)'
    BY <1>2, <1>i, <2>1, <2>2, <2>3 DEF Asked, IncarnationAt, Incarnate
  <2> QED
    BY <1>0, <1>1, <1>2, <1>7, <2>1, <2>4, ReadCommit
<1> QED
  BY <1>8, <1>9

\* The second section of read_storage fills in the word of the database, and
\* the reader takes the word that is there.
LEMMA EmplaceStorageFills ==
    ASSUME NEW b \in Shared, NEW a \in Known(b), NEW inc, NEW k \in Key, NEW w \in Word,
           Incarnate(b, a, inc) => w = Old(b[a], a, k)
    PROVE  LET c == EmplaceStorage(b, a, inc, k, w)
           IN  /\ Fills(a, b[a], c[a])
               /\ Incarnate(c, a, inc) <=> Incarnate(b, a, inc)
               /\ Incarnate(c, a, inc) =>
                    /\ c[a].storage[k] # Absent
                    /\ EmplacedWord(c, a, inc, k, w) = c[a].storage[k].second
<1>p. PICK c, d : c = EmplaceStorage(b, a, inc, k, w) /\ d = b[a]
  OBVIOUS
<1>1. /\ c[a].first = d.first /\ c[a].second = d.second
      /\ \A j \in Key \ {k} : c[a].storage[j] = d.storage[j]
  BY <1>p, EmplaceStorageSame, SMT
<1>2. /\ d.storage[k] # Absent \/ ~Incarnate(b, a, inc) => c[a].storage[k] = d.storage[k]
      /\ Incarnate(b, a, inc) /\ d.storage[k] = Absent =>
           c[a].storage[k] # Absent /\ c[a].storage[k].first = w
           /\ c[a].storage[k].second = w
  BY <1>p, EmplaceStorageSlot, SMT
<1>3. Incarnate(b, a, inc) => d.second # NoAccount /\ w = Old(d, a, k)
  BY <1>p DEF Incarnate
<1>4. Fills(a, d, c[a])
  BY <1>1, <1>2, <1>3 DEF Fills
<1>5. Incarnate(c, a, inc) <=> Incarnate(b, a, inc)
  BY <1>1, <1>p DEF Incarnate
<1>6. Incarnate(c, a, inc) =>
         /\ c[a].storage[k] # Absent
         /\ EmplacedWord(c, a, inc, k, w) = c[a].storage[k].second
  BY <1>2, <1>5 DEF EmplacedWord
<1> QED
  BY <1>p, <1>4, <1>5, <1>6

LEMMA LoadSlotCommit ==
    ASSUME IInv, IInv', OrderInv, SInv, CInv, NEW i \in Tx, LoadSlot(i)
    PROVE  CInv'
<1>a. PICK a, k, x, w : /\ a = io[i].a /\ k = io[i].k /\ x = RecentAccount(st[i], a)
                        /\ w = IF io[i].db THEN Db[a].storage[k] ELSE 0
  OBVIOUS
<1>i. PICK inc : inc = x.inc /\ inc = IncarnationAt(i, a)
  BY <1>a DEF IncarnationAt
<1>0. /\ pc[i] \in {"spec", "retry"} /\ st[i].out = "running" /\ a \in Addr /\ Fiber(i)
      /\ a = Target(block[i]) /\ ip[i] >= 4 /\ k \in Key /\ io[i] # NoIo /\ k # Absent
  <2>1. FiberOK(i) /\ Sound(i) /\ TypeOK /\ io[i] # NoIo /\ k # Absent /\ Fiber(i)
    BY <1>a DEF LoadSlot, IInv, SInv, Fiber
  <2>2. io[i].k \in Key \union {Absent}
    BY <2>1 DEF TypeOK
  <2> QED
    BY <1>a, <2>1, <2>2 DEF FiberOK, Sound
<1>1. /\ TypeOK /\ TypeOK' /\ FiberOK(i) /\ Good(st[i]) /\ bs \in Shared /\ bs' \in Shared
  BY <1>0, Executes DEF IInv, TypeOK, Shared
<1>c. PICK c, v, t : /\ c = EmplaceStorage(bs, a, inc, k, w)
                     /\ v = EmplacedWord(c, a, inc, k, w)
                     /\ t = RememberSlot(st[i], a, k, v)
  OBVIOUS
<1>2. /\ bs' = c /\ st' = [st EXCEPT ![i] = t] /\ io' = [io EXCEPT ![i] = NoIo]
      /\ UNCHANGED <<block, pc, todo>> /\ Tx' = Tx
  BY <1>a, <1>c, <1>i DEF LoadSlot, Tx
<1>3. /\ a \in Known(bs) /\ Loaded(st[i], a) /\ ~Vacant(x)
      /\ Descends(st[i].orig[a].acct, x, i)
  BY <1>0, <1>a, Running
<1>4. w \in Word
  BY <1>0, <1>a, DbWord, WordAssumption, SMT DEF Word
<1>5. v \in Word
  BY <1>0, <1>1, <1>2, <1>3, <1>4, <1>c, EmplaceStorageType, SMT
<1>p. PICK o, q : o = st[i].orig[a] /\ q = t.orig[a]
  OBVIOUS
<1>6. /\ \A b \in Addr \ {a} : t.orig[b] = st[i].orig[b] /\ c[b] = bs[b]
      /\ q.acct = o.acct /\ q.storage[k] = v
      /\ \A j \in Key \ {k} : q.storage[j] = o.storage[j]
  <2>1. \A b \in Addr \ {a} : c[b] = bs[b]
    BY <1>0, <1>1, <1>3, <1>4, <1>c, EmplaceStorageSame, SMT
  <2>2. /\ \A b \in Addr \ {a} : t.orig[b] = st[i].orig[b]
        /\ q.acct = o.acct /\ q.storage[k] = v
        /\ \A j \in Key \ {k} : q.storage[j] = o.storage[j]
    <3>s. PICK s : s = st[i]
      OBVIOUS
    <3>1. WellFormed(s) /\ Loaded(s, a) /\ k \in Key /\ v \in Word
      BY <1>0, <1>1, <1>3, <1>5, <3>s DEF Good
    <3>2. t = RememberSlot(s, a, k, v)
      BY <1>c, <3>s
    <3>3. /\ \A b \in Addr \ {a} : t.orig[b] = s.orig[b]
          /\ t.orig[a].acct = s.orig[a].acct
          /\ t.orig[a].storage[k] = v
          /\ \A j \in Key \ {k} : t.orig[a].storage[j] = s.orig[a].storage[j]
      BY <3>1, <3>2, RememberSlotReads
    <3> QED
      BY <1>p, <3>3, <3>s
  <2> QED
    BY <2>1, <2>2
<1>7. ASSUME thrown = {}
      PROVE  /\ Fills(a, bs[a], c[a])
             /\ pc[i] = "spec" => Guess(q, a)'
             /\ pc[i] = "retry" => Agrees(a, c[a], q)
  <2>1. /\ DeltaOK(a, bs[a])
        /\ pc[i] = "spec" => Guess(o, a)
        /\ pc[i] = "retry" => Agrees(a, bs[a], o)
        /\ Asked(i)
    BY <1>0, <1>3, <1>7, <1>a, <1>p DEF CInv, World, Ahead, Known, Loaded
  <2>2. /\ io[i].db <=> bs[a].first # NoAccount /\ bs[a].first.inc = inc
        /\ pc[i] = "retry" => Incarnate(bs, a, inc)
    BY <1>a, <1>i, <2>1 DEF Asked
  <2>3. Incarnate(bs, a, inc) => w = Old(bs[a], a, k)
    BY <1>a, <2>2 DEF Incarnate, Old, Same
  <2>4. /\ Fills(a, bs[a], c[a])
        /\ Incarnate(c, a, inc) <=> Incarnate(bs, a, inc)
        /\ Incarnate(c, a, inc) => c[a].storage[k] # Absent /\ v = c[a].storage[k].second
    BY <1>0, <1>1, <1>3, <1>4, <1>c, <2>3, EmplaceStorageFills, SMT
  <2>5. DeltaOK(a, c[a])
    <3>1. c[a] # Absent
      <4>1. Known(c) = Known(bs)
        BY <1>0, <1>1, <1>3, <1>4, <1>c, EmplaceStorageType, SMT
      <4> QED
        BY <1>3, <4>1 DEF Known
    <3>2. c[a] \in Delta
      BY <1>0, <1>1, <1>2, <3>1 DEF Shared
    <3> QED
      BY <1>0, <2>1, <2>4, <3>2, FillsDelta
  <2>6. PICK in \in BOOLEAN : in <=> Incarnate(c, a, inc)
    OBVIOUS
  <2>7. /\ in <=> c[a].second # NoAccount /\ c[a].second.inc = x.inc
        /\ in => c[a].storage[k] # Absent /\ v = c[a].storage[k].second
    BY <1>i, <2>4, <2>6 DEF Incarnate
  <2>8. /\ Kept(c[a], o) => Kept(c[a], q)
        /\ Agrees(a, c[a], o) /\ in => Agrees(a, c[a], q)
    <3>1. Descends(o.acct, x, i)
      BY <1>3, <1>p
    <3> QED
      <4>1. PICK e : e = c[a]
        OBVIOUS
      <4>2. /\ q.acct = o.acct /\ q.storage[k] = v
            /\ \A j \in Key \ {k} : q.storage[j] = o.storage[j]
        BY <1>6
      <4> QED
        BY <1>0, <1>3, <2>5, <2>7, <3>1, <4>1, <4>2, SlotRead, SMT
  <2>9. pc[i] = "retry" => Agrees(a, c[a], q)
    BY <2>1, <2>2, <2>4, <2>6, <2>8, FillsAgrees
  <2>10. pc[i] = "spec" => Kept(c[a], q)
    <3>1. pc[i] = "spec" => Kept(bs[a], o)
      BY <2>1 DEF Guess
    <3> QED
      BY <2>4, <2>8, <3>1, FillsKept
  <2> QED
    BY <1>2, <1>6, <2>1, <2>4, <2>9, <2>10 DEF Guess, Past
<1>8. ASSUME thrown = {}, NEW b \in Addr
      PROVE  /\ bs[b] # Absent => Fills(b, bs[b], bs'[b])
             /\ bs[b] = Absent => World(b)'
             /\ \/ t.orig[b] = st[i].orig[b]
                \/ /\ pc[i] = "spec" => Guess(t.orig[b], b)'
                   /\ pc[i] = "retry" => Agrees(b, bs'[b], t.orig[b])
  <2>1. CASE b = a
    BY <1>2, <1>3, <1>7, <1>8, <1>p, <2>1 DEF Known
  <2>2. CASE b # a
    BY <1>2, <1>6, <2>2, FillsSelf DEF World
  <2> QED
    BY <2>1, <2>2
<1> QED
  BY <1>0, <1>1, <1>2, <1>8, ReadCommit
=============================================================================
