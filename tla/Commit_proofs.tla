---------------------------- MODULE Commit_proofs ----------------------------
(***************************************************************************)
(* What the block state says, of the database before the block and of the  *)
(* world now, is right whoever filled it in: the second execution of a     *)
(* transaction can always be merged, and what is committed to the database *)
(* is the world the block state stands for.                                *)
(***************************************************************************)
EXTENDS Reads_proofs

\* Zenon proves a step that names no prover; the steps that need arithmetic,
\* records or functions taken apart name SMT.
USE ZenonT(20), SMTT(20)

-----------------------------------------------------------------------------
(* The other steps of fiber i.                                             *)

LEMMA ReadThrowsCommit ==
    ASSUME IInv, IInv', OrderInv, CInv, NEW i \in Tx, ReadThrows(i)
    PROVE  CInv'
<1>1. TypeOK /\ TypeOK' /\ pc[i] \in {"spec", "retry"} /\ Fiber(i) /\ st[i] \in State
  BY DEF ReadThrows, IInv, FiberOK, Fiber, TypeOK
<1>t. PICK t : t = End(st[i], "throw")
  OBVIOUS
<1>2. /\ bs' = bs /\ st' = [st EXCEPT ![i] = t] /\ io' = [io EXCEPT ![i] = NoIo]
      /\ UNCHANGED <<block, pc, todo>>
  BY <1>t DEF ReadThrows
<1>3. t.orig = st[i].orig
  BY <1>1, <1>t DEF End, State
<1>4. ASSUME NEW b \in Addr
      PROVE  /\ bs[b] # Absent => Fills(b, bs[b], bs'[b])
             /\ bs[b] = Absent => World(b)'
             /\ t.orig[b] = st[i].orig[b]
  BY <1>2, <1>3, FillsSelf DEF World
<1> QED
  BY <1>1, <1>2, <1>4, ReadCommit

LEMMA StepCommit ==
    ASSUME IInv, IInv', OrderInv, SInv, CInv, NEW i \in Tx, Step(i)
    PROVE  CInv'
<1>0. /\ pc[i] \in {"spec", "retry"} /\ st[i].out = "running" /\ io[i] = NoIo /\ Fiber(i)
      /\ MissingAccounts(i) = {} /\ SlotsOf(st[i], block[i], ip[i]) = {}
  BY DEF Step, Executing, Fiber
<1>a. PICK tx, n, s : tx = block[i] /\ n = ip[i] /\ s = st[i]
  OBVIOUS
<1>1. /\ TypeOK /\ TypeOK' /\ FiberOK(i) /\ Good(s) /\ IsTx(tx) /\ Phase(s, tx, n)
      /\ WellFormed(s)
  BY <1>0, <1>a, Executes DEF IInv, Good
<1>f. PICK first \in BOOLEAN : first = (pc[i] = "spec")
  OBVIOUS
<1>t. PICK t : t = StepOf(s, tx, n, first)
  OBVIOUS
<1>2. /\ st' = [st EXCEPT ![i] = t] /\ io' = [io EXCEPT ![i] = NoIo] /\ bs' = bs
      /\ UNCHANGED <<block, pc, todo>> /\ Tx' = Tx
  BY <1>0, <1>1, <1>a, <1>f, <1>t DEF Step, Tx, TypeOK
<1>3. n \in 1 .. LastStep(tx)
  BY <1>0, <1>1, <1>a DEF FiberOK
<1>4. \A a \in AccountsOf(tx, n) : Loaded(s, a)
  BY <1>0, <1>1, <1>3, <1>a, AccountsType DEF MissingAccounts, Loaded
<1>5. Seen(s, t, first)
  BY <1>0, <1>1, <1>3, <1>4, <1>a, <1>t, StepOfGood
<1>6. SameReads(s, t)
  BY <1>0, <1>1, <1>3, <1>4, <1>a, <1>t, StepOfType DEF Keeps
<1>7. ASSUME thrown = {}, NEW b \in Addr
      PROVE  \/ t.orig[b] = s.orig[b]
             \/ /\ pc[i] = "spec" => Guess(t.orig[b], b)'
                /\ pc[i] = "retry" => Agrees(b, bs'[b], t.orig[b])
  <2>1. CASE s.orig[b] = Absent
    BY <1>6, <2>1 DEF SameReads
  <2>2. CASE s.orig[b] # Absent
    <3>p. PICK o, q : o = s.orig[b] /\ q = t.orig[b]
      OBVIOUS
    <3>1. /\ pc[i] = "spec" => Guess(o, b)
          /\ pc[i] = "retry" => Agrees(b, bs[b], o)
      BY <1>7, <1>a, <2>2, <3>p DEF CInv, Ahead
    <3>2. /\ q.storage = o.storage
          /\ \/ q.acct = o.acct
             \/ /\ first
                /\ o.storage = NoSlots
                /\ q.acct.inc = 0 \/ (o.acct # NoAccount /\ q.acct.inc = o.acct.inc)
      BY <1>5, <2>2, <3>p DEF Seen
    <3>3. CASE q.acct = o.acct
      BY <1>2, <3>1, <3>2, <3>3, <3>p DEF Guess, Kept, Agrees, Past
    <3>4. CASE /\ first
               /\ o.storage = NoSlots
               /\ q.acct.inc = 0 \/ (o.acct # NoAccount /\ q.acct.inc = o.acct.inc)
      <4>1. pc[i] = "spec"
        BY <1>f, <3>4
      <4>2. Kept(bs[b], q)
        BY <3>2, <3>4 DEF Kept, NoSlots
      <4>3. 0 \notin Tx
        BY <1>1, TxFacts
      <4>4. Past(q.acct.inc, b)
        BY <3>1, <3>4, <4>1, <4>3 DEF Guess, Past
      <4> QED
        BY <1>2, <3>p, <4>1, <4>2, <4>4 DEF Guess, Past
    <3> QED
      BY <3>2, <3>3, <3>4
  <2> QED
    BY <2>1, <2>2
<1>8. ASSUME NEW b \in Addr
      PROVE  /\ bs[b] # Absent => Fills(b, bs[b], bs'[b])
             /\ bs[b] = Absent => World(b)'
  BY <1>2, FillsSelf DEF World
<1> QED
  BY <1>0, <1>1, <1>2, <1>7, <1>8, <1>a, ReadCommit

LEMMA ControlCommit ==
    ASSUME IInv, TypeOK', OrderInv, CInv, NEW i \in Tx, Fiber(i), io[i] = NoIo,
           NEW t, NEW p, NEW w,
           st' = [st EXCEPT ![i] = t], pc' = [pc EXCEPT ![i] = p],
           todo' = [todo EXCEPT ![i] = w], UNCHANGED <<block, bs, io>>,
           pc[i] # "done", pc[i] \in {"exit", "merge"} => p \in {"exit", "done"},
           pc[i] = "merge" => p = "exit",
           thrown = {} => /\ p \notin {"none", "idle", "abort"}
                          /\ p \in {"spec", "retry"} => \A a \in Addr : t.orig[a] = Absent
                          /\ p = "merge" => \A a \in w : Agrees(a, bs[a], t.orig[a])
    PROVE  CInv'
<1> SUFFICES ASSUME thrown = {} PROVE (\A a \in Addr : World(a)') /\ \A j \in Tx : Ahead(j)'
  BY CommitStep
<1>1. /\ TypeOK /\ Tx' = Tx /\ bs' \in Shared
      /\ \A a \in Addr : World(a)
      /\ \A j \in Tx : Ahead(j)
  BY DEF IInv, TypeOK, Shared, Tx, CInv
<1>2. /\ st'[i] = t /\ pc'[i] = p /\ todo'[i] = w /\ io'[i] = NoIo
      /\ \A j \in Tx \ {i} : /\ st'[j] = st[j] /\ pc'[j] = pc[j] /\ todo'[j] = todo[j]
                             /\ io'[j] = io[j]
  BY <1>1 DEF TypeOK
<1>3. Forward
  BY <1>2 DEF Forward
<1>4. ASSUME NEW a \in Addr PROVE World(a)'
  BY <1>1, <1>3, FillsSelf, WorldGrows DEF World
<1>5. ASSUME NEW j \in Tx, j # i PROVE Ahead(j)'
  <2>1. /\ st'[j] = st[j] /\ pc'[j] = pc[j] /\ todo'[j] = todo[j] /\ io'[j] = io[j]
        /\ Ahead(j)
    BY <1>1, <1>2, <1>5
  <2>2. \A a \in Addr : bs[a] # Absent =>
              /\ bs'[a].first = bs[a].first
              /\ pc[j] = "spec" /\ st[j].orig[a] # Absent /\ Guess(st[j].orig[a], a) =>
                   Kept(bs'[a], st[j].orig[a])
              /\ pc[j] \in {"retry", "merge"} => Fills(a, bs[a], bs'[a])
    BY FillsSelf DEF Guess
  <2> QED
    BY <1>1, <1>3, <2>1, <2>2, OtherAhead
<1>6. Ahead(i)'
  BY <1>2 DEF Ahead, NoIo
<1> QED
  BY <1>4, <1>5, <1>6

LEMMA PcCommit ==
    ASSUME IInv, IInv', OrderInv, CInv, NEW i \in Tx,
           Begin(i) \/ RejectStatic(i) \/ MergeDone(i) \/ Publish(i) \/ Catch(i)
    PROVE  CInv'
<1>1. TypeOK /\ TypeOK' /\ FiberOK(i) /\ Fiber(i)
  BY DEF IInv, Fiber
<1>2. UNCHANGED <<block, io, st, todo, bs>>
  BY DEF Begin, RejectStatic, MergeDone, Publish, Catch
<1>3. io[i] = NoIo
  BY <1>1 DEF Begin, RejectStatic, MergeDone, Publish, Catch, FiberOK
<1>4. st' = [st EXCEPT ![i] = st[i]] /\ todo' = [todo EXCEPT ![i] = todo[i]]
  BY <1>1, <1>2 DEF TypeOK
<1>5. CASE Begin(i)
  <2>1. PICK p \in {"spec", "reject"} : pc' = [pc EXCEPT ![i] = p]
    BY <1>5 DEF Begin
  <2>2. pc[i] = "idle" /\ (thrown = {} => \A a \in Addr : st[i].orig[a] = Absent)
    BY <1>5 DEF Begin, CInv, Ahead
  <2> QED
    BY <1>1, <1>2, <1>3, <1>4, <2>1, <2>2, ControlCommit
<1>6. CASE RejectStatic(i) \/ MergeDone(i) \/ Publish(i) \/ Catch(i)
  <2>1. PICK p \in {"exit", "done"} :
           pc' = [pc EXCEPT ![i] = p] /\ (pc[i] = "merge" => p = "exit")
    BY <1>6 DEF RejectStatic, MergeDone, Publish, Catch
  <2>2. pc[i] # "done"
    BY <1>6 DEF RejectStatic, MergeDone, Publish, Catch
  <2> QED
    BY <1>1, <1>2, <1>3, <1>4, <2>1, <2>2, ControlCommit
<1> QED
  BY <1>5, <1>6

\* can_merge has the last word on a speculation: q is what was read at a,
\* once the balance is fixed.
LEMMA MatchAgrees ==
    ASSUME NEW a \in Addr, NEW d, DeltaOK(a, d), NEW o, NEW q, Kept(d, o),
           q.acct = d.second, q.storage = o.storage,
           \/ o.acct = d.second
           \/ /\ o.acct # NoAccount /\ d.second # NoAccount
              /\ d.second.inc = o.acct.inc
              /\ Vacant(o.acct) => Vacant(d.second),
           \A k \in Key : o.storage[k] # Absent =>
              /\ d.storage[k] # Absent => o.storage[k] = d.storage[k].second
              /\ d.storage[k] = Absent => o.storage[k] = 0
    PROVE  Agrees(a, d, q)
<1>1. ASSUME NEW k \in Key, o.storage[k] # Absent, d.storage[k] = Absent
      PROVE  Old(d, a, k) = 0
  <2>1. CASE Vacant(d.second)
    BY <2>1, VacantOld
  <2>2. CASE ~Vacant(d.second)
    <3>1. d.second # NoAccount
      BY <2>2 DEF Vacant, Nonce, HasCode
    <3>2. d.second.inc = o.acct.inc /\ ~Vacant(o.acct)
      BY <2>2
    <3> QED
      BY <1>1, <3>1, <3>2 DEF Kept
  <2> QED
    BY <2>1, <2>2
<1> QED
  BY <1>1 DEF Agrees

\* The second execution has read what the block state says.
LEMMA AgreesMerges ==
    ASSUME IInv, NEW i \in Tx, thrown = {}, Ahead(i), pc[i] = "retry"
    PROVE  CanMerge(bs, st[i], Relaxed)
<1> SUFFICES ASSUME NEW a \in ReadSet(st[i])
             PROVE  AccountMatches(bs, st[i], a, Relaxed) /\ StorageMatches(bs, st[i], a)
  BY DEF CanMerge
<1>1. Agrees(a, bs[a], st[i].orig[a])
  BY DEF ReadSet, Ahead
<1> QED
  BY <1>1 DEF Agrees, AccountMatches, StorageMatches

\* can_merge returns true, and execution goes on with the fixed State s.
LEMMA FixedAgrees ==
    ASSUME IInv, SInv, CInv, NEW i \in Tx, thrown = {}, pc[i] \in {"spec", "retry"},
           CanMerge(bs, st[i], Relaxed), NEW s, s = Fixed(bs, st[i]),
           NEW a \in Addr, s.orig[a] # Absent
    PROVE  Agrees(a, bs[a], s.orig[a])
<1>1. FiberOK(i) /\ Good(st[i]) /\ bs \in Shared /\ Rich(bs) /\ Ahead(i)
  BY Executes DEF CInv
<1>2. \A b \in Addr : st[i].orig[b] # Absent => b \in Known(bs) /\ Balance(bs[b].second) >= 0
  BY <1>1 DEF FiberOK, Known, Rich
<1>o. PICK o, q, d : o = st[i].orig[a] /\ q = s.orig[a] /\ d = bs[a]
  OBVIOUS
<1>3. o # Absent /\ q.acct = d.second /\ q.storage = o.storage
  BY <1>1, <1>2, <1>o, FixedGood
<1>4. CASE pc[i] = "spec"
  <2>1. Kept(d, o)
    BY <1>1, <1>3, <1>4, <1>o DEF Ahead, Guess
  <2>2. AccountMatches(bs, st[i], a, Relaxed) /\ StorageMatches(bs, st[i], a)
    BY <1>3, <1>o DEF CanMerge, ReadSet
  <2>3. \/ o.acct = d.second
        \/ /\ o.acct # NoAccount /\ d.second # NoAccount
           /\ d.second.inc = o.acct.inc
           /\ Vacant(o.acct) => Vacant(d.second)
    BY <1>o, <2>2 DEF AccountMatches, CanFix, IsDead, Vacant, Nonce, HasCode
  <2>4. \A k \in Key : o.storage[k] # Absent =>
           /\ d.storage[k] # Absent => o.storage[k] = d.storage[k].second
           /\ d.storage[k] = Absent => o.storage[k] = 0
    BY <1>o, <2>2 DEF StorageMatches
  <2>5. DeltaOK(a, d)
    BY <1>2, <1>3, <1>o DEF CInv, World, Known
  <2> QED
    BY <1>3, <1>o, <2>1, <2>3, <2>4, <2>5, MatchAgrees
<1>5. CASE pc[i] = "retry"
  <2>1. Agrees(a, d, o)
    BY <1>1, <1>3, <1>5, <1>o DEF Ahead
  <2> QED
    BY <1>3, <1>o, <2>1 DEF Agrees
<1> QED
  BY <1>4, <1>5

LEMMA AcceptCommit ==
    ASSUME IInv, IInv', OrderInv, SInv, CInv, NEW i \in Tx, Accept(i) \/ AcceptRetry(i)
    PROVE  CInv'
<1>0. /\ pc[i] \in {"spec", "retry"} /\ st[i].out \in {"ok", "fail", "err"} /\ Fiber(i)
      /\ UNCHANGED <<block, bs, io>>
  BY DEF Accept, AcceptRetry, Finished, Fiber
<1>1. /\ TypeOK /\ TypeOK' /\ FiberOK(i) /\ Good(st[i]) /\ bs \in Shared /\ Rich(bs)
  BY <1>0, Executes DEF IInv
<1>2. io[i] = NoIo
  BY <1>0, <1>1 DEF FiberOK
<1>3. CASE CanMerge(bs, st[i], Relaxed)
  <2>s. PICK s : s = Fixed(bs, st[i])
    OBVIOUS
  <2>1. Conclude(i, s)
    BY <1>3, <2>s DEF Accept, AcceptRetry
  <2>2. \A a \in Addr : st[i].orig[a] # Absent =>
           a \in Known(bs) /\ Balance(bs[a].second) >= 0
    BY <1>1 DEF FiberOK, Known, Rich
  <2>3. Good(s) /\ WellFormed(s)
    BY <1>1, <1>3, <2>s, <2>2, FixedGood DEF Good
  <2>4. Keeps(st[i], s) /\ s.out = st[i].out
    BY <1>1, <1>3, <2>s, <2>2, FixedType DEF Good
  <2>5. CASE s.out = "err"
    <3>1. /\ st' = [st EXCEPT ![i] = s] /\ pc' = [pc EXCEPT ![i] = "exit"]
          /\ todo' = [todo EXCEPT ![i] = todo[i]]
      BY <1>1, <2>1, <2>5 DEF Conclude, TypeOK
    <3> QED
      BY <1>0, <1>1, <1>2, <3>1, ControlCommit
  <2>6. CASE s.out # "err"
    <3>t. PICK t, w : t = ExecuteFinal(s, block[i]) /\ w = WriteSet(t)
      OBVIOUS
    <3>1. /\ st' = [st EXCEPT ![i] = t] /\ pc' = [pc EXCEPT ![i] = "merge"]
          /\ todo' = [todo EXCEPT ![i] = w]
      BY <2>1, <2>6, <3>t DEF Conclude
    <3>2. Loaded(s, block[i].from) /\ Loaded(s, Beneficiary)
      BY <1>0, <1>1, <2>4, <2>6 DEF FiberOK, Loaded, Keeps, SameReads
    <3>3. View(s, t)
      BY <2>3, <3>t, <3>2, ExecuteFinalFinals
    <3>4. WellFormed(t) /\ SameReads(s, t)
      BY <2>3, <3>t, <3>2, ExecuteFinalType DEF Keeps
    <3>5. ASSUME thrown = {}, NEW a \in w PROVE Agrees(a, bs[a], t.orig[a])
      <4>1. a \in Addr /\ t.cur[a] # Absent
        BY <3>t, <3>5 DEF WriteSet
      <4>2. s.orig[a] # Absent
        BY <3>4, <4>1 DEF WellFormed, SameReads
      <4>3. Agrees(a, bs[a], s.orig[a])
        BY <1>0, <1>3, <2>s, <3>5, <4>1, <4>2, FixedAgrees
      <4> QED
        BY <3>3, <4>1, <4>2, <4>3 DEF View, Agrees
    <3> QED
      BY <1>0, <1>1, <1>2, <3>1, <3>5, ControlCommit
  <2> QED
    BY <2>5, <2>6
<1>4. CASE ~CanMerge(bs, st[i], Relaxed)
  <2>1. /\ pc[i] = "retry" /\ st' = [st EXCEPT ![i] = st[i]]
        /\ pc' = [pc EXCEPT ![i] = "abort"] /\ todo' = [todo EXCEPT ![i] = todo[i]]
    BY <1>1, <1>4 DEF Accept, AcceptRetry, Finished, TypeOK
  <2>2. thrown # {}
    BY <1>4, <2>1, AgreesMerges DEF CInv
  <2> QED
    BY <1>0, <1>1, <1>2, <2>1, <2>2, ControlCommit
<1> QED
  BY <1>3, <1>4

LEMMA RetryCommit ==
    ASSUME IInv, IInv', OrderInv, CInv, NEW i \in Tx, Retry(i)
    PROVE  CInv'
<1>1. TypeOK /\ TypeOK' /\ FiberOK(i) /\ i \in Nat /\ Fiber(i)
  BY TxFacts DEF IInv, Fiber
<1>2. /\ io[i] = NoIo /\ pc[i] = "spec" /\ UNCHANGED <<block, bs, io>>
      /\ pc' = [pc EXCEPT ![i] = "retry"] /\ st' = [st EXCEPT ![i] = FreshState(i)]
      /\ todo' = [todo EXCEPT ![i] = todo[i]]
  BY <1>1 DEF Retry, Finished, FiberOK, TypeOK
<1>3. PICK t : t = FreshState(i)
  OBVIOUS
<1>4. \A a \in Addr : t.orig[a] = Absent
  BY <1>1, <1>3, FreshType
<1> QED
  BY <1>1, <1>2, <1>3, <1>4, ControlCommit

\* A merge keeps the slots that another's speculation has read at a.
LEMMA MergeKept ==
    ASSUME NEW b \in Shared, NEW a \in Known(b), NEW e \in AccountState, NEW inc,
           NEW o, NEW q, o.acct = b[a].second, Final(o, e, inc), Kept(b[a], q),
           q.acct # NoAccount => q.acct.inc # inc
    PROVE  Kept(MergeAccount(b, a, e)[a], q)
<1>c. PICK c, d : c = MergeAccount(b, a, e)[a] /\ d = b[a]
  OBVIOUS
<1>1. /\ c.second = e.acct
      /\ e.acct # NoAccount => \A k \in Key :
           d.storage[k] # Absent => c.storage[k] # Absent
  <2>1. /\ c.second = e.acct
        /\ e.acct # NoAccount => \A k \in Key :
             /\ e.storage[k] = Absent => c.storage[k] = d.storage[k]
             /\ e.storage[k] # Absent => c.storage[k] # Absent
    BY <1>c, MergeAccountSame, SMT
  <2> QED
    BY <2>1
<1>2. ASSUME ~Vacant(q.acct), e.acct # NoAccount, e.acct.inc = q.acct.inc,
             NEW k \in Key, q.storage[k] # Absent
      PROVE  c.storage[k] # Absent
  <2>1. q.acct # NoAccount
    BY <1>2 DEF Vacant, Nonce, HasCode
  <2>2. d.second # NoAccount /\ d.second.inc = q.acct.inc
    BY <1>2, <1>c, <2>1 DEF Final, Descends
  <2>3. d.storage[k] # Absent
    BY <1>2, <1>c, <2>2 DEF Kept
  <2> QED
    BY <1>1, <1>2, <2>3
<1>3. Kept(c, q)
  BY <1>1, <1>2 DEF Kept
<1> QED
  BY <1>3, <1>c

LEMMA MergeOneCommit ==
    ASSUME IInv, IInv', OrderInv, SInv, CInv, NEW i \in Tx, MergeOne(i)
    PROVE  CInv'
<1>0. Fiber(i) /\ pc[i] = "merge" /\ UNCHANGED <<block, pc, st, io>>
  BY DEF Fiber, MergeOne
<1> SUFFICES ASSUME thrown = {} PROVE (\A b \in Addr : World(b)') /\ \A j \in Tx : Ahead(j)'
  BY <1>0, CommitStep
<1>1. /\ TypeOK /\ FiberOK(i) /\ Sound(i) /\ WellFormed(st[i]) /\ bs \in Shared
      /\ bs' \in Shared /\ Tx' = Tx
      /\ \A b \in Addr : World(b)
      /\ \A j \in Tx : Ahead(j)
  BY <1>0 DEF IInv, SInv, CInv, FiberOK, TypeOK, Shared, Tx
<1>2. PICK a \in todo[i] : /\ bs' = MergeAccount(bs, a, st[i].cur[a])
                           /\ todo' = [todo EXCEPT ![i] = @ \ {a}]
  BY DEF MergeOne
<1>3. /\ a \in Known(bs) /\ st[i].cur[a] \in AccountState /\ st[i].cur[a] # Absent
      /\ a \in Addr
  BY <1>1 DEF FiberOK, WellFormed, TypeOK, State, Known
<1>4. todo'[i] = todo[i] \ {a} /\ \A j \in Tx \ {i} : todo'[j] = todo[j]
  BY <1>1, <1>2 DEF TypeOK
<1>5. Forward
  BY <1>0, <1>4 DEF Forward
<1>o. PICK o, e, d : /\ o = st[i].orig[a] /\ e = st[i].cur[a] /\ d = bs[a]
                     /\ e \in AccountState
  BY <1>3
<1>6. Final(o, e, i) /\ Agrees(a, d, o) /\ DeltaOK(a, d) /\ o.acct = d.second
  BY <1>0, <1>1, <1>3, <1>o DEF Sound, Before, Finals, Ahead, World, Known, Agrees
<1>7. /\ \A b \in Addr \ {a} : bs'[b] = bs[b]
      /\ bs'[a].first = d.first /\ bs'[a].second = e.acct
  BY <1>1, <1>2, <1>3, <1>o, MergeAccountSame, SMT
<1>8. World(a)'
  <2>1. i \in 1 .. MaxTxs + 1
    BY <1>1, BlocksAssumption, SMT DEF TypeOK, Tx
  <2>2. DeltaOK(a, bs'[a])
    BY <1>1, <1>2, <1>3, <1>6, <1>o, <2>1, MergeDelta, SMT
  <2>x. PICK x : x = e.acct.inc
    OBVIOUS
  <2>3. ASSUME e.acct # NoAccount PROVE Past(x, a)'
    <3>1. CASE x = i
      BY <1>0, <1>4, <3>1 DEF Past
    <3>2. CASE d.second # NoAccount /\ x = d.second.inc
      <4>1. Past(x, a)
        BY <1>1, <1>3, <1>o, <3>2 DEF World, Known
      <4> QED
        BY <1>1, <1>5, <4>1, PastStays
    <3> QED
      BY <1>6, <2>3, <2>x, <3>1, <3>2 DEF Final, Descends
  <2> QED
    BY <1>7, <2>2, <2>3, <2>x DEF World
<1>9. ASSUME NEW b \in Addr, b # a PROVE World(b)'
  BY <1>1, <1>5, <1>7, <1>9, FillsSelf, WorldGrows DEF World
<1>10. ASSUME NEW j \in Tx, j # i PROVE Ahead(j)'
  <2>1. pc[j] \notin {"retry", "merge"}
    <3>1. i \in Nat /\ j \in Nat
      BY <1>1, TxFacts
    <3>2. i < j \/ j < i
      BY <1>10, <3>1, SMT
    <3>3. "merge" \in Turn /\ "retry" \in Turn
      BY DEF Turn
    <3> QED
      BY <1>0, <3>2, <3>3 DEF OrderInv, InOrder
  <2>2. ASSUME pc[j] = "spec", st[j].orig[a] # Absent, Guess(st[j].orig[a], a)
        PROVE  Kept(bs'[a], st[j].orig[a])
    <3>q. PICK q : q = st[j].orig[a]
      OBVIOUS
    <3>1. Kept(d, q) /\ (q.acct # NoAccount => q.acct.inc # i)
      BY <1>0, <1>o, <2>2, <3>q DEF Guess, Past
    <3> QED
      BY <1>1, <1>2, <1>3, <1>6, <1>o, <3>q, <3>1, MergeKept, SMT
  <2>3. ASSUME NEW b \in Addr, bs[b] # Absent
        PROVE  /\ bs'[b].first = bs[b].first
               /\ pc[j] = "spec" /\ st[j].orig[b] # Absent /\ Guess(st[j].orig[b], b) =>
                    Kept(bs'[b], st[j].orig[b])
    BY <1>7, <1>o, <2>2 DEF Guess
  <2>4. /\ st'[j] = st[j] /\ pc'[j] = pc[j] /\ todo'[j] = todo[j] /\ io'[j] = io[j]
    BY <1>0, <1>4, <1>10
  <2> QED
    BY <1>1, <1>5, <2>1, <2>3, <2>4, OtherAhead
<1>11. Ahead(i)'
  <2>1. io[i] = NoIo /\ \A b \in todo[i] : b \in Addr /\ Agrees(b, bs[b], st[i].orig[b])
    BY <1>0, <1>1 DEF FiberOK, Ahead, TypeOK
  <2>2. \A b \in todo'[i] : Agrees(b, bs'[b], st[i].orig[b])
    BY <1>4, <1>7, <2>1
  <2> QED
    BY <1>0, <2>1, <2>2 DEF Ahead, NoIo
<1> QED
  BY <1>8, <1>9, <1>10, <1>11

-----------------------------------------------------------------------------
(* The calling thread.                                                     *)

\* The State of execute_block_header stores a word at an account that it does
\* not change otherwise.
LEMMA HeaderDelta ==
    ASSUME NEW b \in Shared, NEW a \in Known(b), DeltaOK(a, b[a]), NEW k \in Key,
           NEW e \in AccountState, e.acct = b[a].second, e.acct # NoAccount,
           ~Vacant(e.acct), Balance(e.acct) >= 0, b[a].storage[k] # Absent,
           \A j \in Key \ {k} : e.storage[j] = Absent
    PROVE  DeltaOK(a, MergeAccount(b, a, e)[a])
<1> DEFINE w == b[a].storage[k].second
           z == [NoSlots EXCEPT ![k] = w]
           o == [acct |-> e.acct, storage |-> z]
<1>1. w # Absent
  BY DeltaAssumption, MapAssumption DEF Shared, Known, Delta
<1>2. z[k] = w /\ \A j \in Key \ {k} : z[j] = Absent
  BY DEF NoSlots
<1> HIDE DEF w, z
<1>3. o.acct = e.acct /\ o.storage = z
  OBVIOUS
<1> HIDE DEF o
<1>4. Agrees(a, b[a], o)
  BY <1>2, <1>3 DEF Agrees, w
<1>5. Final(o, e, 1)
  BY <1>1, <1>2, <1>3 DEF Final, Descends, Stored
<1>6. 1 \in 1 .. MaxTxs + 1
  BY BlocksAssumption, SMT
<1> QED
  BY <1>4, <1>5, <1>6, MergeDelta

LEMMA HeaderWorld ==
    ASSUME IInv, OrderInv, Header, ~lost, bs = EmptyBlockState
    PROVE  \A b \in Addr : bs'[b] # Absent =>
              DeltaOK(b, bs'[b]) /\ bs'[b].second = Db[b].acct
<1>0. /\ bs \in Shared /\ System \in Addr /\ \A b \in Addr : bs[b] = Absent
  BY RunAssumption DEF IInv, TypeOK, Shared, EmptyBlockState
<1>a. PICK b1, x : b1 = EmplaceAccount(bs, System, Db[System].acct) /\ x = Db[System].acct
  OBVIOUS
<1>w. PICK k, w : k = HeaderKey /\ w = Db[System].storage[HeaderKey]
  OBVIOUS
<1>b. PICK s1 : s1 = Remember(FreshState(0), System, x)
  OBVIOUS
<1>c. PICK inc, b2 : inc = x.inc /\ b2 = EmplaceStorage(b1, System, inc, k, w)
  OBVIOUS
<1>d. PICK s2 : s2 = SetStorage(s1, System, k, HeaderWord)
  OBVIOUS
<1>1. /\ \A e \in Addr \ {System} : b1[e] = Absent
      /\ DeltaOK(System, b1[System])
      /\ b1[System].second = x /\ b1[System].first = x
  BY <1>0, <1>a, EmplaceAccountFills, SMT DEF DeltaOK
<1>2. bs' = IF x = NoAccount THEN b1 ELSE MergeAccount(b2, System, s2.cur[System])
  BY <1>1, <1>a, <1>b, <1>c, <1>d, <1>w DEF Header
<1>3. /\ k \in Key /\ HeaderWord \in Word /\ w \in Word
      /\ x \in Account \union {NoAccount} /\ Balance(x) >= 0
  <2>1. k \in Key /\ HeaderWord \in Word
    BY <1>w, AddrAssumption, WordAssumption, SMT DEF HeaderKey, HeaderWord, Word
  <2>2. w \in Word
    BY <1>0, <1>w, <2>1, DbWord
  <2>3. x \in Account \union {NoAccount} /\ Balance(x) >= 0
    BY <1>0, <1>a, DbAssumption, WorldAssumption
  <2> QED
    BY <2>1, <2>2, <2>3
<1>4. b1 \in Shared /\ System \in Known(b1)
  BY <1>0, <1>a, <1>3, EmplaceAccountType, SMT
<1>5. CASE x = NoAccount
  BY <1>1, <1>2, <1>5, <1>a
<1>6. CASE x # NoAccount
  <2>1. Incarnate(b1, System, inc) /\ w = Old(b1[System], System, k)
    BY <1>1, <1>6, <1>c, <1>w DEF Incarnate, Old, Same
  <2>2. /\ Fills(System, b1[System], b2[System])
        /\ Incarnate(b2, System, inc) /\ b2[System].storage[k] # Absent
    BY <1>3, <1>4, <1>c, <2>1, EmplaceStorageFills, SMT
  <2>3. b2 \in Shared /\ System \in Known(b2)
    BY <1>3, <1>4, <1>c, EmplaceStorageType, SMT
  <2>4. \A e \in Addr \ {System} : b2[e] = Absent
    <3>1. \A e \in Addr \ {System} : b2[e] = b1[e]
      <4>1. /\ b1 \in Shared /\ System \in Known(b1) /\ k \in Key /\ w \in Word
            /\ b2 = EmplaceStorage(b1, System, inc, k, w)
        BY <1>3, <1>4, <1>c
      <4> QED
        BY <4>1, EmplaceStorageSame, SMT
    <3> QED
      BY <1>1, <3>1
  <2>5. DeltaOK(System, b2[System]) /\ b2[System].second = x
    <3>1. b2[System] \in Delta
      BY <2>3 DEF Shared, Known
    <3> QED
      BY <1>0, <1>1, <2>2, <3>1, FillsDelta DEF Fills
  <2>6. /\ s2.cur[System] \in AccountState /\ s2.cur[System].acct = x
        /\ \A j \in Key \ {k} : s2.cur[System].storage[j] = Absent
    <3>1. /\ Good(FreshState(0)) /\ FreshState(0).orig[System] = Absent
          /\ FreshState(0).cur[System] = Absent
      BY <1>0, FreshGood, FreshType DEF FreshState
    <3>2. /\ Ext(FreshState(0), s1) /\ s1.orig[System] = OriginalAccountState(x)
          /\ s1.cur = FreshState(0).cur
      BY <1>0, <1>3, <1>b, <3>1, RememberExt, SMT
    <3>3. /\ WellFormed(s1) /\ s1.cur[System] = Absent
          /\ s1.orig[System].acct = x /\ s1.orig[System].storage = NoSlots
      BY <3>1, <3>2, SMT DEF Ext, Good, OriginalAccountState
    <3>4. Loaded(s1, System)
      BY <1>0, <1>3, <1>b, FreshType, RememberType, SMT DEF Loaded
    <3>5. /\ Recent(s1, System) \in AccountState
          /\ Recent(s1, System).acct = x /\ Recent(s1, System).storage = NoSlots
      BY <3>3, <3>4, RecentType DEF Recent
    <3>6. s2.cur[System] = [Recent(s1, System) EXCEPT !.storage[k] = HeaderWord]
      BY <1>0, <1>d, <3>3 DEF SetStorage, WellFormed, State
    <3>r. PICK r \in AccountState : r = Recent(s1, System)
      BY <3>5
    <3> QED
      BY <1>3, <3>5, <3>6, <3>r, SMT DEF AccountState, NoSlots
  <2>7. PICK e \in AccountState : e = s2.cur[System]
    BY <2>6
  <2>8. ~Vacant(x)
    BY <1>6, <1>a, WorldAssumption
  <2>9. DeltaOK(System, bs'[System])
    <3>1. e.acct = b2[System].second /\ \A j \in Key \ {k} : e.storage[j] = Absent
      BY <2>5, <2>6, <2>7
    <3>2. e.acct # NoAccount /\ ~Vacant(e.acct) /\ Balance(e.acct) >= 0
      BY <1>3, <1>6, <2>6, <2>7, <2>8
    <3> QED
      BY <1>2, <1>3, <1>6, <2>2, <2>3, <2>5, <2>7, <3>1, <3>2, HeaderDelta, SMT
  <2>10. bs'[System].second = x /\ \A b \in Addr \ {System} : bs'[b] = Absent
    BY <1>2, <1>6, <2>3, <2>4, <2>6, <2>7, MergeAccountSame, SMT
  <2> QED
    BY <1>a, <2>9, <2>10
<1> QED
  BY <1>5, <1>6

LEMMA HeaderCommit ==
    ASSUME IInv, OrderInv, CInv, Header
    PROVE  CInv'
<1>0. /\ TypeOK /\ main = "header" /\ UNCHANGED <<block, thrown, st, io, todo>> /\ Tx' = Tx
  BY DEF IInv, Header, Tx
<1> SUFFICES ASSUME thrown = {} PROVE (main' # "header" /\ main' # "epilogue")
                                      /\ (\A a \in Addr : World(a)')
                                      /\ \A i \in Tx : Ahead(i)'
  BY <1>0 DEF CInv
<1>1. /\ bs = EmptyBlockState /\ \A a \in Addr : bs[a] = Absent
  BY <1>0 DEF CInv, EmptyBlockState
<1>2. main' # "header" /\ main' # "epilogue"
  BY <1>0 DEF Header
<1>3. ASSUME NEW i \in Tx PROVE Ahead(i)'
  <2>1. pc[i] = "none" /\ FiberOK(i) /\ Ahead(i)
    BY <1>0 DEF OrderInv, HeaderFirst, IInv, CInv
  <2>2. io[i] = NoIo /\ \A a \in Addr : st[i].orig[a] = Absent
    BY <2>1 DEF FiberOK, Ahead
  <2>3. pc'[i] \in {"none", "idle"}
    BY <2>1 DEF Header
  <2> QED
    BY <1>0, <2>2, <2>3 DEF Ahead, NoIo
<1>4. ASSUME NEW a \in Addr PROVE World(a)'
  <2>1. CASE lost
    BY <1>1, <1>0, <2>1 DEF Header, World
  <2>2. CASE ~lost
    <3>1. bs'[a] # Absent => DeltaOK(a, bs'[a]) /\ bs'[a].second = Db[a].acct
      BY <1>1, <2>2, HeaderWorld
    <3>x. PICK x : x = Db[a].acct.inc
      OBVIOUS
    <3>2. Db[a].acct # NoAccount => x \notin Tx
      <4>1. Db[a].acct # NoAccount => x \notin 1 .. MaxTxs + 1
        BY <3>x, WorldAssumption
      <4> QED
        BY <1>0, <4>1, BlocksAssumption, SMT DEF TypeOK, Tx
    <3>3. Db[a].acct # NoAccount => Past(x, a)'
      BY <1>0, <3>2 DEF Past
    <3> QED
      BY <3>1, <3>3, <3>x DEF World
  <2> QED
    BY <2>1, <2>2
<1> QED
  BY <1>2, <1>3, <1>4

\* Once every fiber is done, only the deltas matter.
LEMMA EpilogueWorld ==
    ASSUME IInv, SInv, CInv, thrown = {}, Epilogue
    PROVE  \A b \in Addr : bs'[b] # Absent => DeltaOK(b, bs'[b])
<1>0. /\ TypeOK /\ bs \in Shared /\ Recipient \in Addr /\ Len(block) + 1 \in Nat
      /\ Db[Recipient].acct \in Account \union {NoAccount}
      /\ \A b \in Addr : bs[b] # Absent => DeltaOK(b, bs[b])
  BY RunAssumption, TxFacts, DbAssumption, SMT DEF IInv, CInv, World, TypeOK, Shared
<1>a. PICK b1, x : /\ b1 = EmplaceAccount(bs, Recipient, Db[Recipient].acct)
                   /\ x = b1[Recipient].second
  OBVIOUS
<1>z. PICK inc, z : inc = Len(block) + 1 /\ z = FreshState(inc)
  OBVIOUS
<1>b. PICK s0 : s0 = Remember(z, Recipient, x)
  OBVIOUS
<1>c. PICK s1 : s1 = AddToBalance(s0, Recipient, 1)
  OBVIOUS
<1>d. PICK s2 : s2 = Destruct(s1)
  OBVIOUS
<1>1. bs' = bs \/ bs' = b1 \/ bs' = MergeAccount(b1, Recipient, s2.cur[Recipient])
  BY <1>a, <1>b, <1>c, <1>d, <1>z DEF Epilogue
<1>2. b1 \in Shared /\ Recipient \in Known(b1)
  BY <1>0, <1>a, EmplaceAccountType, SMT
<1>3. ASSUME NEW b \in Addr, b1[b] # Absent PROVE DeltaOK(b, b1[b])
  <2>1. /\ bs[b] # Absent => Fills(b, bs[b], b1[b])
        /\ bs[b] = Absent => b1[b] = bs[b] \/ DeltaOK(b, b1[b])
    BY <1>0, <1>a, EmplaceAccountFills, SMT
  <2>2. b1[b] \in Delta
    BY <1>2, <1>3 DEF Shared
  <2> QED
    BY <1>0, <1>3, <2>1, <2>2, FillsDelta
<1>e. PICK e : e = s2.cur[Recipient]
  OBVIOUS
<1>4. e \in AccountState /\ DeltaOK(Recipient, MergeAccount(b1, Recipient, e)[Recipient])
  <2>0. Rich(b1)
    BY <1>0, <1>a, EmplaceAccountRich DEF SInv
  <2>1. x \in Account \union {NoAccount} /\ Balance(x) >= 0
    BY <1>0, <1>2, <1>a, <2>0 DEF Shared, Known, Delta, Rich
  <2>2. Good(z) /\ z.orig[Recipient] = Absent /\ z.inc = inc
    BY <1>0, <1>z, FreshGood, FreshType
  <2>3. Ext(z, s0) /\ s0.orig[Recipient] = OriginalAccountState(x)
    BY <1>0, <1>b, <2>1, <2>2, RememberExt, SMT
  <2>4. Good(s0) /\ Loaded(s0, Recipient) /\ s0.inc = inc
    <3>1. Loaded(s0, Recipient)
      BY <1>0, <1>b, <2>1, <2>2, RememberType DEF Loaded, Good
    <3> QED
      BY <2>2, <2>3, <3>1 DEF Ext, View
  <2>5. Ext(s0, s1) /\ s1.cur[Recipient] # Absent
    BY <2>4, <1>c, AddToBalanceExt, SMT DEF Puts
  <2>6. /\ Finals(s2) /\ WellFormed(s2) /\ s2.cur[Recipient] # Absent
        /\ s2.orig = s1.orig /\ s2.inc = s1.inc
    BY <1>0, <2>5, <1>d, DestructFinals, DestructType DEF Good, Ext
  <2>o. PICK o : o = s2.orig[Recipient]
    OBVIOUS
  <2>7. o.acct = x /\ o.storage = NoSlots
    BY <1>0, <2>3, <2>4, <2>5, <2>6, <2>o, SMT DEF Ext, View, Loaded,
       OriginalAccountState
  <2>8. Final(o, e, inc) /\ e \in AccountState
    <3>1. s2.inc = inc
      BY <2>4, <2>5, <2>6 DEF Ext, View
    <3> QED
      BY <1>0, <1>e, <2>6, <2>o, <3>1 DEF Finals, WellFormed, State
  <2>9. Agrees(Recipient, b1[Recipient], o)
    BY <1>a, <2>7 DEF Agrees, NoSlots
  <2>10. inc \in 1 .. MaxTxs + 1
    BY <1>0, <1>z, BlocksAssumption, SMT DEF TypeOK
  <2>11. DeltaOK(Recipient, b1[Recipient])
    BY <1>2, <1>3 DEF Known
  <2> QED
    BY <1>2, <2>8, <2>9, <2>10, <2>11, MergeDelta
<1>5. \A b \in Addr \ {Recipient} : MergeAccount(b1, Recipient, e)[b] = b1[b]
  BY <1>2, <1>4, MergeAccountSame, SMT
<1> QED
  BY <1>0, <1>1, <1>3, <1>4, <1>5, <1>e

LEMMA EpilogueCommit ==
    ASSUME IInv, SInv, CInv, Epilogue
    PROVE  CInv'
<1>0. /\ TypeOK /\ main = "epilogue" /\ UNCHANGED <<block, thrown, pc, st, io, todo>>
      /\ Tx' = Tx
  BY DEF IInv, Epilogue, fiberVars, Tx
<1> SUFFICES ASSUME thrown = {} PROVE (main' # "header" /\ main' # "epilogue")
                                      /\ (\A a \in Addr : World(a)')
                                      /\ \A i \in Tx : Ahead(i)'
  BY <1>0 DEF CInv
<1>1. \A i \in Tx : pc[i] = "done"
  BY <1>0 DEF CInv
<1>2. main' # "header" /\ main' # "epilogue"
  BY DEF Epilogue
<1>3. ASSUME NEW i \in Tx PROVE Ahead(i)'
  <2>1. pc'[i] = "done" /\ io'[i] = NoIo
    BY <1>0, <1>1 DEF IInv, FiberOK
  <2> QED
    BY <2>1 DEF Ahead, NoIo
<1>4. ASSUME NEW a \in Addr PROVE World(a)'
  <2>1. bs'[a] # Absent => DeltaOK(a, bs'[a])
    BY EpilogueWorld
  <2>2. \A x : Past(x, a)'
    BY <1>0, <1>1 DEF Past
  <2> QED
    BY <2>1, <2>2 DEF World
<1> QED
  BY <1>2, <1>3, <1>4

LEMMA SameCommit ==
    ASSUME CInv, thrown = {}, UNCHANGED <<block, bs, pc, st, io, todo>>
    PROVE  (\A a \in Addr : World(a)') /\ \A i \in Tx : Ahead(i)'
<1>1. Tx' = Tx
  BY DEF Tx
<1>2. \A x, a : Past(x, a) => Past(x, a)'
  BY <1>1 DEF Past
<1>3. ASSUME NEW a \in Addr PROVE World(a)'
  <2>1. World(a)
    BY DEF CInv
  <2> QED
    BY <1>2, <2>1 DEF World
<1>4. ASSUME NEW i \in Tx PROVE Ahead(i)'
  <2>1. Ahead(i)
    BY DEF CInv
  <2>2. \A a, o : Guess(o, a) => Guess(o, a)'
    BY <1>2 DEF Guess
  <2>3. Asked(i) => Asked(i)'
    BY DEF Asked, Incarnate, IncarnationAt
  <2> QED
    BY <2>1, <2>2, <2>3 DEF Ahead, NoIo
<1> QED
  BY <1>3, <1>4

\* The promise of the last transaction is set once all are done.
LEMMA CollectCommit ==
    ASSUME IInv, OrderInv, CInv, Collect
    PROVE  CInv'
<1>0. /\ TypeOK /\ Len(block) \in promise /\ main' # "header" /\ Tx' = Tx
      /\ UNCHANGED <<block, thrown, bs, pc, st, io, todo>>
  BY DEF IInv, Collect, fiberVars, Tx
<1> SUFFICES ASSUME thrown = {} PROVE (\A i \in Tx : pc[i] = "done")
                                      /\ (\A a \in Addr : World(a)')
                                      /\ \A i \in Tx : Ahead(i)'
  BY <1>0 DEF CInv
<1>1. ASSUME NEW i \in Tx PROVE pc[i] = "done"
  <2>1. PICK n \in Nat : n = Len(block)
    BY <1>0, TxFacts
  <2>2. n \in Tx /\ (i = n \/ i < n)
    BY <2>1, SMT DEF Tx
  <2>3. pc[n] = "done"
    BY <1>0, <2>1, <2>2 DEF OrderInv
  <2>4. "done" \in Turn
    BY DEF Turn
  <2> QED
    BY <2>2, <2>3, <2>4 DEF OrderInv, InOrder
<1> QED
  BY <1>0, <1>1, SameCommit

LEMMA NextCommit ==
    ASSUME IInv, IInv', OrderInv, SInv, CInv, [Next]_vars
    PROVE  CInv'
<1>1. CASE LoseVersion \/ UNCHANGED vars
  <2>1. UNCHANGED <<block, main, thrown, bs, pc, st, io, todo>> /\ Tx' = Tx
    BY <1>1 DEF LoseVersion, vars, fiberVars, Tx
  <2> QED
    BY <2>1, SameCommit DEF CInv, EmptyBlockState
<1>2. CASE Header \/ Collect \/ Epilogue
  BY <1>2, HeaderCommit, CollectCommit, EpilogueCommit
<1>3. CASE \E i \in Tx : Fiber(i)
  <2>1. PICK i \in Tx : Fiber(i)
    BY <1>3
  <2>2. CASE Begin(i) \/ RejectStatic(i) \/ MergeDone(i) \/ Publish(i) \/ Catch(i)
    BY <2>2, PcCommit
  <2>3. CASE FindAccount(i) \/ LoadAccount(i)
    BY <2>3, FindAccountCommit, LoadAccountCommit
  <2>4. CASE FindSlot(i) \/ LoadSlot(i)
    BY <2>4, FindSlotCommit, LoadSlotCommit
  <2>5. CASE ReadThrows(i) \/ Step(i)
    BY <2>5, ReadThrowsCommit, StepCommit
  <2>6. CASE Accept(i) \/ AcceptRetry(i)
    BY <2>6, AcceptCommit
  <2>7. CASE Retry(i) \/ MergeOne(i)
    BY <2>7, RetryCommit, MergeOneCommit
  <2> QED
    BY <2>1, <2>2, <2>3, <2>4, <2>5, <2>6, <2>7 DEF Fiber
<1> QED
  BY <1>1, <1>2, <1>3 DEF Next

LEMMA InitCommit == Init => CInv
<1> SUFFICES ASSUME Init PROVE CInv
  OBVIOUS
<1>1. ASSUME NEW a \in Addr PROVE World(a)
  BY DEF Init, EmptyBlockState, World
<1>2. ASSUME NEW i \in Tx PROVE Ahead(i)
  <2>1. i \in Nat
    BY InitIInv, TxFacts DEF IInv
  <2>2. st[i] = FreshState(i) /\ pc[i] = "none" /\ io[i] = NoIo
    BY DEF Init
  <2>3. \A a \in Addr : FreshState(i).orig[a] = Absent
    BY <2>1, FreshType
  <2> QED
    BY <2>2, <2>3 DEF Ahead
<1> QED
  BY <1>1, <1>2 DEF CInv, Init

LEMMA CommitInvariance == Spec => [](IInv /\ CInv)
<1>1. Init => CInv
  BY InitCommit
<1>2. (IInv /\ OrderInv /\ SInv) /\ IInv' /\ CInv /\ [Next]_vars => CInv'
  BY NextCommit
<1> QED
  BY <1>1, <1>2, Soundness, PTL DEF Spec

-----------------------------------------------------------------------------
(* The theorems.                                                           *)

\* What is committed for a delta with right before-images.
LEMMA CommittedWorld ==
    ASSUME NEW a \in Addr, NEW d \in Delta, DeltaOK(a, d)
    PROVE  Committed(d, a) = WorldAt(d, a)
<1>0. d # Absent
  BY DeltaAssumption
<1> DEFINE changed == {k \in Key : /\ d.storage[k] # Absent
                                   /\ d.storage[k].first # d.storage[k].second}
           reborn == d.first # NoAccount /\ d.first.inc # d.second.inc
           kept(k) == IF reborn THEN 0 ELSE Db[a].storage[k]
           word(k) == IF d.storage[k] # Absent THEN d.storage[k].second ELSE Old(d, a, k)
           f == [k \in Key |-> IF k \in changed THEN d.storage[k].second ELSE kept(k)]
           g == [k \in Key |-> IF d.second = NoAccount THEN 0 ELSE word(k)]
<1>1. WorldAt(d, a) = [acct |-> d.second, storage |-> g]
  BY <1>0 DEF WorldAt, Old, Same
<1>2. Committed(d, a) = IF d.second = NoAccount
                        THEN [acct |-> NoAccount, storage |-> [k \in Key |-> 0]]
                        ELSE IF d.first = d.second /\ changed = {} THEN Db[a]
                        ELSE [acct |-> d.second, storage |-> f]
  BY <1>0 DEF Committed
<1>3. CASE d.second = NoAccount
  BY <1>1, <1>2, <1>3
<1>4. CASE d.second # NoAccount
  <2>1. ASSUME NEW k \in Key, k \notin changed, Same(d)
        PROVE  word(k) = Db[a].storage[k]
    BY <2>1 DEF DeltaOK, Old
  <2>2. ASSUME NEW k \in Key, k \notin changed, ~Same(d)
        PROVE  word(k) = 0
    BY <2>2 DEF DeltaOK, Old
  <2>3. ASSUME NEW k \in Key, k \in changed
        PROVE  word(k) = d.storage[k].second
    BY <2>3
  <2>4. ASSUME NEW k \in Key
        PROVE  kept(k) = IF Same(d) THEN Db[a].storage[k] ELSE 0
    <3>1. CASE d.first = NoAccount
      <4>1. Db[a].storage[k] = 0
        BY <3>1, WorldAssumption DEF DeltaOK, Vacant, Nonce, HasCode
      <4> QED
        BY <3>1, <4>1 DEF Same
    <3>2. CASE d.first # NoAccount
      BY <1>4, <3>2 DEF Same
    <3> QED
      BY <3>1, <3>2
  <2>5. ASSUME NEW k \in Key, k \notin changed
        PROVE  word(k) = kept(k)
    BY <2>1, <2>2, <2>4, <2>5
  <2> HIDE DEF kept, word
  <2>6. f = g
    BY <1>4, <2>3, <2>5
  <2>7. CASE d.first = d.second /\ changed = {}
    <3>1. Same(d) /\ d.second = Db[a].acct
      BY <1>4, <2>7 DEF Same, DeltaOK
    <3>2. \A k \in Key : word(k) = Db[a].storage[k]
      BY <2>1, <2>7, <3>1
    <3>3. g = [k \in Key |-> Db[a].storage[k]]
      BY <1>4, <3>2
    <3>4. Db[a] \in [acct : Account \union {NoAccount}, storage : [Key -> Word]]
      BY DbAssumption
    <3>5. Db[a] = [acct |-> Db[a].acct, storage |-> [k \in Key |-> Db[a].storage[k]]]
      BY <3>4, SMT
    <3> QED
      BY <1>1, <1>2, <1>4, <2>7, <3>1, <3>3, <3>5
  <2>8. CASE ~(d.first = d.second /\ changed = {})
    BY <1>1, <1>2, <1>4, <2>6, <2>8
  <2> QED
    BY <2>7, <2>8
<1> QED
  BY <1>3, <1>4

\* For every block, world and interleaving, what CommitBuilder would write to
\* the database is at every moment the world the block state stands for:
\* readers, speculations and merges leave the right before-images.  Always, on
\* a database that keeps its version; on one that may lose it, until a
\* transaction has thrown.
THEOREM CommitsTheWorld ==
    Spec => [](~MayLose \/ thrown = {} => CommitIsWorld)
<1>1. IInv /\ CInv => (thrown = {} => CommitIsWorld)
  <2> SUFFICES ASSUME IInv, CInv, thrown = {}, NEW a \in Addr
               PROVE  Committed(bs[a], a) = WorldAt(bs[a], a)
    BY DEF CommitIsWorld
  <2>1. CASE bs[a] = Absent
    BY <2>1 DEF Committed, WorldAt
  <2>2. CASE bs[a] # Absent
    <3>1. bs[a] \in Delta /\ DeltaOK(a, bs[a])
      BY <2>2 DEF IInv, TypeOK, CInv, World
    <3> QED
      BY <3>1, CommittedWorld
  <2> QED
    BY <2>1, <2>2
<1>2. Calm /\ ~MayLose => thrown = {}
  BY DEF Calm
<1> QED
  BY <1>1, <1>2, CommitInvariance, Calmness, PTL

\* MONAD_ASSERT(block_state_.can_merge(state)) after the second execution never
\* fails: what a transaction reads once its predecessors are done is what the
\* block state says when it merges, whatever later transactions fill in
\* meanwhile.  Always, on a database that keeps its version; on one that may
\* lose it, until a transaction has thrown.
THEOREM SecondExecutionMerges ==
    Spec => [](~MayLose \/ thrown = {} => RetryNeverAborts)
<1>1. IInv /\ CInv => (thrown = {} => RetryNeverAborts)
  BY DEF CInv, Ahead, RetryNeverAborts
<1>2. Calm /\ ~MayLose => thrown = {}
  BY DEF Calm
<1> QED
  BY <1>1, <1>2, CommitInvariance, Calmness, PTL
=============================================================================
