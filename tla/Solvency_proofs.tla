-------------------------- MODULE Solvency_proofs ---------------------------
(***************************************************************************)
(* No execution, right or wrong, and no merge takes a balance below zero:  *)
(* the actions of ExecuteBlock keep the State of every fiber good and the  *)
(* balances of the block state not negative.                               *)
(***************************************************************************)
EXTENDS Transaction_proofs

\* Zenon proves a step that names no prover; the steps that need arithmetic,
\* records or functions taken apart name SMT.
USE ZenonT(20), SMTT(20)

-----------------------------------------------------------------------------
(* The invariant: while a fiber executes its State is good and stands at   *)
(* the step it is about to take, afterwards its accounts are final; a read *)
(* in flight is for an account not seen yet, or for a slot of the account  *)
(* whose code runs; and the balances of the block state are not negative.  *)

Before == {"none", "idle", "spec", "reject", "retry"}

Sound(i) ==
    /\ st[i].inc = i
    /\ pc[i] \in Before =>
         /\ Entries(st[i])
         /\ st[i].out = "running" => Phase(st[i], block[i], ip[i])
    /\ pc[i] \notin Before => Finals(st[i])
    /\ io[i] # NoIo /\ io[i].k = Absent => st[i].orig[io[i].a] = Absent
    /\ io[i] # NoIo /\ io[i].k # Absent => io[i].a = Target(block[i]) /\ ip[i] >= 4

Rich(b) == \A a \in Addr : b[a] # Absent => Balance(b[a].second) >= 0

SInv == Rich(bs) /\ \A i \in Tx : Sound(i)

LEMMA FreshGood ==
    ASSUME NEW inc \in Nat, NEW tx
    PROVE  /\ Good(FreshState(inc)) /\ Phase(FreshState(inc), tx, 1)
           /\ FreshState(inc).inc = inc
<1>1. WellFormed(FreshState(inc)) /\ \A a \in Addr : FreshState(inc).orig[a] = Absent
  BY FreshType
<1>2. FreshState(inc).inc = inc
      /\ \A a \in Addr : FreshState(inc).cur[a] = Absent /\ FreshState(inc).saved[a] = Absent
  BY DEF FreshState
<1> QED
  BY <1>1, <1>2, SMT DEF Good, Entries, Phase

\* The sections of the block state.
LEMMA EmplaceAccountRich ==
    ASSUME NEW b \in Shared, Rich(b), NEW a \in Addr
    PROVE  Rich(EmplaceAccount(b, a, Db[a].acct))
<1>1. Balance(Db[a].acct) >= 0
  BY WorldAssumption
<1> QED
  BY <1>1 DEF Rich, EmplaceAccount, Shared

LEMMA EmplaceStorageSame ==
    ASSUME NEW b \in Shared, NEW a \in Known(b), NEW inc, NEW k \in Key, NEW w \in Word
    PROVE  LET c == EmplaceStorage(b, a, inc, k, w)
           IN  /\ \A e \in Addr \ {a} : c[e] = b[e]
               /\ c[a].first = b[a].first /\ c[a].second = b[a].second
               /\ \A j \in Key \ {k} : c[a].storage[j] = b[a].storage[j]
<1> DEFINE p == [first |-> w, second |-> w]
           d == [b[a] EXCEPT !.storage[k] = p]
           t == [b EXCEPT ![a] = d]
<1>1. b[a] \in Delta /\ a \in Addr
  BY DEF Shared, Known
<1>2. /\ d.first = b[a].first /\ d.second = b[a].second
      /\ \A j \in Key \ {k} : d.storage[j] = b[a].storage[j]
  BY <1>1 DEF Delta
<1>3. EmplaceStorage(b, a, inc, k, w) =
        IF Incarnate(b, a, inc) /\ b[a].storage[k] = Absent THEN t ELSE b
  BY DEF EmplaceStorage
<1> HIDE DEF d
<1>4. t[a] = d /\ \A e \in Addr \ {a} : t[e] = b[e]
  BY <1>1 DEF Shared
<1> HIDE DEF t
<1> QED
  BY <1>2, <1>3, <1>4

LEMMA EmplaceStorageSlot ==
    ASSUME NEW b \in Shared, NEW a \in Known(b), NEW inc, NEW k \in Key, NEW w \in Word
    PROVE  LET d == b[a].storage[k]
               e == EmplaceStorage(b, a, inc, k, w)[a].storage[k]
           IN  /\ d # Absent \/ ~Incarnate(b, a, inc) => e = d
               /\ Incarnate(b, a, inc) /\ d = Absent =>
                    e # Absent /\ e.first = w /\ e.second = w
<1> DEFINE p == [first |-> w, second |-> w]
           d == [b[a] EXCEPT !.storage[k] = p]
           t == [b EXCEPT ![a] = d]
<1>1. b[a] \in Delta /\ a \in Addr
  BY DEF Shared, Known
<1>2. d.storage[k] = p
  BY <1>1 DEF Delta
<1>3. EmplaceStorage(b, a, inc, k, w) =
        IF Incarnate(b, a, inc) /\ b[a].storage[k] = Absent THEN t ELSE b
  BY DEF EmplaceStorage
<1> HIDE DEF d
<1>4. t[a] = d
  BY <1>1 DEF Shared
<1>5. p # Absent /\ p.first = w /\ p.second = w
  BY DeltaAssumption, SMT
<1> HIDE DEF t, p
<1> QED
  BY <1>2, <1>3, <1>4, <1>5

LEMMA MergeAccountSame ==
    ASSUME NEW b \in Shared, NEW a \in Known(b), NEW e \in AccountState
    PROVE  LET c == MergeAccount(b, a, e)
           IN  /\ \A x \in Addr \ {a} : c[x] = b[x]
               /\ c[a].first = b[a].first /\ c[a].second = e.acct
               /\ e.acct = NoAccount => c[a].storage = NoSlots
               /\ e.acct # NoAccount => \A k \in Key :
                    /\ e.storage[k] = Absent => c[a].storage[k] = b[a].storage[k]
                    /\ e.storage[k] # Absent =>
                         /\ c[a].storage[k] # Absent
                         /\ c[a].storage[k].second = e.storage[k]
                         /\ c[a].storage[k].first =
                              IF b[a].storage[k] # Absent THEN b[a].storage[k].first ELSE 0
<1> DEFINE merged(k) ==
             IF e.storage[k] = Absent THEN b[a].storage[k]
             ELSE IF b[a].storage[k] # Absent
                  THEN [b[a].storage[k] EXCEPT !.second = e.storage[k]]
                  ELSE [first |-> 0, second |-> e.storage[k]]
           slots == IF e.acct # NoAccount THEN [k \in Key |-> merged(k)] ELSE NoSlots
           d == [b[a] EXCEPT !.second = e.acct, !.storage = slots]
           t == [b EXCEPT ![a] = d]
<1>1. b[a] \in Delta /\ a \in Addr
  BY DEF Shared, Known
<1>2. MergeAccount(b, a, e) = t
  BY <1>1 DEF MergeAccount, Shared, Delta
<1>3. ASSUME NEW k \in Key, e.storage[k] # Absent
      PROVE  /\ merged(k) # Absent /\ merged(k).second = e.storage[k]
             /\ merged(k).first = IF b[a].storage[k] # Absent THEN b[a].storage[k].first ELSE 0
  <2>1. e.storage[k] \in Word /\ 0 \in Word
        /\ (b[a].storage[k] # Absent => b[a].storage[k] \in [first : Word, second : Word])
    BY <1>1, <1>3, WordAssumption, SMT DEF AccountState, Delta, Word
  <2>2. CASE b[a].storage[k] # Absent
    <3>1. PICK q \in [first : Word, second : Word] : q = b[a].storage[k]
      BY <2>1, <2>2
    <3>2. merged(k) = [q EXCEPT !.second = e.storage[k]]
      BY <1>3, <2>2, <3>1
    <3>3. merged(k) \in [first : Word, second : Word]
      BY <2>1, <3>1, <3>2
    <3> QED
      BY <2>2, <3>1, <3>2, <3>3, DeltaAssumption
  <2>3. CASE b[a].storage[k] = Absent
    <3>1. merged(k) = [first |-> 0, second |-> e.storage[k]]
      BY <1>3, <2>3
    <3>2. merged(k) \in [first : Word, second : Word]
      BY <2>1, <3>1, SMT
    <3> QED
      BY <2>3, <3>1, <3>2, DeltaAssumption
  <2> QED
    BY <2>2, <2>3
<1>4. \A k \in Key : e.storage[k] = Absent => merged(k) = b[a].storage[k]
  OBVIOUS
<1>5. e.acct # NoAccount => \A k \in Key : slots[k] = merged(k)
  OBVIOUS
<1>6. e.acct = NoAccount => slots = NoSlots
  OBVIOUS
<1> HIDE DEF merged, slots
<1>7. d.first = b[a].first /\ d.second = e.acct /\ d.storage = slots
  BY <1>1 DEF Delta
<1> HIDE DEF d
<1>8. t[a] = d /\ \A x \in Addr \ {a} : t[x] = b[x]
  BY <1>1 DEF Shared
<1> HIDE DEF t
<1> QED
  BY <1>2, <1>3, <1>4, <1>5, <1>6, <1>7, <1>8

LEMMA MergeAccountRich ==
    ASSUME NEW b \in Shared, Rich(b), NEW a \in Known(b), NEW e \in AccountState,
           Balance(e.acct) >= 0
    PROVE  Rich(MergeAccount(b, a, e))
<1>p. PICK c : c = MergeAccount(b, a, e)
  OBVIOUS
<1>1. (\A x \in Addr \ {a} : c[x] = b[x]) /\ c[a].second = e.acct
  BY <1>p, MergeAccountSame
<1> QED
  BY <1>p, <1>1 DEF Rich

LEMMA EmplaceStorageRich ==
    ASSUME NEW b \in Shared, Rich(b), NEW a \in Known(b), NEW inc, NEW k \in Key,
           NEW w \in Word
    PROVE  Rich(EmplaceStorage(b, a, inc, k, w))
<1>p. PICK c : c = EmplaceStorage(b, a, inc, k, w)
  OBVIOUS
<1>1. (\A x \in Addr \ {a} : c[x] = b[x]) /\ c[a].second = b[a].second
  BY <1>p, EmplaceStorageSame, SMT
<1>0. a \in Addr /\ b[a] # Absent
  BY DEF Known
<1>2. Balance(b[a].second) >= 0
  BY <1>0 DEF Rich
<1>3. Rich(c)
  BY <1>1, <1>2 DEF Rich
<1> QED
  BY <1>p, <1>3

-----------------------------------------------------------------------------
(* The actions of a fiber.                                                 *)

LEMMA SoundStep ==
    ASSUME IInv, SInv, NEW i \in Tx, block' = block, Rich(bs'),
           \A j \in Tx \ {i} : /\ st'[j] = st[j] /\ ip'[j] = ip[j] /\ pc'[j] = pc[j]
                               /\ io'[j] = io[j],
           Sound(i)'
    PROVE  SInv'
<1>1. Tx' = Tx
  BY DEF Tx
<1>2. ASSUME NEW j \in Tx, j # i PROVE Sound(j)'
  <2>1. Sound(j)
    BY DEF SInv
  <2>2. st'[j] = st[j] /\ ip'[j] = ip[j] /\ pc'[j] = pc[j] /\ io'[j] = io[j]
    BY <1>2
  <2> QED
    BY <2>1, <2>2 DEF Sound, NoIo
<1> QED
  BY <1>1, <1>2 DEF SInv

\* A step that changes the State and the read in flight of fiber i.
LEMMA SoundRead ==
    ASSUME IInv, SInv, NEW i \in Tx, pc[i] \in Before, NEW t, NEW r,
           Good(t), t.inc = i,
           t.out = "running" => Phase(t, block[i], ip[i]),
           r # NoIo /\ r.k = Absent => t.orig[r.a] = Absent,
           r # NoIo /\ r.k # Absent => r.a = Target(block[i]) /\ ip[i] >= 4,
           st' = [st EXCEPT ![i] = t],
           io' = [io EXCEPT ![i] = r],
           Rich(bs'),
           UNCHANGED <<block, pc, ip>>
    PROVE  SInv'
<1>1. TypeOK
  BY DEF IInv
<1>2. /\ st'[i] = t /\ io'[i] = r
      /\ \A j \in Tx \ {i} : /\ st'[j] = st[j] /\ ip'[j] = ip[j] /\ pc'[j] = pc[j]
                             /\ io'[j] = io[j]
  BY <1>1 DEF TypeOK
<1>3. Sound(i)'
  BY <1>2 DEF Sound, Good, NoIo
<1> QED
  BY <1>2, <1>3, SoundStep

\* The first read of an account leaves the execution where it is.
LEMMA RememberPhase ==
    ASSUME NEW s, Good(s), NEW a \in Addr, s.orig[a] = Absent,
           NEW x \in Account \union {NoAccount}, Balance(x) >= 0,
           NEW tx, IsTx(tx), NEW n, s.out = "running" => Phase(s, tx, n)
    PROVE  LET t == Remember(s, a, x)
           IN  Ext(s, t) /\ (t.out = "running" => Phase(t, tx, n))
<1>p. PICK t : t = Remember(s, a, x)
  OBVIOUS
<1>1. /\ Ext(s, t) /\ t.cur = s.cur /\ t.saved = s.saved /\ t.out = s.out
      /\ t.orig[a] = OriginalAccountState(x)
      /\ \A b \in Addr \ {a} : t.orig[b] = s.orig[b]
  BY <1>p, RememberExt
<1>2. t.orig[a].storage = NoSlots
  BY <1>1, SMT DEF OriginalAccountState
<1>3. \A b \in Addr : s.orig[b] # Absent => RecentAccount(t, b) = RecentAccount(s, b)
  BY <1>1 DEF RecentAccount, Recent
<1>4. \A b \in Addr : s.cur[b] # Absent => RecentAccount(t, b) = RecentAccount(s, b)
  BY <1>1 DEF RecentAccount, Recent
<1>5. tx.from \in Addr /\ Target(tx) \in Addr /\ tx.to \in Addr \union {Absent}
  BY DEF IsTx, Transaction
<1>6. ASSUME Phase(s, tx, n) PROVE Phase(t, tx, n)
  <2>1. CASE n = 2
    BY <1>1, <1>2, <1>3, <1>5, <1>6, <2>1, SMT DEF Phase
  <2>2. CASE n # 2
    BY <1>1, <1>2, <1>4, <1>5, <1>6, <2>2 DEF Phase
  <2> QED
    BY <2>1, <2>2
<1> QED
  BY <1>p, <1>1, <1>6

LEMMA Executes ==
    ASSUME IInv, SInv, NEW i \in Tx, pc[i] \in {"spec", "retry"}
    PROVE  /\ TypeOK /\ FiberOK(i) /\ Sound(i) /\ Good(st[i]) /\ st[i].inc = i
           /\ IsTx(block[i]) /\ bs \in Shared /\ Rich(bs) /\ pc[i] \in Before
           /\ st[i].out = "running" => Phase(st[i], block[i], ip[i])
<1>1. TypeOK /\ FiberOK(i) /\ Sound(i) /\ Rich(bs) /\ pc[i] \in Before
  BY DEF IInv, SInv, Before
<1> QED
  BY <1>1, TxFacts DEF FiberOK, Sound, Good, TypeOK, Shared

LEMMA FindAccountSound ==
    ASSUME IInv, SInv, NEW i \in Tx, FindAccount(i)
    PROVE  SInv'
<1>0. pc[i] \in {"spec", "retry"} /\ st[i].out = "running" /\ io[i] = NoIo
  BY DEF FindAccount, Executing
<1>1. /\ TypeOK /\ FiberOK(i) /\ Good(st[i]) /\ st[i].inc = i /\ IsTx(block[i])
      /\ bs \in Shared /\ Rich(bs) /\ pc[i] \in Before /\ Phase(st[i], block[i], ip[i])
  BY <1>0, Executes
<1>2. /\ bs' = bs /\ UNCHANGED <<block, pc, ip>>
  BY DEF FindAccount
<1>3. PICK a \in MissingAccounts(i) :
         IF bs[a] # Absent
         THEN st' = [st EXCEPT ![i] = Remember(@, a, bs[a].second)] /\ io' = io
         ELSE io' = [io EXCEPT ![i] = [a |-> a, k |-> Absent, db |-> TRUE]] /\ st' = st
  BY DEF FindAccount
<1>4. a \in Addr /\ st[i].orig[a] = Absent
  BY <1>0, <1>1, AccountsType DEF MissingAccounts, FiberOK
<1>5. CASE bs[a] # Absent
  <2>p. PICK t : t = Remember(st[i], a, bs[a].second)
    OBVIOUS
  <2>1. bs[a].second \in Account \union {NoAccount} /\ Balance(bs[a].second) >= 0
    BY <1>1, <1>4, <1>5 DEF Shared, Delta, Rich
  <2>2. Ext(st[i], t) /\ (t.out = "running" => Phase(t, block[i], ip[i]))
    <3>1. PICK x \in Account \union {NoAccount} : x = bs[a].second /\ Balance(x) >= 0
      BY <2>1
    <3> QED
      BY <1>1, <1>4, <2>p, <3>1, RememberPhase
  <2>3. Good(t) /\ t.inc = i
    BY <1>1, <2>2 DEF Ext, View
  <2>4. st' = [st EXCEPT ![i] = t] /\ io' = [io EXCEPT ![i] = NoIo]
    BY <1>0, <1>1, <1>3, <1>5, <2>p DEF TypeOK
  <2> QED
    BY <1>1, <1>2, <2>2, <2>3, <2>4, SoundRead
<1>6. CASE bs[a] = Absent
  <2>p. PICK r : r = [a |-> a, k |-> Absent, db |-> TRUE]
    OBVIOUS
  <2>1. /\ st' = [st EXCEPT ![i] = st[i]] /\ io' = [io EXCEPT ![i] = r]
        /\ r.k = Absent /\ st[i].orig[r.a] = Absent
    BY <1>1, <1>3, <1>4, <1>6, <2>p DEF TypeOK
  <2> QED
    BY <1>1, <1>2, <2>1, SoundRead
<1> QED
  BY <1>5, <1>6

LEMMA LoadAccountSound ==
    ASSUME IInv, SInv, NEW i \in Tx, LoadAccount(i)
    PROVE  SInv'
<1>a. PICK a : a = io[i].a
  OBVIOUS
<1>0. /\ pc[i] \in {"spec", "retry"} /\ st[i].out = "running" /\ a \in Addr
      /\ st[i].orig[a] = Absent
  BY <1>a DEF LoadAccount, IInv, SInv, FiberOK, Sound
<1>1. /\ TypeOK /\ Good(st[i]) /\ st[i].inc = i /\ IsTx(block[i])
      /\ bs \in Shared /\ Rich(bs) /\ pc[i] \in Before /\ Phase(st[i], block[i], ip[i])
  BY <1>0, Executes
<1>t. PICK t : t = Remember(st[i], a, bs'[a].second)
  OBVIOUS
<1>2. /\ bs' = EmplaceAccount(bs, a, Db[a].acct)
      /\ st' = [st EXCEPT ![i] = t] /\ io' = [io EXCEPT ![i] = NoIo]
      /\ UNCHANGED <<block, pc, ip>>
  BY <1>a, <1>t DEF LoadAccount
<1>3. Rich(bs') /\ bs' \in Shared /\ bs'[a] # Absent
  <2>1. Db[a].acct \in Account \union {NoAccount}
    BY <1>0, DbAssumption
  <2>2. bs' \in Shared /\ Known(bs') = Known(bs) \union {a}
    BY <1>0, <1>1, <1>2, <2>1, EmplaceAccountType
  <2> QED
    BY <1>0, <1>1, <1>2, <2>2, EmplaceAccountRich DEF Known
<1>4. Ext(st[i], t) /\ (t.out = "running" => Phase(t, block[i], ip[i]))
  <2>1. PICK x \in Account \union {NoAccount} : x = bs'[a].second /\ Balance(x) >= 0
    BY <1>0, <1>3 DEF Shared, Delta, Rich
  <2> QED
    BY <1>0, <1>1, <1>t, <2>1, RememberPhase
<1>5. Good(t) /\ t.inc = i
  BY <1>1, <1>4 DEF Ext, View
<1> QED
  BY <1>1, <1>2, <1>3, <1>4, <1>5, SoundRead

\* A slot is read where the code runs.
LEMMA RememberSlotPhase ==
    ASSUME NEW s, Good(s), NEW tx, IsTx(tx), NEW n \in Nat, n >= 4, Phase(s, tx, n),
           NEW k \in Key, NEW w \in Word
    PROVE  LET t == RememberSlot(s, Target(tx), k, w)
           IN  Good(t) /\ t.inc = s.inc /\ t.out = s.out /\ Phase(t, tx, n)
<1>p. PICK a, t : a = Target(tx) /\ t = RememberSlot(s, a, k, w)
  OBVIOUS
<1>1. s.cur[a] # Absent /\ s.saved[a] # Absent /\ ~Vacant(RecentAccount(s, a)) /\ a \in Addr
  BY <1>p DEF Phase, IsTx
<1>2. Loaded(s, a)
  BY <1>1 DEF Good, WellFormed, Loaded
<1>3. Good(t) /\ SameAccounts(s, t) /\ t.inc = s.inc
  BY <1>p, <1>1, <1>2, RememberSlotGood
<1>4. Phase(t, tx, n)
  BY <1>p, <1>1, <1>3, SMT DEF SameAccounts, Phase
<1> QED
  BY <1>p, <1>3, <1>4 DEF SameAccounts

LEMMA FindSlotSound ==
    ASSUME IInv, SInv, NEW i \in Tx, FindSlot(i)
    PROVE  SInv'
<1>0. pc[i] \in {"spec", "retry"} /\ st[i].out = "running" /\ io[i] = NoIo
  BY DEF FindSlot, Executing
<1>1. /\ TypeOK /\ FiberOK(i) /\ Good(st[i]) /\ st[i].inc = i /\ IsTx(block[i])
      /\ bs \in Shared /\ Rich(bs) /\ pc[i] \in Before /\ Phase(st[i], block[i], ip[i])
  BY <1>0, Executes
<1>2. bs' = bs /\ UNCHANGED <<block, pc, ip>>
  BY DEF FindSlot
<1>a. PICK a, inc : a = Target(block[i]) /\ inc = IncarnationAt(i, a)
  OBVIOUS
<1>3. PICK k \in SlotsOf(st[i], block[i], ip[i]) :
         LET f == FindStorage(bs, a, inc, k)
         IN  IF f.done
             THEN /\ st' = [st EXCEPT ![i] = RememberSlot(@, a, k, f.word)]
                  /\ io' = io
             ELSE /\ io' = [io EXCEPT ![i] = [a |-> a, k |-> k, db |-> f.db]]
                  /\ st' = st
  BY <1>a DEF FindSlot
<1>4. ip[i] \in 4 .. LastStep(block[i]) - 1 /\ k \in Key
  <2>1. /\ ip[i] \in 4 .. LastStep(block[i]) - 1
        /\ k = block[i].code[ip[i] - 3].k
    BY DEF SlotsOf
  <2>2. block[i].code[ip[i] - 3] \in Op
    BY <1>1, <2>1, CodeFacts, SMT
  <2> QED
    BY <2>1, <2>2 DEF Op
<1>5. ip[i] \in Nat /\ ip[i] >= 4
  BY <1>1, <1>4, CodeFacts, SMT
<1>6. a \in Known(bs)
  <2>1. st[i].cur[a] # Absent /\ a \in Addr
    BY <1>a, <1>1, <1>5 DEF Phase, IsTx
  <2> QED
    BY <1>1, <2>1 DEF FiberOK, WellFormed, Known
<1>f. PICK f : f = FindStorage(bs, a, inc, k)
  OBVIOUS
<1>7. f.word \in Word
  BY <1>1, <1>4, <1>6, <1>f, FindStorageType
<1>8. CASE f.done
  <2>p. PICK t : t = RememberSlot(st[i], a, k, f.word)
    OBVIOUS
  <2>1. Good(t) /\ t.inc = i /\ Phase(t, block[i], ip[i])
    BY <1>1, <1>4, <1>5, <1>7, <1>a, <2>p, RememberSlotPhase, SMT
  <2>2. st' = [st EXCEPT ![i] = t] /\ io' = [io EXCEPT ![i] = NoIo]
    BY <1>0, <1>1, <1>3, <1>8, <1>f, <2>p DEF TypeOK
  <2> QED
    BY <1>1, <1>2, <2>1, <2>2, SoundRead
<1>9. CASE ~f.done
  <2>p. PICK r : r = [a |-> a, k |-> k, db |-> f.db]
    OBVIOUS
  <2>1. /\ st' = [st EXCEPT ![i] = st[i]] /\ io' = [io EXCEPT ![i] = r]
        /\ r.k # Absent /\ r.a = Target(block[i])
    BY <1>1, <1>3, <1>4, <1>9, <1>a, <1>f, <2>p, AddrAssumption DEF TypeOK
  <2> QED
    BY <1>1, <1>2, <1>5, <2>1, SoundRead
<1> QED
  BY <1>8, <1>9

LEMMA LoadSlotSound ==
    ASSUME IInv, SInv, NEW i \in Tx, LoadSlot(i)
    PROVE  SInv'
<1>a. PICK a, k, inc, w : /\ a = io[i].a /\ k = io[i].k /\ inc = IncarnationAt(i, a)
                          /\ w = IF io[i].db THEN Db[a].storage[k] ELSE 0
  OBVIOUS
<1>0. /\ pc[i] \in {"spec", "retry"} /\ st[i].out = "running" /\ a \in Addr
      /\ a = Target(block[i]) /\ ip[i] >= 4 /\ st[i].orig[a] # Absent /\ k \in Key
  <2>1. FiberOK(i) /\ Sound(i) /\ TypeOK /\ io[i] # NoIo /\ k # Absent
    BY <1>a DEF LoadSlot, IInv, SInv
  <2>2. io[i].k \in Key \union {Absent}
    BY <2>1 DEF TypeOK
  <2> QED
    BY <1>a, <2>1, <2>2 DEF FiberOK, Sound
<1>1. /\ TypeOK /\ FiberOK(i) /\ Good(st[i]) /\ st[i].inc = i /\ IsTx(block[i])
      /\ bs \in Shared /\ Rich(bs) /\ pc[i] \in Before /\ Phase(st[i], block[i], ip[i])
  BY <1>0, Executes
<1>t. PICK t : t = RememberSlot(st[i], a, k, EmplacedWord(bs', a, inc, k, w))
  OBVIOUS
<1>2. /\ bs' = EmplaceStorage(bs, a, inc, k, w)
      /\ st' = [st EXCEPT ![i] = t] /\ io' = [io EXCEPT ![i] = NoIo]
      /\ UNCHANGED <<block, pc, ip>>
  BY <1>a, <1>t DEF LoadSlot
<1>3. w \in Word /\ a \in Known(bs) /\ ip[i] \in Nat
  BY <1>0, <1>1, <1>a, DbWord, WordAssumption, SMT DEF Word, FiberOK, Known, TypeOK
<1>4. bs' \in Shared /\ Known(bs') = Known(bs)
      /\ \A c \in Shared : a \in Known(c) => EmplacedWord(c, a, inc, k, w) \in Word
  BY <1>0, <1>1, <1>2, <1>3, EmplaceStorageType, SMT
<1>5. Rich(bs')
  BY <1>0, <1>1, <1>2, <1>3, EmplaceStorageRich
<1>6. PICK v \in Word : t = RememberSlot(st[i], a, k, v)
  BY <1>3, <1>4, <1>t
<1>7. Good(t) /\ t.inc = i /\ Phase(t, block[i], ip[i])
  BY <1>0, <1>1, <1>3, <1>6, RememberSlotPhase, SMT
<1> QED
  BY <1>1, <1>2, <1>5, <1>7, SoundRead

LEMMA ReadThrowsSound ==
    ASSUME IInv, SInv, NEW i \in Tx, ReadThrows(i)
    PROVE  SInv'
<1>0. pc[i] \in {"spec", "retry"}
  BY DEF ReadThrows, IInv, FiberOK
<1>1. Good(st[i]) /\ st[i].inc = i /\ Rich(bs) /\ pc[i] \in Before
  BY <1>0, Executes
<1>t. PICK t : t = End(st[i], "throw")
  OBVIOUS
<1>2. /\ bs' = bs /\ st' = [st EXCEPT ![i] = t] /\ io' = [io EXCEPT ![i] = NoIo]
      /\ UNCHANGED <<block, pc, ip>>
  BY <1>t DEF ReadThrows
<1>3. Ext(st[i], t) /\ t.out = "throw"
  BY <1>1, <1>t, ExtSelf, EndExt, SMT DEF Outcome
<1>4. Good(t) /\ t.inc = i /\ (t.out = "running" => FALSE)
  BY <1>1, <1>3 DEF Ext, View
<1> QED
  BY <1>1, <1>2, <1>4, SoundRead

LEMMA StepSound ==
    ASSUME IInv, SInv, NEW i \in Tx, Step(i)
    PROVE  SInv'
<1>0. /\ pc[i] \in {"spec", "retry"} /\ st[i].out = "running" /\ io[i] = NoIo
      /\ MissingAccounts(i) = {} /\ SlotsOf(st[i], block[i], ip[i]) = {}
  BY DEF Step, Executing
<1>a. PICK tx, n : tx = block[i] /\ n = ip[i]
  OBVIOUS
<1>1. /\ TypeOK /\ FiberOK(i) /\ Good(st[i]) /\ st[i].inc = i /\ IsTx(tx)
      /\ Rich(bs) /\ pc[i] \in Before /\ Phase(st[i], tx, n)
  BY <1>0, <1>a, Executes
<1>f. PICK first \in BOOLEAN : first = (pc[i] = "spec")
  OBVIOUS
<1>t. PICK t : t = StepOf(st[i], tx, n, first)
  OBVIOUS
<1>2. /\ st' = [st EXCEPT ![i] = t] /\ ip' = [ip EXCEPT ![i] = n + 1]
      /\ UNCHANGED <<block, pc, bs, io>>
  BY <1>a, <1>f, <1>t DEF Step
<1>3. n \in 1 .. LastStep(tx)
  BY <1>0, <1>1, <1>a DEF FiberOK
<1>4. \A a \in AccountsOf(tx, n) : Loaded(st[i], a)
  BY <1>0, <1>1, <1>3, <1>a, AccountsType DEF MissingAccounts, Loaded
<1>5. Good(t) /\ Seen(st[i], t, first) /\ Goes(t, tx, n + 1)
  BY <1>0, <1>1, <1>3, <1>4, <1>a, <1>t, StepOfGood
<1>6. /\ st'[i] = t /\ ip'[i] = n + 1 /\ pc'[i] = pc[i] /\ io'[i] = NoIo /\ NoIo' = NoIo
      /\ block'[i] = tx
      /\ \A j \in Tx \ {i} : /\ st'[j] = st[j] /\ ip'[j] = ip[j] /\ pc'[j] = pc[j]
                             /\ io'[j] = io[j]
  BY <1>0, <1>1, <1>2, <1>a DEF TypeOK, NoIo
<1>7. Sound(i)'
  <2>1. t.inc = i /\ Entries(t) /\ (t.out = "running" => Phase(t, tx, n + 1))
    BY <1>1, <1>5 DEF Good, Seen, Goes
  <2> QED
    BY <1>1, <1>6, <2>1 DEF Sound, Before
<1> QED
  BY <1>1, <1>2, <1>6, <1>7, SoundStep

\* A step of fiber i around its execution.
LEMMA SoundControl ==
    ASSUME IInv, SInv, NEW i \in Tx, io[i] = NoIo, NEW t, NEW p,
           st' = [st EXCEPT ![i] = t], t.inc = i,
           pc' = [pc EXCEPT ![i] = p],
           \/ p \notin Before /\ Finals(t)
           \/ /\ p \in Before /\ Entries(t)
              /\ t.out = "running" => Phase(t, block[i], ip'[i]),
           \A j \in Tx \ {i} : ip'[j] = ip[j],
           UNCHANGED <<block, io>>, Rich(bs')
    PROVE  SInv'
<1>1. TypeOK
  BY DEF IInv
<1>2. /\ st'[i] = t /\ pc'[i] = p /\ io'[i] = NoIo /\ NoIo' = NoIo
      /\ \A j \in Tx \ {i} : /\ st'[j] = st[j] /\ ip'[j] = ip[j] /\ pc'[j] = pc[j]
                             /\ io'[j] = io[j]
  BY <1>1 DEF TypeOK, NoIo
<1>3. Sound(i)'
  BY <1>2 DEF Sound
<1> QED
  BY <1>2, <1>3, SoundStep

\* The same when the State stays what it is.
LEMMA SoundPc ==
    ASSUME IInv, SInv, NEW i \in Tx, NEW p, io[i] = NoIo,
           pc' = [pc EXCEPT ![i] = p], p \in Before => pc[i] \in Before,
           UNCHANGED <<block, io, st, ip>>, Rich(bs')
    PROVE  SInv'
<1>1. TypeOK /\ Sound(i) /\ FiberOK(i)
  BY DEF IInv, SInv
<1>2. st' = [st EXCEPT ![i] = st[i]] /\ st[i].inc = i
  BY <1>1 DEF TypeOK, Sound
<1>3. \/ p \notin Before /\ Finals(st[i])
      \/ /\ p \in Before /\ Entries(st[i])
         /\ st[i].out = "running" => Phase(st[i], block[i], ip'[i])
  <2>1. CASE pc[i] \in Before
    <3>1. Good(st[i])
      BY <1>1, <2>1 DEF FiberOK, Sound, Good
    <3> QED
      BY <1>1, <2>1, <3>1, EntriesFinals DEF Sound
  <2>2. CASE pc[i] \notin Before
    BY <1>1, <2>2 DEF Sound
  <2> QED
    BY <2>1, <2>2
<1> QED
  BY <1>2, <1>3, SoundControl

LEMMA ControlSound ==
    ASSUME IInv, SInv, NEW i \in Tx,
           Begin(i) \/ RejectStatic(i) \/ MergeDone(i) \/ Publish(i) \/ Catch(i)
    PROVE  SInv'
<1>1. TypeOK /\ Rich(bs) /\ FiberOK(i)
  BY DEF IInv, SInv
<1>2. UNCHANGED <<block, io, st, ip, bs>>
  BY DEF Begin, RejectStatic, MergeDone, Publish, Catch
<1>3. io[i] = NoIo
  BY <1>1 DEF Begin, RejectStatic, MergeDone, Publish, Catch, FiberOK
<1>4. CASE Begin(i)
  <2>1. PICK p \in {"spec", "reject"} : pc' = [pc EXCEPT ![i] = p]
    BY <1>4 DEF Begin
  <2>2. pc[i] \in Before
    BY <1>4 DEF Begin, Before
  <2> QED
    BY <1>1, <1>2, <1>3, <2>1, <2>2, SoundPc
<1>5. CASE RejectStatic(i) \/ MergeDone(i) \/ Publish(i) \/ Catch(i)
  <2>1. PICK p \in {"exit", "done"} : pc' = [pc EXCEPT ![i] = p]
    BY <1>5 DEF RejectStatic, MergeDone, Publish, Catch
  <2>2. p \notin Before
    BY <2>1 DEF Before
  <2> QED
    BY <1>1, <1>2, <1>3, <2>1, <2>2, SoundPc
<1> QED
  BY <1>4, <1>5

LEMMA AcceptSound ==
    ASSUME IInv, SInv, NEW i \in Tx, Accept(i) \/ AcceptRetry(i)
    PROVE  SInv'
<1>0. /\ pc[i] \in {"spec", "retry"} /\ st[i].out \in {"ok", "fail", "err"}
      /\ UNCHANGED <<block, bs, ip, io>>
  BY DEF Accept, AcceptRetry, Finished
<1>1. /\ TypeOK /\ FiberOK(i) /\ Good(st[i]) /\ st[i].inc = i /\ IsTx(block[i])
      /\ bs \in Shared /\ Rich(bs)
  BY <1>0, Executes
<1>2. io[i] = NoIo
  BY <1>0, <1>1 DEF FiberOK
<1>3. CASE CanMerge(bs, st[i], Relaxed)
  <2>s. PICK s : s = Fixed(bs, st[i])
    OBVIOUS
  <2>1. Conclude(i, s)
    BY <1>3, <2>s DEF Accept, AcceptRetry
  <2>2. \A a \in Addr : st[i].orig[a] # Absent =>
           a \in Known(bs) /\ Balance(bs[a].second) >= 0
    BY <1>1 DEF FiberOK, Known, Rich
  <2>3. Good(s) /\ s.inc = i
    BY <1>1, <1>3, <2>s, <2>2, FixedGood
  <2>4. Keeps(st[i], s) /\ s.out = st[i].out
    BY <1>1, <1>3, <2>s, <2>2, FixedType DEF Good
  <2>5. CASE s.out = "err"
    <3>1. /\ st' = [st EXCEPT ![i] = s] /\ pc' = [pc EXCEPT ![i] = "exit"]
          /\ "exit" \notin Before
      BY <2>1, <2>5 DEF Conclude, Before
    <3>2. Finals(s)
      BY <2>3, EntriesFinals
    <3> QED
      BY <1>0, <1>1, <1>2, <2>3, <3>1, <3>2, SoundControl
  <2>6. CASE s.out # "err"
    <3>t. PICK t : t = ExecuteFinal(s, block[i])
      OBVIOUS
    <3>1. /\ st' = [st EXCEPT ![i] = t] /\ pc' = [pc EXCEPT ![i] = "merge"]
          /\ "merge" \notin Before
      BY <2>1, <2>6, <3>t DEF Conclude, Before
    <3>2. Loaded(s, block[i].from) /\ Loaded(s, Beneficiary)
      BY <1>0, <1>1, <2>4, <2>6 DEF FiberOK, Loaded, Keeps, SameReads
    <3>3. Finals(t) /\ View(s, t)
      BY <2>3, <3>t, <3>2, ExecuteFinalFinals
    <3>4. t.inc = i
      BY <2>3, <3>3 DEF View
    <3> QED
      BY <1>0, <1>1, <1>2, <3>1, <3>3, <3>4, SoundControl
  <2> QED
    BY <2>5, <2>6
<1>4. CASE ~CanMerge(bs, st[i], Relaxed)
  <2>1. pc' = [pc EXCEPT ![i] = "abort"] /\ st' = st /\ "abort" \notin Before
    BY <1>4 DEF Accept, AcceptRetry, Before
  <2> QED
    BY <1>0, <1>1, <1>2, <2>1, SoundPc
<1> QED
  BY <1>3, <1>4

LEMMA RetrySound ==
    ASSUME IInv, SInv, NEW i \in Tx, Retry(i)
    PROVE  SInv'
<1>1. TypeOK /\ Rich(bs) /\ FiberOK(i) /\ i \in Nat
  BY TxFacts DEF IInv, SInv
<1>2. /\ io[i] = NoIo /\ "retry" \in Before
      /\ pc' = [pc EXCEPT ![i] = "retry"] /\ st' = [st EXCEPT ![i] = FreshState(i)]
      /\ ip' = [ip EXCEPT ![i] = 1] /\ UNCHANGED <<block, bs, io>>
  BY <1>1 DEF Retry, Finished, FiberOK, Before
<1>3. ip'[i] = 1 /\ \A j \in Tx \ {i} : ip'[j] = ip[j]
  BY <1>1, <1>2 DEF TypeOK
<1>4. PICK t : t = FreshState(i)
  OBVIOUS
<1>5. Entries(t) /\ Phase(t, block[i], 1) /\ t.inc = i
  BY <1>1, <1>4, FreshGood DEF Good
<1> QED
  BY <1>1, <1>2, <1>3, <1>4, <1>5, SoundControl

LEMMA MergeOneSound ==
    ASSUME IInv, SInv, NEW i \in Tx, MergeOne(i)
    PROVE  SInv'
<1>1. /\ TypeOK /\ FiberOK(i) /\ Sound(i) /\ WellFormed(st[i]) /\ bs \in Shared
      /\ pc[i] = "merge" /\ Rich(bs)
      /\ UNCHANGED <<block, pc, ip, st, io>>
  BY DEF IInv, SInv, FiberOK, TypeOK, Shared, MergeOne
<1>2. PICK a \in todo[i] : bs' = MergeAccount(bs, a, st[i].cur[a])
  BY DEF MergeOne
<1>3. a \in Known(bs) /\ st[i].cur[a] \in AccountState /\ st[i].cur[a] # Absent /\ a \in Addr
  BY <1>1 DEF FiberOK, WellFormed, TypeOK, State, Known
<1>4. Balance(st[i].cur[a].acct) >= 0
  BY <1>1, <1>3 DEF Sound, Finals, Final, Before
<1>5. PICK e \in AccountState : e = st[i].cur[a]
  BY <1>3
<1>6. Rich(bs')
  BY <1>1, <1>2, <1>3, <1>4, <1>5, MergeAccountRich
<1>7. pc' = [pc EXCEPT ![i] = pc[i]] /\ io[i] = NoIo
  BY <1>1 DEF TypeOK, FiberOK
<1> QED
  BY <1>1, <1>6, <1>7, SoundPc

-----------------------------------------------------------------------------
(* The calling thread, and the theorem.                                    *)

LEMMA HeaderSound ==
    ASSUME IInv, SInv, HeaderFirst, Header
    PROVE  SInv'
<1>0. /\ TypeOK /\ bs \in Shared /\ System \in Addr /\ Rich(bs)
      /\ \A i \in Tx : pc[i] = "none" /\ Sound(i)
      /\ UNCHANGED <<block, ip, st, io>>
  BY RunAssumption DEF IInv, SInv, TypeOK, Shared, Header, HeaderFirst
<1>1. \A i \in Tx : pc'[i] \in Before
  BY <1>0 DEF Header, Before
<1>2. Rich(bs')
  <2>1. CASE lost
    BY <1>0, <2>1 DEF Header
  <2>2. CASE ~lost
    <3>a. PICK b1 : b1 = EmplaceAccount(bs, System, Db[System].acct)
      OBVIOUS
    <3>b. PICK s1 : s1 = Remember(FreshState(0), System, b1[System].second)
      OBVIOUS
    <3>w. PICK inc, k, w : /\ inc = b1[System].second.inc /\ k = HeaderKey
                           /\ w = Db[System].storage[HeaderKey]
      OBVIOUS
    <3>c. PICK b2 : b2 = EmplaceStorage(b1, System, inc, k, w)
      OBVIOUS
    <3>d. PICK s2 : s2 = SetStorage(s1, System, k, HeaderWord)
      OBVIOUS
    <3>1. bs' = IF b1[System].second = NoAccount THEN b1
                ELSE MergeAccount(b2, System, s2.cur[System])
      BY <2>2, <3>a, <3>b, <3>c, <3>d, <3>w DEF Header
    <3>2. /\ k \in Key /\ HeaderWord \in Word /\ w \in Word
          /\ Db[System].acct \in Account \union {NoAccount}
      BY <1>0, <3>w, AddrAssumption, DbAssumption, WordAssumption, SMT
         DEF HeaderKey, HeaderWord, Word
    <3>3. b1 \in Shared /\ System \in Known(b1) /\ Rich(b1)
      BY <1>0, <3>a, <3>2, EmplaceAccountType, EmplaceAccountRich, SMT
    <3>4. b2 \in Shared /\ System \in Known(b2) /\ Rich(b2)
      <4>1. b2 \in Shared /\ Known(b2) = Known(b1)
        BY <3>3, <3>2, <3>c, EmplaceStorageType
      <4>2. Rich(b2)
        BY <3>3, <3>2, <3>c, EmplaceStorageRich
      <4> QED
        BY <3>3, <4>1, <4>2
    <3>5. PICK x \in Account \union {NoAccount} : x = b1[System].second /\ Balance(x) >= 0
      BY <1>0, <3>3 DEF Shared, Known, Delta, Rich
    <3>6. WellFormed(s1) /\ Loaded(s1, System) /\ RecentAccount(s1, System) = x
      <4>1. Good(FreshState(0)) /\ FreshState(0).orig[System] = Absent
            /\ FreshState(0).cur[System] = Absent
        BY <1>0, FreshGood, FreshType DEF FreshState
      <4>2. /\ Ext(FreshState(0), s1) /\ s1.orig[System] = OriginalAccountState(x)
            /\ s1.cur = FreshState(0).cur
        BY <1>0, <3>b, <3>5, <4>1, RememberExt
      <4>3. WellFormed(s1) /\ s1.cur[System] = Absent /\ s1.orig[System].acct = x
        BY <4>1, <4>2, SMT DEF Ext, Good, OriginalAccountState
      <4>4. Loaded(s1, System)
        BY <1>0, <3>b, <3>5, FreshType, RememberType, SMT DEF Loaded
      <4> QED
        BY <4>3, <4>4 DEF RecentAccount, Recent
    <3>7. s2.cur[System] \in AccountState /\ s2.cur[System].acct = x
      <4>1. Recent(s1, System) \in AccountState
        BY <3>6, RecentType
      <4>2. s2.cur[System] = [Recent(s1, System) EXCEPT !.storage[k] = HeaderWord]
        BY <1>0, <3>6, <3>d DEF SetStorage, WellFormed, State
      <4> QED
        BY <3>2, <3>6, <4>1, <4>2, SMT DEF AccountState, RecentAccount
    <3>8. PICK e \in AccountState : e = s2.cur[System]
      BY <3>7
    <3>9. Rich(MergeAccount(b2, System, e))
      BY <3>4, <3>5, <3>7, <3>8, MergeAccountRich
    <3> QED
      BY <3>1, <3>3, <3>8, <3>9
  <2> QED
    BY <2>1, <2>2
<1>3. ASSUME NEW i \in Tx PROVE Sound(i)'
  <2>1. Sound(i) /\ pc[i] \in Before /\ pc'[i] \in Before /\ NoIo' = NoIo
    BY <1>0, <1>1 DEF Before, NoIo
  <2> QED
    BY <1>0, <2>1 DEF Sound
<1>4. Tx' = Tx
  BY <1>0 DEF Tx
<1> QED
  BY <1>2, <1>3, <1>4 DEF SInv

LEMMA EpilogueSound ==
    ASSUME IInv, SInv, Epilogue
    PROVE  SInv'
<1>0. /\ TypeOK /\ bs \in Shared /\ Recipient \in Addr /\ Len(block) + 1 \in Nat
      /\ Db[Recipient].acct \in Account \union {NoAccount} /\ Rich(bs)
      /\ \A i \in Tx : Sound(i)
  BY RunAssumption, TxFacts, DbAssumption, SMT DEF IInv, SInv, TypeOK, Shared
<1>1. UNCHANGED <<block, pc, ip, st, io>>
  BY DEF Epilogue, fiberVars
<1>2. Rich(bs')
  <2>a. PICK b1 : b1 = EmplaceAccount(bs, Recipient, Db[Recipient].acct)
    OBVIOUS
  <2>z. PICK z : z = FreshState(Len(block) + 1)
    OBVIOUS
  <2>b. PICK s0 : s0 = Remember(z, Recipient, b1[Recipient].second)
    OBVIOUS
  <2>c. PICK s1 : s1 = AddToBalance(s0, Recipient, 1)
    OBVIOUS
  <2>d. PICK s2 : s2 = Destruct(s1)
    OBVIOUS
  <2>1. bs' = bs \/ bs' = b1 \/ bs' = MergeAccount(b1, Recipient, s2.cur[Recipient])
    BY <2>a, <2>b, <2>c, <2>d, <2>z DEF Epilogue
  <2>2. b1 \in Shared /\ Recipient \in Known(b1) /\ Rich(b1)
    BY <1>0, <2>a, EmplaceAccountType, EmplaceAccountRich, SMT
  <2>3. PICK x \in Account \union {NoAccount} : x = b1[Recipient].second /\ Balance(x) >= 0
    BY <1>0, <2>2 DEF Shared, Known, Delta, Rich
  <2>4. Good(z) /\ z.orig[Recipient] = Absent
    BY <1>0, <2>z, FreshGood, FreshType
  <2>5. Ext(z, s0) /\ s0.orig[Recipient] = OriginalAccountState(x)
    BY <1>0, <2>b, <2>3, <2>4, RememberExt, SMT
  <2>6. Good(s0) /\ Loaded(s0, Recipient)
    <3>1. Loaded(s0, Recipient)
      BY <1>0, <2>b, <2>3, <2>4, RememberType DEF Loaded, Good
    <3> QED
      BY <2>5, <3>1 DEF Ext
  <2>7. Good(s1) /\ s1.cur[Recipient] # Absent
    BY <2>6, <2>c, AddToBalanceExt, SMT DEF Ext, Puts
  <2>8. /\ Finals(s2) /\ WellFormed(s2) /\ s2.cur[Recipient] # Absent
    BY <1>0, <2>7, <2>d, DestructFinals, DestructType DEF Good
  <2>9. s2.cur[Recipient] \in AccountState /\ Balance(s2.cur[Recipient].acct) >= 0
    BY <1>0, <2>8 DEF WellFormed, State, Finals, Final
  <2>10. PICK e \in AccountState : e = s2.cur[Recipient]
    BY <2>9
  <2>11. Rich(MergeAccount(b1, Recipient, e))
    BY <2>2, <2>9, <2>10, MergeAccountRich
  <2> QED
    BY <1>0, <2>1, <2>2, <2>10, <2>11
<1>3. ASSUME NEW i \in Tx PROVE Sound(i)'
  BY <1>0, <1>1 DEF Sound, NoIo
<1>4. Tx' = Tx
  BY <1>1 DEF Tx
<1> QED
  BY <1>2, <1>3, <1>4 DEF SInv

LEMMA NextSound ==
    ASSUME IInv, OrderInv, SInv, [Next]_vars
    PROVE  SInv'
<1>1. CASE LoseVersion \/ Collect \/ UNCHANGED vars
  <2>1. UNCHANGED <<block, pc, ip, st, io, bs>>
    BY <1>1 DEF LoseVersion, Collect, vars, fiberVars
  <2>2. Tx' = Tx /\ NoIo' = NoIo
    BY <2>1 DEF Tx, NoIo
  <2> QED
    BY <2>1, <2>2 DEF SInv, Sound
<1>2. CASE Header
  BY <1>2, HeaderSound DEF OrderInv
<1>3. CASE Epilogue
  BY <1>3, EpilogueSound
<1>4. CASE \E i \in Tx : Fiber(i)
  <2>1. PICK i \in Tx : Fiber(i)
    BY <1>4
  <2>2. CASE Begin(i) \/ RejectStatic(i) \/ MergeDone(i) \/ Publish(i) \/ Catch(i)
    BY <2>2, ControlSound
  <2>3. CASE FindAccount(i) \/ LoadAccount(i)
    BY <2>3, FindAccountSound, LoadAccountSound
  <2>4. CASE FindSlot(i) \/ LoadSlot(i)
    BY <2>4, FindSlotSound, LoadSlotSound
  <2>5. CASE ReadThrows(i) \/ Step(i)
    BY <2>5, ReadThrowsSound, StepSound
  <2>6. CASE Accept(i) \/ AcceptRetry(i)
    BY <2>6, AcceptSound
  <2>7. CASE Retry(i) \/ MergeOne(i)
    BY <2>7, RetrySound, MergeOneSound
  <2> QED
    BY <2>1, <2>2, <2>3, <2>4, <2>5, <2>6, <2>7 DEF Fiber
<1> QED
  BY <1>1, <1>2, <1>3, <1>4 DEF Next

LEMMA InitSound == Init => SInv
<1> SUFFICES ASSUME Init PROVE SInv
  OBVIOUS
<1>1. \A i \in Tx : i \in Nat
  BY InitIInv, TxFacts DEF IInv
<1>2. Rich(bs)
  BY DEF Init, EmptyBlockState, Rich
<1>3. ASSUME NEW i \in Tx PROVE Sound(i)
  <2>1. /\ st[i] = FreshState(i) /\ ip[i] = 1 /\ pc[i] \in Before /\ io[i] = NoIo
    BY DEF Init, Before
  <2>2. Good(FreshState(i)) /\ Phase(FreshState(i), block[i], 1) /\ FreshState(i).inc = i
    BY <1>1, FreshGood
  <2> QED
    BY <2>1, <2>2 DEF Sound, Good
<1> QED
  BY <1>2, <1>3 DEF SInv

LEMMA Soundness == Spec => [](IInv /\ OrderInv /\ SInv)
<1>1. Init => SInv
  BY InitSound
<1>2. IInv /\ OrderInv /\ SInv /\ [Next]_vars => SInv'
  BY NextSound
<1> QED
  BY <1>1, <1>2, Invariance, PTL DEF Spec

\* The balance assertions of subtract_from_balance and of
\* try_fix_account_mismatch hold for every block, world and interleaving, with
\* and without relaxed validation, on right and on wrong speculation: no
\* execution takes a balance below zero, nor does shifting it when merging.
THEOREM BalancesNeverNegative == Spec => []Solvent
<1>1. IInv /\ SInv => Solvent
  <2> SUFFICES ASSUME IInv, SInv, NEW i \in Tx, NEW a \in WriteSet(st[i])
               PROVE  Balance(st[i].cur[a].acct) >= 0
    BY DEF Solvent
  <2>1. FiberOK(i) /\ Sound(i)
    BY DEF IInv, SInv
  <2>2. /\ a \in Addr /\ st[i].cur[a] # Absent /\ st[i].orig[a] # Absent
    BY <2>1 DEF WriteSet, FiberOK, WellFormed
  <2>3. CASE pc[i] \in Before
    <3>1. Entry(st[i].orig[a], st[i].cur[a], st[i].inc)
      BY <2>1, <2>2, <2>3 DEF Sound, Entries
    <3> QED
      BY <3>1 DEF Entry, Holds, Backed
  <2>4. CASE pc[i] \notin Before
    BY <2>1, <2>2, <2>4 DEF Sound, Finals, Final
  <2> QED
    BY <2>3, <2>4
<1> QED
  BY <1>1, Soundness, PTL

-----------------------------------------------------------------------------
(* Nothing throws on a database that loses no version.                     *)

Calm ==
    /\ lost \/ thrown # {} => MayLose
    /\ \A i \in Tx : st[i].out = "throw" => MayLose

LEMMA CalmStep ==
    ASSUME TypeOK, Calm, NEW i \in Tx, NEW t, st' = [st EXCEPT ![i] = t],
           t.out = "throw" => MayLose,
           UNCHANGED <<block, lost, thrown>>
    PROVE  Calm'
BY DEF Calm, Tx, TypeOK

LEMMA NextCalm ==
    ASSUME IInv, SInv, Calm, [Next]_vars
    PROVE  Calm'
<1>0. TypeOK /\ (\A i \in Tx : st[i] \in State /\ WellFormed(st[i]))
  BY DEF IInv, FiberOK, TypeOK
<1>1. CASE UNCHANGED <<block, thrown, st>> /\ (lost' => lost \/ MayLose)
  BY <1>1 DEF Calm, Tx
<1>2. ASSUME NEW i \in Tx, NEW t, st' = [st EXCEPT ![i] = t], t.out = st[i].out,
             UNCHANGED <<block, lost, thrown>>
      PROVE  Calm'
  BY <1>0, <1>2, CalmStep DEF Calm
<1>3. ASSUME NEW i \in Tx, FindAccount(i) \/ LoadAccount(i)
      PROVE  Calm'
  <2>1. CASE st' = st
    BY <1>1, <1>3, <2>1 DEF FindAccount, LoadAccount
  <2>2. CASE \E a, q : st' = [st EXCEPT ![i] = Remember(st[i], a, q)]
    <3>1. PICK a, q : st' = [st EXCEPT ![i] = Remember(st[i], a, q)]
      BY <2>2
    <3>2. Remember(st[i], a, q).out = st[i].out
      BY <1>0 DEF Remember, State
    <3> QED
      BY <1>2, <1>3, <3>1, <3>2 DEF FindAccount, LoadAccount
  <2> QED
    BY <1>3, <2>1, <2>2 DEF FindAccount, LoadAccount
<1>4. ASSUME NEW i \in Tx, FindSlot(i) \/ LoadSlot(i)
      PROVE  Calm'
  <2>1. CASE st' = st
    BY <1>1, <1>4, <2>1 DEF FindSlot, LoadSlot
  <2>2. CASE \E a, k, w : st' = [st EXCEPT ![i] = RememberSlot(st[i], a, k, w)]
    <3>1. PICK a, k, w : st' = [st EXCEPT ![i] = RememberSlot(st[i], a, k, w)]
      BY <2>2
    <3>2. RememberSlot(st[i], a, k, w).out = st[i].out
      BY <1>0 DEF RememberSlot, State
    <3> QED
      BY <1>2, <1>4, <3>1, <3>2 DEF FindSlot, LoadSlot
  <2> QED
    BY <1>4, <2>1, <2>2, SMT DEF FindSlot, LoadSlot
<1>5. ASSUME NEW i \in Tx, ReadThrows(i)
      PROVE  Calm'
  BY <1>0, <1>5, CalmStep DEF ReadThrows, Calm
<1>6. ASSUME NEW i \in Tx, Step(i)
      PROVE  Calm'
  <2>0. /\ pc[i] \in {"spec", "retry"} /\ st[i].out = "running" /\ io[i] = NoIo
        /\ MissingAccounts(i) = {} /\ SlotsOf(st[i], block[i], ip[i]) = {}
    BY <1>6 DEF Step, Executing
  <2>a. PICK tx, n, s : tx = block[i] /\ n = ip[i] /\ s = st[i]
    OBVIOUS
  <2>1. /\ FiberOK(i) /\ Good(s) /\ IsTx(tx) /\ Phase(s, tx, n)
    BY <2>0, <2>a, Executes
  <2>f. PICK first \in BOOLEAN : first = (pc[i] = "spec")
    OBVIOUS
  <2>t. PICK t : t = StepOf(s, tx, n, first)
    OBVIOUS
  <2>2. st' = [st EXCEPT ![i] = t] /\ UNCHANGED <<block, lost, thrown>>
    BY <1>6, <2>a, <2>f, <2>t DEF Step
  <2>3. n \in 1 .. LastStep(tx)
    BY <2>0, <2>1, <2>a DEF FiberOK
  <2>4. \A a \in AccountsOf(tx, n) : Loaded(s, a)
    BY <1>0, <2>0, <2>1, <2>3, <2>a, AccountsType DEF MissingAccounts, Loaded
  <2>5. Goes(t, tx, n + 1)
    BY <2>0, <2>1, <2>3, <2>4, <2>a, <2>t, StepOfGood
  <2> QED
    BY <1>0, <2>2, <2>5, CalmStep DEF Goes
<1>7. ASSUME NEW i \in Tx, Retry(i)
      PROVE  Calm'
  BY <1>0, <1>7, CalmStep DEF Retry, FreshState
<1>8. ASSUME NEW i \in Tx, Accept(i) \/ AcceptRetry(i)
      PROVE  Calm'
  <2>1. CASE st' = st
    BY <1>1, <1>8, <2>1 DEF Accept, AcceptRetry
  <2>2. CASE CanMerge(bs, st[i], Relaxed) /\ Conclude(i, Fixed(bs, st[i]))
    <3>1. /\ UNCHANGED <<block, lost, thrown>> /\ pc[i] \in {"spec", "retry"}
          /\ st[i].out \in {"ok", "fail", "err"}
      BY <1>8 DEF Accept, AcceptRetry, Finished
    <3>2. PICK f : f = Fixed(bs, st[i])
      OBVIOUS
    <3>3. FiberOK(i) /\ bs \in Shared /\ WellFormed(st[i])
      BY <1>0, <3>1, Executes
    <3>4. \A a \in Addr : st[i].orig[a] # Absent => a \in Known(bs)
      BY <3>3 DEF FiberOK, Known
    <3>5. Keeps(st[i], f) /\ f.out = st[i].out
      BY <2>2, <3>2, <3>3, <3>4, FixedType
    <3>6. CASE f.out = "err"
      BY <1>2, <2>2, <3>1, <3>2, <3>5, <3>6 DEF Conclude
    <3>7. CASE f.out # "err"
      <4>1. st' = [st EXCEPT ![i] = ExecuteFinal(f, block[i])]
        BY <2>2, <3>2, <3>7 DEF Conclude
      <4>2. Loaded(f, block[i].from) /\ Loaded(f, Beneficiary)
        BY <3>1, <3>3, <3>5, <3>7 DEF FiberOK, Loaded, Keeps, SameReads
      <4>3. ExecuteFinal(f, block[i]).out = f.out
        BY <3>5, <4>2, ExecuteFinalType DEF Keeps
      <4> QED
        BY <1>2, <3>1, <3>5, <4>1, <4>3
    <3> QED
      BY <3>6, <3>7
  <2> QED
    BY <1>8, <2>1, <2>2 DEF Accept, AcceptRetry
<1>9. ASSUME NEW i \in Tx, Catch(i)
      PROVE  Calm'
  BY <1>9 DEF Catch, Calm, Tx
<1>10. ASSUME NEW i \in Tx,
              Begin(i) \/ RejectStatic(i) \/ MergeOne(i) \/ MergeDone(i) \/ Publish(i)
       PROVE  Calm'
  <2>1. UNCHANGED <<block, thrown, st, lost>>
    BY <1>10 DEF Begin, RejectStatic, MergeOne, MergeDone, Publish
  <2> QED
    BY <1>1, <2>1
<1>11. CASE LoseVersion \/ Header \/ Collect \/ Epilogue \/ UNCHANGED vars
  <2>1. CASE LoseVersion
    BY <1>1, <2>1 DEF LoseVersion, fiberVars
  <2>2. CASE Header
    BY <1>1, <2>2 DEF Header
  <2>3. CASE Collect \/ Epilogue
    <3>1. UNCHANGED <<block, thrown, st, lost>>
      BY <2>3 DEF Collect, Epilogue, fiberVars
    <3> QED
      BY <1>1, <3>1
  <2>4. CASE UNCHANGED vars
    BY <1>1, <2>4 DEF vars, fiberVars
  <2> QED
    BY <1>11, <2>1, <2>2, <2>3, <2>4
<1> QED
  BY <1>3, <1>4, <1>5, <1>6, <1>7, <1>8, <1>9, <1>10, <1>11 DEF Next, Fiber

LEMMA Calmness == Spec => []Calm
<1>1. Init => Calm
  <2>1. \A i : FreshState(i).out # "throw"
    BY DEF FreshState
  <2> QED
    BY <2>1, SMT DEF Init, Calm
<1>2. (IInv /\ OrderInv /\ SInv) /\ Calm /\ [Next]_vars => Calm'
  BY NextCalm
<1> QED
  BY <1>1, <1>2, Soundness, PTL DEF Spec
=============================================================================
