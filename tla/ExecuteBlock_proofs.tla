------------------------ MODULE ExecuteBlock_proofs -------------------------
(***************************************************************************)
(* Proofs about ExecuteBlock for every set of blocks, addresses, keys and  *)
(* every world before the block.  First what the operations of State, the  *)
(* steps of a transaction and the sections of the block state keep: the    *)
(* types, and that an account is changed only after it was read (every     *)
(* current_ entry has an original_ entry).  Then the specification: the    *)
(* variables keep their types, the block state holds every account a       *)
(* transaction works on, and transactions take effect in block order.      *)
(***************************************************************************)
EXTENDS ExecuteBlock, TLAPS

\* Zenon proves a step that names no prover; the steps that need arithmetic,
\* records or functions taken apart name SMT.
USE ZenonT(20), SMTT(20)

-----------------------------------------------------------------------------
(* The operations of State.                                                *)

\* A well-formed State: typed, and current_ and the frame below it hold only
\* accounts that original_ holds.
WellFormed(s) ==
    /\ s \in State
    /\ \A a \in Addr : s.cur[a] # Absent => s.orig[a] # Absent
    /\ \A a \in Addr : s.saved[a] # Absent => s.orig[a] # Absent

\* t is s after an operation that reads nothing new.
SameReads(s, t) == \A a \in Addr : t.orig[a] # Absent <=> s.orig[a] # Absent

\* An address the operation may work on: it was read.
Loaded(s, a) == a \in Addr /\ s.orig[a] # Absent

LEMMA NewAccountType ==
    ASSUME NEW inc \in Nat PROVE NewAccount(inc) \in Account
BY SMT DEF NewAccount, Account

LEMMA FreshType ==
    ASSUME NEW inc \in Nat
    PROVE  /\ WellFormed(FreshState(inc)) /\ FreshState(inc).out = "running"
           /\ \A a \in Addr : FreshState(inc).orig[a] = Absent
BY DEF FreshState, WellFormed, State, Outcome

LEMMA RecentType ==
    ASSUME NEW s, WellFormed(s), NEW a, Loaded(s, a)
    PROVE  /\ Recent(s, a) \in AccountState
           /\ RecentAccount(s, a) \in Account \union {NoAccount}
<1>1. s.orig[a] \in Original /\ (s.cur[a] # Absent => s.cur[a] \in AccountState)
  BY DEF WellFormed, Loaded, State
<1> QED
  BY <1>1 DEF Recent, RecentAccount, Original, AccountState

LEMMA WritableType ==
    ASSUME NEW s, WellFormed(s), NEW a, Loaded(s, a)
    PROVE  Writable(s, a) \in Account
<1>1. s.inc \in Nat
  BY DEF WellFormed, State
<1> QED
  BY <1>1, RecentType, NewAccountType DEF Writable

\* Replacing current_[a] by a typed account state.
LEMMA SetCurrent ==
    ASSUME NEW s, WellFormed(s), NEW a, Loaded(s, a), NEW c \in AccountState
    PROVE  LET t == [s EXCEPT !.cur[a] = c]
           IN  WellFormed(t) /\ SameReads(s, t) /\ t.out = s.out /\ t.cur[a] = c
BY DEF WellFormed, SameReads, Loaded, State

LEMMA SetNonceType ==
    ASSUME NEW s, WellFormed(s), NEW a, Loaded(s, a), NEW n \in Nat
    PROVE  LET t == SetNonce(s, a, n)
           IN  WellFormed(t) /\ SameReads(s, t) /\ t.out = s.out
<1> DEFINE c == [Recent(s, a) EXCEPT !.acct = [Writable(s, a) EXCEPT !.nonce = n]]
<1>1. c \in AccountState
  BY RecentType, WritableType, SMT DEF AccountState, Account
<1>2. SetNonce(s, a, n) = [s EXCEPT !.cur[a] = c]
  BY DEF SetNonce
<1> HIDE DEF c
<1> QED
  BY <1>1, <1>2, SetCurrent, SMT

LEMMA AccessType ==
    ASSUME NEW s, WellFormed(s), NEW a, Loaded(s, a)
    PROVE  LET t == Access(s, a)
           IN  WellFormed(t) /\ SameReads(s, t) /\ t.out = s.out
BY RecentType, SetCurrent, SMT DEF Access

LEMMA AddToBalanceType ==
    ASSUME NEW s, WellFormed(s), NEW a, Loaded(s, a), NEW v \in Int
    PROVE  LET t == AddToBalance(s, a, v)
           IN  /\ WellFormed(t) /\ SameReads(s, t) /\ t.out = s.out
               /\ t.cur[a] \in AccountState
<1> DEFINE x == [Writable(s, a) EXCEPT !.balance = @ + v]
           c == [Recent(s, a) EXCEPT !.acct = x, !.touched = TRUE]
<1>0. x \in Account
  BY WritableType, SMT DEF Account
<1>1. c \in AccountState
  BY <1>0, RecentType DEF AccountState
<1>2. AddToBalance(s, a, v) = [s EXCEPT !.cur[a] = c]
  BY DEF AddToBalance
<1> HIDE DEF c
<1> QED
  BY <1>1, <1>2, SetCurrent, SMT

LEMMA SubtractFromBalanceType ==
    ASSUME NEW s, WellFormed(s), NEW a, Loaded(s, a), NEW v \in Int
    PROVE  LET t == SubtractFromBalance(s, a, v)
           IN  /\ WellFormed(t) /\ SameReads(s, t) /\ t.out = s.out
               /\ t.cur[a] \in AccountState
<1> DEFINE x == [Writable(s, a) EXCEPT !.balance = @ - v]
           c == [Recent(s, a) EXCEPT !.acct = x, !.touched = TRUE]
<1>0. x \in Account
  BY WritableType, SMT DEF Account
<1>1. c \in AccountState
  BY <1>0, RecentType DEF AccountState
<1>2. SubtractFromBalance(s, a, v) = [s EXCEPT !.cur[a] = c]
  BY DEF SubtractFromBalance
<1> HIDE DEF c
<1> QED
  BY <1>1, <1>2, SetCurrent, SMT

LEMMA TransferType ==
    ASSUME NEW s, WellFormed(s), NEW a, Loaded(s, a), NEW b, Loaded(s, b),
           NEW v \in Int
    PROVE  LET t == Transfer(s, a, b, v)
           IN  WellFormed(t) /\ SameReads(s, t) /\ t.out = s.out
<1> DEFINE u == SubtractFromBalance(s, a, v)
<1>1. WellFormed(u) /\ SameReads(s, u) /\ u.out = s.out
  BY SubtractFromBalanceType
<1>2. Loaded(u, b)
  BY <1>1 DEF Loaded, SameReads
<1>3. LET t == AddToBalance(u, b, v)
      IN  WellFormed(t) /\ SameReads(u, t) /\ t.out = u.out
  BY <1>1, <1>2, AddToBalanceType
<1> QED
  BY <1>1, <1>3 DEF Transfer, SameReads

LEMMA SetStorageType ==
    ASSUME NEW s, WellFormed(s), NEW a, Loaded(s, a), NEW k \in Key,
           NEW w \in Word
    PROVE  LET t == SetStorage(s, a, k, w)
           IN  /\ WellFormed(t) /\ SameReads(s, t) /\ t.out = s.out
               /\ t.cur[a] \in AccountState
<1> DEFINE c == [Recent(s, a) EXCEPT !.storage[k] = w]
<1>1. c \in AccountState
  BY RecentType DEF AccountState
<1>2. SetStorage(s, a, k, w) = [s EXCEPT !.cur[a] = c]
  BY DEF SetStorage
<1> HIDE DEF c
<1> QED
  BY <1>1, <1>2, SetCurrent, SMT

LEMMA CreateContractType ==
    ASSUME NEW s, WellFormed(s), NEW a, Loaded(s, a)
    PROVE  LET t == CreateContract(s, a)
           IN  WellFormed(t) /\ SameReads(s, t) /\ t.out = s.out
<1> DEFINE c == [Recent(s, a) EXCEPT
                    !.acct = [Writable(s, a) EXCEPT !.inc = s.inc]]
<1>0. s.inc \in Nat
  BY DEF WellFormed, State
<1>1. c \in AccountState
  BY <1>0, RecentType, WritableType, SMT DEF AccountState, Account
<1>2. CreateContract(s, a) = [s EXCEPT !.cur[a] = c]
  BY DEF CreateContract
<1> HIDE DEF c
<1> QED
  BY <1>1, <1>2, SetCurrent, SMT

LEMMA SetCodeType ==
    ASSUME NEW s, WellFormed(s), NEW a, Loaded(s, a)
    PROVE  LET t == SetCode(s, a)
           IN  WellFormed(t) /\ SameReads(s, t) /\ t.out = s.out
<1>1. CASE RecentAccount(s, a) = NoAccount
  BY <1>1, AccessType DEF SetCode
<1>2. CASE RecentAccount(s, a) # NoAccount
  <2> DEFINE x == [RecentAccount(s, a) EXCEPT !.code = TRUE]
             c == [Recent(s, a) EXCEPT !.acct = x]
  <2>0. x \in Account
    BY <1>2, RecentType DEF Account
  <2>1. c \in AccountState
    BY <2>0, RecentType DEF AccountState
  <2>2. SetCode(s, a) = [s EXCEPT !.cur[a] = c]
    BY <1>2 DEF SetCode
  <2> HIDE DEF c
  <2> QED
    BY <2>1, <2>2, SetCurrent, SMT
<1> QED
  BY <1>1, <1>2

\* Replacing original_[a] by a typed entry: a read, or a stronger constraint.
LEMMA SetOriginal ==
    ASSUME NEW s, WellFormed(s), NEW a \in Addr, NEW o \in Original
    PROVE  LET t == [s EXCEPT !.orig[a] = o]
           IN  /\ WellFormed(t)
               /\ \A b \in Addr : t.orig[b] # Absent <=> s.orig[b] # Absent \/ b = a
               /\ t.out = s.out
               /\ t.cur = s.cur
BY MapAssumption DEF WellFormed, State

LEMMA RememberType ==
    ASSUME NEW s, WellFormed(s), NEW a \in Addr,
           NEW acct \in Account \union {NoAccount}
    PROVE  LET t == Remember(s, a, acct)
           IN  /\ WellFormed(t)
               /\ \A b \in Addr : t.orig[b] # Absent <=> s.orig[b] # Absent \/ b = a
               /\ t.out = s.out
               /\ t.cur = s.cur
<1>1. OriginalAccountState(acct) \in Original
  BY SMT DEF OriginalAccountState, Original, NoSlots
<1> QED
  BY <1>1, SetOriginal, SMT DEF Remember

LEMMA RememberSlotType ==
    ASSUME NEW s, WellFormed(s), NEW a, Loaded(s, a), NEW k \in Key,
           NEW w \in Word
    PROVE  LET t == RememberSlot(s, a, k, w)
           IN  WellFormed(t) /\ SameReads(s, t) /\ t.out = s.out /\ t.cur = s.cur
<1> DEFINE o == [s.orig[a] EXCEPT !.storage[k] = w]
<1>1. s.orig[a] \in Original
  BY DEF WellFormed, Loaded, State
<1>2. o \in Original
  BY <1>1 DEF Original
<1>3. RememberSlot(s, a, k, w) = [s EXCEPT !.orig[a] = o]
  BY DEF RememberSlot
<1> HIDE DEF o
<1> QED
  BY <1>2, <1>3, SetOriginal, SMT DEF Loaded, SameReads

LEMMA SetValidateExactBalanceType ==
    ASSUME NEW s, WellFormed(s), NEW a, Loaded(s, a)
    PROVE  LET t == SetValidateExactBalance(s, a)
           IN  WellFormed(t) /\ SameReads(s, t) /\ t.out = s.out /\ t.cur = s.cur
<1> DEFINE o == [s.orig[a] EXCEPT !.exact = TRUE]
<1>1. s.orig[a] \in Original
  BY DEF WellFormed, Loaded, State
<1>2. o \in Original
  BY <1>1 DEF Original
<1>3. SetValidateExactBalance(s, a) = [s EXCEPT !.orig[a] = o]
  BY DEF SetValidateExactBalance
<1> HIDE DEF o
<1> QED
  BY <1>2, <1>3, SetOriginal, SMT DEF Loaded, SameReads

LEMMA SetOriginalNonceType ==
    ASSUME NEW s, WellFormed(s), NEW a, Loaded(s, a), NEW n \in Nat
    PROVE  LET t == SetOriginalNonce(s, a, n)
           IN  WellFormed(t) /\ SameReads(s, t) /\ t.out = s.out /\ t.cur = s.cur
<1> DEFINE acct == IF s.orig[a].acct = NoAccount THEN NewAccount(0)
                                                  ELSE s.orig[a].acct
           x == [acct EXCEPT !.nonce = n]
           o == [s.orig[a] EXCEPT !.acct = x]
<1>1. s.orig[a] \in Original
  BY DEF WellFormed, Loaded, State
<1>2. acct \in Account
  BY <1>1, NewAccountType DEF Original
<1>3. x \in Account
  <2> HIDE DEF acct
  <2> QED BY <1>2 DEF Account
<1>4. o \in Original
  <2> HIDE DEF x
  <2> QED BY <1>1, <1>3 DEF Original
<1>5. SetOriginalNonce(s, a, n) = [s EXCEPT !.orig[a] = o]
  BY DEF SetOriginalNonce
<1> HIDE DEF o
<1> QED
  BY <1>4, <1>5, SetOriginal, SMT DEF Loaded, SameReads

LEMMA BalanceType ==
    ASSUME NEW acct \in Account \union {NoAccount}
    PROVE  Balance(acct) \in Int /\ Nonce(acct) \in Nat
BY SMT DEF Balance, Nonce, Account

LEMMA RecordDebitType ==
    ASSUME NEW s, WellFormed(s), NEW a, Loaded(s, a), NEW v \in Int
    PROVE  LET t == RecordDebit(s, a, v)
           IN  WellFormed(t) /\ SameReads(s, t) /\ t.out = s.out /\ t.cur = s.cur
<1> DEFINE need == Balance(s.orig[a].acct) - (Balance(RecentAccount(s, a)) - v)
           o == [s.orig[a] EXCEPT !.min = need]
<1>1. s.orig[a] \in Original
  BY DEF WellFormed, Loaded, State
<1>2. need \in Int
  BY <1>1, RecentType, BalanceType, SMT DEF Original
<1>3. o \in Original
  <2> HIDE DEF need
  <2> QED BY <1>1, <1>2 DEF Original
<1>4. \/ RecordDebit(s, a, v) = SetValidateExactBalance(s, a)
      \/ RecordDebit(s, a, v) = [s EXCEPT !.orig[a] = o]
      \/ RecordDebit(s, a, v) = s
  BY DEF RecordDebit
<1> HIDE DEF o
<1>5. CASE RecordDebit(s, a, v) = SetValidateExactBalance(s, a)
  BY <1>5, SetValidateExactBalanceType
<1>6. CASE RecordDebit(s, a, v) = [s EXCEPT !.orig[a] = o]
  BY <1>3, <1>6, SetOriginal, SMT DEF Loaded, SameReads
<1>7. CASE RecordDebit(s, a, v) = s
  BY <1>7 DEF SameReads
<1> QED
  BY <1>4, <1>5, <1>6, <1>7

LEMMA PushType ==
    ASSUME NEW s, WellFormed(s)
    PROVE  LET t == Push(s)
           IN  WellFormed(t) /\ SameReads(s, t) /\ t.out = s.out /\ t.cur = s.cur
BY DEF Push, WellFormed, SameReads, State

LEMMA PopRejectType ==
    ASSUME NEW s, WellFormed(s)
    PROVE  LET t == PopReject(s)
           IN  WellFormed(t) /\ SameReads(s, t) /\ t.out = s.out
BY DEF PopReject, WellFormed, SameReads, State

LEMMA SelfDestructType ==
    ASSUME NEW s, WellFormed(s), NEW a, Loaded(s, a), NEW b, Loaded(s, b)
    PROVE  LET t == SelfDestruct(s, a, b)
           IN  WellFormed(t) /\ SameReads(s, t) /\ t.out = s.out
<1> DEFINE acc == Access(s, a)
           seen == SetValidateExactBalance(acc, a)
           bal == Balance(RecentAccount(seen, a))
           paid == IF a # b THEN AddToBalance(seen, b, bal) ELSE seen
           sub == SubtractFromBalance(paid, a, bal)
           cond == ~Cancun \/ a # b \/ RecentAccount(seen, a).inc = s.inc
           moved == IF cond THEN sub ELSE seen
           Ok(t) == WellFormed(t) /\ SameReads(s, t) /\ t.out = s.out
<1>1. SelfDestruct(s, a, b) = [moved EXCEPT !.cur[a].destructed = TRUE]
  BY DEF SelfDestruct
<1>2. Ok(acc) /\ Loaded(acc, a) /\ acc.cur[a] \in AccountState
  BY AccessType, RecentType, SetCurrent, SMT DEF Loaded, SameReads, Access
<1> HIDE DEF acc
<1>3. Ok(seen) /\ Loaded(seen, a) /\ Loaded(seen, b) /\ seen.cur[a] \in AccountState
  BY <1>2, SetValidateExactBalanceType, SMT DEF Loaded, SameReads
<1> HIDE DEF seen
<1>4. bal \in Int
  BY <1>3, RecentType, BalanceType
<1> HIDE DEF bal
<1>5. Ok(paid) /\ Loaded(paid, a)
  <2>1. CASE a # b
    BY <1>3, <1>4, <2>1, AddToBalanceType, SMT DEF Loaded, SameReads
  <2>2. CASE a = b
    BY <1>3, <2>2
  <2> QED
    BY <2>1, <2>2
<1> HIDE DEF paid
<1>6. Ok(sub) /\ sub.cur[a] \in AccountState
  BY <1>4, <1>5, SubtractFromBalanceType, SMT DEF SameReads
<1> HIDE DEF sub
<1>7. Ok(moved) /\ moved.cur[a] \in AccountState
  BY <1>3, <1>6
<1> HIDE DEF moved, cond
<1> DEFINE c == [moved.cur[a] EXCEPT !.destructed = TRUE]
<1>8. c \in AccountState
  BY <1>7 DEF AccountState
<1>9. SelfDestruct(s, a, b) = [moved EXCEPT !.cur[a] = c]
  BY <1>1
<1>10. Loaded(moved, a)
  BY <1>7 DEF Loaded, SameReads
<1> HIDE DEF c
<1> QED
  BY <1>7, <1>8, <1>9, <1>10, SetCurrent, SMT DEF SameReads

LEMMA DestructType ==
    ASSUME NEW s, WellFormed(s)
    PROVE  LET t == Destruct(s)
           IN  /\ WellFormed(t) /\ SameReads(s, t) /\ t.out = s.out
               /\ \A a \in Addr : t.cur[a] # Absent <=> s.cur[a] # Absent
<1> DEFINE gone(c) ==
             \/ /\ c.destructed
                /\ ~Cancun \/ (c.acct # NoAccount /\ c.acct.inc = s.inc)
             \/ c.touched /\ IsDead(c.acct)
           d == [a \in Addr |-> IF s.cur[a] # Absent /\ gone(s.cur[a])
                                THEN [s.cur[a] EXCEPT !.acct = NoAccount]
                                ELSE s.cur[a]]
<1>1. Destruct(s) = [s EXCEPT !.cur = d]
  BY DEF Destruct
<1>2. \A a \in Addr : \/ d[a] = s.cur[a]
                      \/ s.cur[a] # Absent /\ d[a] = [s.cur[a] EXCEPT !.acct = NoAccount]
  <2> HIDE DEF gone
  <2> QED OBVIOUS
<1>3. DOMAIN d = Addr /\ d = [a \in Addr |-> d[a]]
  OBVIOUS
<1> HIDE DEF d
<1>4. \A a \in Addr : /\ d[a] \in AccountState \union {Absent}
                      /\ d[a] # Absent <=> s.cur[a] # Absent
  <2> TAKE a \in Addr
  <2>1. s.cur[a] \in AccountState \union {Absent}
    BY DEF WellFormed, State
  <2>2. CASE d[a] = s.cur[a]
    BY <2>1, <2>2
  <2>3. CASE s.cur[a] # Absent /\ d[a] = [s.cur[a] EXCEPT !.acct = NoAccount]
    <3>1. d[a] \in AccountState
      BY <2>1, <2>3 DEF AccountState
    <3> QED
      BY <2>3, <3>1, MapAssumption
  <2> QED
    BY <1>2, <2>2, <2>3
<1>5. d \in [Addr -> AccountState \union {Absent}]
  BY <1>3, <1>4
<1> QED
  BY <1>1, <1>4, <1>5 DEF WellFormed, SameReads, State

-----------------------------------------------------------------------------
(* The steps of a transaction.                                             *)

\* Transaction tx runs in an execution of a block.
IsTx(tx) == tx \in Transaction /\ Target(tx) \in Addr

\* An operation of execute_impl2 on s that leaves t.
Keeps(s, t) == WellFormed(t) /\ SameReads(s, t)

LEMMA KeepsOut ==
    ASSUME NEW s, WellFormed(s), NEW o \in Outcome
    PROVE  Keeps(s, End(s, o))
BY DEF Keeps, WellFormed, SameReads, State, End

LEMMA KeepsLoaded ==
    ASSUME NEW s, NEW t, Keeps(s, t), NEW a, Loaded(s, a)
    PROVE  Loaded(t, a)
BY DEF Keeps, SameReads, Loaded

LEMMA KeepsTrans ==
    ASSUME NEW s, NEW t, NEW u, Keeps(s, t), Keeps(t, u)
    PROVE  Keeps(s, u)
BY DEF Keeps, SameReads

\* The operations of State that read nothing, one after another: what holds
\* from s to t holds from s to the state after the next operation.
LEMMA Chain ==
    ASSUME NEW s, NEW t, Keeps(s, t), NEW a, Loaded(s, a)
    PROVE  /\ Keeps(s, Access(t, a))
           /\ Keeps(s, SetValidateExactBalance(t, a))
           /\ Keeps(s, CreateContract(t, a))
           /\ Keeps(s, SetCode(t, a))
<1>1. WellFormed(t) /\ Loaded(t, a)
  BY KeepsLoaded DEF Keeps
<1>2. Keeps(t, Access(t, a))
  BY <1>1, AccessType DEF Keeps
<1>3. Keeps(t, SetValidateExactBalance(t, a))
  BY <1>1, SetValidateExactBalanceType DEF Keeps
<1>4. Keeps(t, CreateContract(t, a))
  BY <1>1, CreateContractType DEF Keeps
<1>5. Keeps(t, SetCode(t, a))
  BY <1>1, SetCodeType DEF Keeps
<1> QED
  BY <1>2, <1>3, <1>4, <1>5, KeepsTrans

LEMMA ChainBalance ==
    ASSUME NEW s, NEW t, Keeps(s, t), NEW a, Loaded(s, a), NEW v \in Int
    PROVE  /\ Keeps(s, AddToBalance(t, a, v))
           /\ Keeps(s, SubtractFromBalance(t, a, v))
           /\ Keeps(s, RecordDebit(t, a, v))
           /\ \A b : Loaded(s, b) => Keeps(s, Transfer(t, a, b, v))
<1>1. WellFormed(t) /\ Loaded(t, a)
  BY KeepsLoaded DEF Keeps
<1>2. Keeps(t, AddToBalance(t, a, v))
  BY <1>1, AddToBalanceType DEF Keeps
<1>3. Keeps(t, SubtractFromBalance(t, a, v))
  BY <1>1, SubtractFromBalanceType DEF Keeps
<1>4. Keeps(t, RecordDebit(t, a, v))
  BY <1>1, RecordDebitType DEF Keeps
<1>5. ASSUME NEW b, Loaded(s, b) PROVE Keeps(t, Transfer(t, a, b, v))
  BY <1>1, <1>5, KeepsLoaded, TransferType DEF Keeps
<1> QED
  BY <1>2, <1>3, <1>4, <1>5, KeepsTrans

LEMMA ChainNonce ==
    ASSUME NEW s, NEW t, Keeps(s, t), NEW a, Loaded(s, a), NEW n \in Nat
    PROVE  Keeps(s, SetNonce(t, a, n)) /\ Keeps(s, SetOriginalNonce(t, a, n))
<1>1. WellFormed(t) /\ Loaded(t, a)
  BY KeepsLoaded DEF Keeps
<1>2. Keeps(t, SetNonce(t, a, n))
  BY <1>1, SetNonceType DEF Keeps
<1>3. Keeps(t, SetOriginalNonce(t, a, n))
  BY <1>1, SetOriginalNonceType DEF Keeps
<1> QED
  BY <1>2, <1>3, KeepsTrans

LEMMA ChainFrame ==
    ASSUME NEW s, NEW t, Keeps(s, t)
    PROVE  Keeps(s, Push(t)) /\ Keeps(s, PopReject(t)) /\ Keeps(s, Destruct(t))
<1>1. WellFormed(t)
  BY DEF Keeps
<1>2. Keeps(t, Push(t))
  BY <1>1, PushType DEF Keeps
<1>3. Keeps(t, PopReject(t))
  BY <1>1, PopRejectType DEF Keeps
<1>4. Keeps(t, Destruct(t))
  BY <1>1, DestructType DEF Keeps
<1> QED
  BY <1>2, <1>3, <1>4, KeepsTrans

LEMMA ChainOut ==
    ASSUME NEW s, NEW t, Keeps(s, t)
    PROVE  /\ Keeps(s, End(t, "ok"))
           /\ Keeps(s, End(t, "fail"))
           /\ Keeps(s, End(t, "err"))
<1>1. WellFormed(t)
  BY DEF Keeps
<1>2. Keeps(t, End(t, "ok"))
  BY <1>1, KeepsOut DEF Outcome
<1>3. Keeps(t, End(t, "fail"))
  BY <1>1, KeepsOut DEF Outcome
<1>4. Keeps(t, End(t, "err"))
  BY <1>1, KeepsOut DEF Outcome
<1> QED
  BY <1>2, <1>3, <1>4, KeepsTrans

LEMMA KeepsSelf == ASSUME NEW s, WellFormed(s) PROVE Keeps(s, s)
BY DEF Keeps, SameReads

LEMMA WrapType == ASSUME NEW x \in Int PROVE Wrap(x) \in Word
BY WordAssumption, SMT DEF Wrap, Word

LEMMA GetStorageType ==
    ASSUME NEW s, WellFormed(s), NEW a, Loaded(s, a), NEW k \in Key,
           ~GetMisses(s, a, k)
    PROVE  GetStorage(s, a, k) \in Word
<1>1. /\ Recent(s, a).storage[k] \in Word \union {Absent}
      /\ s.orig[a].storage[k] \in Word \union {Absent}
  <2>1. s.orig[a] \in Original
    BY DEF WellFormed, Loaded, State
  <2> QED
    BY <2>1, RecentType, SMT DEF AccountState, Original
<1>2. 0 \in Word
  BY WordAssumption, SMT DEF Word
<1> QED
  BY <1>1, <1>2 DEF GetStorage, GetMisses

\* One step of a transaction whose accounts and slots are loaded: it keeps the
\* State well formed, and the last one ends the execution.
LEMMA StepOfType ==
    \A state, trx : \A step \in 1 .. LastStep(trx), spec \in BOOLEAN :
        /\ WellFormed(state) /\ IsTx(trx)
        /\ \A a \in AccountsOf(trx, step) : Loaded(state, a)
        /\ SlotsOf(state, trx, step) = {}
        => /\ Keeps(state, StepOf(state, trx, step, spec))
           /\ step = LastStep(trx) => StepOf(state, trx, step, spec).out = "ok"
<1>ValidateType. ASSUME NEW s, WellFormed(s), NEW tx, IsTx(tx), Loaded(s, tx.from),
             NEW first \in BOOLEAN
      PROVE  Keeps(s, Validate(s, tx, first))
  <2> USE <1>ValidateType
  <2> DEFINE u == IF first THEN SetOriginalNonce(s, tx.from, tx.nonce) ELSE s
             v == SetValidateExactBalance(u, tx.from)
  <2>0. tx.nonce \in Nat
    BY DEF IsTx, Transaction
  <2>1. Keeps(s, u)
    BY <2>0, KeepsSelf, ChainNonce
  <2> HIDE DEF u
  <2>2. Keeps(s, v)
    BY <2>1, Chain
  <2>3. \/ Validate(s, tx, first) = v
        \/ Validate(s, tx, first) = End(v, "err")
    BY DEF Validate, u
  <2> HIDE DEF v
  <2> QED
    BY <2>2, <2>3, ChainOut
<1>ChargeType. ASSUME NEW s, WellFormed(s), NEW tx, IsTx(tx), Loaded(s, tx.from),
             Loaded(s, Beneficiary), tx.to # Absent => Loaded(s, tx.to)
      PROVE  Keeps(s, Charge(s, tx))
  <2> USE <1>ChargeType
  <2> DEFINE n == Nonce(RecentAccount(s, tx.from)) + 1
             s1 == IF tx.to = Absent THEN s ELSE SetNonce(s, tx.from, n)
             s2 == SubtractFromBalance(s1, tx.from, Fee)
             s3 == Access(s2, Beneficiary)
             s4 == Access(s3, tx.from)
             s5 == IF tx.to = Absent THEN s4 ELSE Access(s4, tx.to)
  <2>0. Charge(s, tx) = s5
    BY DEF Charge
  <2>1. n \in Nat
    BY RecentType, BalanceType, SMT
  <2> HIDE DEF n
  <2>2. Keeps(s, s1)
    BY <2>1, KeepsSelf, ChainNonce
  <2> HIDE DEF s1
  <2>3. Keeps(s, s2)
    BY <2>2, ChainBalance, RunAssumption, SMT
  <2> HIDE DEF s2
  <2>4. Keeps(s, s3)
    BY <2>3, Chain
  <2> HIDE DEF s3
  <2>5. Keeps(s, s4)
    BY <2>4, Chain
  <2> HIDE DEF s4
  <2>6. Keeps(s, s5)
    BY <2>5, Chain
  <2> QED
    BY <2>0, <2>6
<1>EnterCallType. ASSUME NEW s, WellFormed(s), NEW tx, IsTx(tx), Loaded(s, tx.from),
             Loaded(s, tx.to)
      PROVE  Keeps(s, EnterCall(s, tx))
  <2> USE <1>EnterCallType
  <2> DEFINE s0 == Push(s)
             s1 == RecordDebit(s0, tx.from, tx.value)
             s2 == Transfer(s1, tx.from, tx.to, tx.value)
             s3 == PopReject(s1)
  <2>0. tx.value \in Int
    BY SMT DEF IsTx, Transaction
  <2>1. \/ EnterCall(s, tx) = End(s3, "fail")
        \/ EnterCall(s, tx) = s2
        \/ EnterCall(s, tx) = End(s2, "ok")
    BY DEF EnterCall
  <2>2. Keeps(s, s0)
    BY KeepsSelf, ChainFrame
  <2> HIDE DEF s0
  <2>3. Keeps(s, s1)
    BY <2>0, <2>2, ChainBalance
  <2> HIDE DEF s1
  <2>4. Keeps(s, s2)
    BY <2>0, <2>3, ChainBalance
  <2>5. Keeps(s, s3)
    BY <2>3, ChainFrame
  <2> HIDE DEF s2, s3
  <2> QED
    BY <2>1, <2>4, <2>5, ChainOut
<1>EnterCreateType. ASSUME NEW s, WellFormed(s), NEW tx, IsTx(tx), Loaded(s, tx.from),
             Loaded(s, Target(tx))
      PROVE  Keeps(s, EnterCreate(s, tx))
  <2> USE <1>EnterCreateType
  <2> DEFINE new == Target(tx)
             s1 == RecordDebit(s, tx.from, tx.value)
             n == Nonce(RecentAccount(s1, tx.from)) + 1
             s2 == SetNonce(s1, tx.from, n)
             s3 == Access(s2, new)
             s4 == Push(s3)
             s5 == CreateContract(s4, new)
             s6 == SetNonce(s5, new, 1)
             s7 == Transfer(s6, tx.from, new, tx.value)
  <2>0. tx.value \in Int
    BY SMT DEF IsTx, Transaction
  <2>1. \/ EnterCreate(s, tx) = End(s2, "fail")
        \/ EnterCreate(s, tx) = End(s3, "fail")
        \/ EnterCreate(s, tx) = s7
    BY DEF EnterCreate
  <2>2. Keeps(s, s1)
    BY <2>0, KeepsSelf, ChainBalance
  <2> HIDE DEF s1
  <2>3. n \in Nat
    BY <2>2, KeepsLoaded, RecentType, BalanceType, SMT DEF Keeps
  <2> HIDE DEF n
  <2>4. Keeps(s, s2)
    BY <2>2, <2>3, ChainNonce
  <2> HIDE DEF s2
  <2>5. Keeps(s, s3)
    BY <2>4, Chain
  <2> HIDE DEF s3
  <2>6. Keeps(s, s4)
    BY <2>5, ChainFrame
  <2> HIDE DEF s4
  <2>7. Keeps(s, s5)
    BY <2>6, Chain
  <2> HIDE DEF s5
  <2>8. Keeps(s, s6)
    BY <2>7, ChainNonce
  <2> HIDE DEF s6
  <2>9. Keeps(s, s7)
    BY <2>0, <2>8, ChainBalance
  <2> HIDE DEF s7
  <2> QED
    BY <2>1, <2>4, <2>5, <2>9, ChainOut
<1>LeaveType. ASSUME NEW s, WellFormed(s), NEW tx, IsTx(tx), Loaded(s, Target(tx))
      PROVE  Keeps(s, Leave(s, tx))
  <2> USE <1>LeaveType
  <2> DEFINE t == IF tx.to = Absent THEN SetCode(s, Target(tx)) ELSE s
  <2>1. Keeps(s, t)
    BY KeepsSelf, Chain
  <2>2. Leave(s, tx) = End(t, "ok")
    BY DEF Leave
  <2> HIDE DEF t
  <2> QED
    BY <2>1, <2>2, ChainOut
<1>RunOpType. ASSUME NEW s, WellFormed(s), NEW op \in Op, NEW self, Loaded(s, self),
             op.op \in {"sbal", "sdead", "pay", "kill"} => Loaded(s, op.a),
             op.op = "sadd" => ~GetMisses(s, self, op.k)
      PROVE  Keeps(s, RunOp(s, op, self))
  <2> USE <1>RunOpType
  <2>0. op.k \in Key /\ op.n \in Int
        /\ op.op \in {"sadd", "sbal", "sdead", "pay", "kill", "revert"}
    BY SMT DEF Op
  <2>1. CASE op.op = "sadd"
    <3> DEFINE w == Wrap(GetStorage(s, self, op.k) + op.n)
    <3>1. w \in Word
      BY <2>0, <2>1, GetStorageType, WrapType, SMT DEF Word
    <3>2. RunOp(s, op, self) = SetStorage(s, self, op.k, w)
      BY <2>1 DEF RunOp
    <3> HIDE DEF w
    <3> QED
      BY <2>0, <3>1, <3>2, SetStorageType DEF Keeps
  <2>2. CASE op.op = "sbal"
    <3> DEFINE w == Wrap(Balance(RecentAccount(s, op.a)))
               t == SetValidateExactBalance(s, op.a)
    <3>1. w \in Word
      BY <2>2, RecentType, BalanceType, WrapType
    <3>2. RunOp(s, op, self) = SetStorage(t, self, op.k, w)
      BY <2>2 DEF RunOp
    <3>3. Keeps(s, t)
      BY <2>2, KeepsSelf, Chain
    <3> HIDE DEF w, t
    <3>4. Keeps(t, SetStorage(t, self, op.k, w))
      BY <2>0, <3>1, <3>3, KeepsLoaded, SetStorageType DEF Keeps
    <3> QED
      BY <3>2, <3>3, <3>4, KeepsTrans
  <2>3. CASE op.op = "sdead"
    <3> DEFINE w == IF IsDead(RecentAccount(s, op.a)) THEN 1 ELSE 0
    <3>1. w \in Word
      BY WordAssumption, SMT DEF Word
    <3>2. RunOp(s, op, self) = SetStorage(s, self, op.k, w)
      BY <2>3 DEF RunOp
    <3> HIDE DEF w
    <3> QED
      BY <2>0, <3>1, <3>2, SetStorageType DEF Keeps
  <2>4. CASE op.op = "pay"
    <3> DEFINE t == RecordDebit(s, self, op.n)
    <3>1. Keeps(s, t)
      BY <2>0, KeepsSelf, ChainBalance
    <3>2. \/ RunOp(s, op, self) = Transfer(t, self, op.a, op.n)
          \/ RunOp(s, op, self) = t
      BY <2>4 DEF RunOp
    <3> HIDE DEF t
    <3> QED
      BY <2>0, <2>4, <3>1, <3>2, ChainBalance
  <2>5. CASE op.op = "kill"
    <3>1. Keeps(s, SelfDestruct(s, self, op.a))
      BY <2>5, SelfDestructType DEF Keeps
    <3>2. RunOp(s, op, self) = End(SelfDestruct(s, self, op.a), "ok")
      BY <2>5 DEF RunOp
    <3> QED
      BY <3>1, <3>2, ChainOut
  <2>6. CASE op.op = "revert"
    <3>1. RunOp(s, op, self) = End(PopReject(s), "fail")
      BY <2>6 DEF RunOp
    <3> QED
      BY <3>1, KeepsSelf, ChainFrame, ChainOut
  <2> QED
    BY <2>0, <2>1, <2>2, <2>3, <2>4, <2>5, <2>6
<1> SUFFICES ASSUME NEW state, NEW trx, NEW step \in 1 .. LastStep(trx),
                     NEW spec \in BOOLEAN, WellFormed(state), IsTx(trx),
                     \A a \in AccountsOf(trx, step) : Loaded(state, a),
                     SlotsOf(state, trx, step) = {}
             PROVE  /\ Keeps(state, StepOf(state, trx, step, spec))
                    /\ step = LastStep(trx) => StepOf(state, trx, step, spec).out = "ok"
  BY SMT
<1>0. trx.code \in Seq(Op) /\ Len(trx.code) \in Nat /\ LastStep(trx) \in Nat /\ LastStep(trx) >= 4
      /\ trx.to \in Addr \union {Absent}
  BY SMT DEF IsTx, Transaction, LastStep
<1>1. CASE step = 1
  BY <1>0, <1>1, <1>ValidateType, SMT DEF StepOf, AccountsOf
<1>2. CASE step = 2
  BY <1>0, <1>2, <1>ChargeType, SMT DEF StepOf, AccountsOf
<1>3. CASE step = 3
  <2>1. Loaded(state, trx.from) /\ Loaded(state, Target(trx))
    BY <1>0, <1>3, SMT DEF AccountsOf
  <2>2. CASE trx.to = Absent
    BY <1>0, <1>3, <2>1, <2>2, <1>EnterCreateType, SMT DEF StepOf
  <2>3. CASE trx.to # Absent
    <3>1. Target(trx) = trx.to
      BY <2>3 DEF Target
    <3> QED
      BY <1>0, <1>3, <2>1, <2>3, <3>1, <1>EnterCallType, SMT DEF StepOf
  <2> QED
    BY <2>2, <2>3
<1>4. CASE step = LastStep(trx)
  <2>1. StepOf(state, trx, step, spec) = Leave(state, trx)
    BY <1>0, <1>4, SMT DEF StepOf
  <2>2. Loaded(state, Target(trx))
    BY <1>0, <1>4, SMT DEF AccountsOf
  <2>3. Keeps(state, Leave(state, trx))
    BY <2>2, <1>LeaveType
  <2>4. Leave(state, trx).out = "ok"
    <3> DEFINE t == IF trx.to = Absent THEN SetCode(state, Target(trx)) ELSE state
    <3>1. Keeps(state, t)
      BY <2>2, KeepsSelf, Chain
    <3>2. Leave(state, trx) = End(t, "ok")
      BY DEF Leave
    <3> HIDE DEF t
    <3> QED
      BY <3>1, <3>2 DEF Keeps, WellFormed, State, End
  <2> QED
    BY <2>1, <2>3, <2>4
<1>5. CASE step \in 4 .. LastStep(trx) - 1
  <2> DEFINE op == trx.code[step - 3]
  <2>1. op \in Op
    BY <1>0, <1>5, SMT DEF LastStep
  <2>2. StepOf(state, trx, step, spec) = RunOp(state, op, Target(trx))
    BY <1>0, <1>5, SMT DEF StepOf
  <2>3. Loaded(state, Target(trx))
        /\ (op.op \in {"sbal", "sdead", "pay", "kill"} => Loaded(state, op.a))
    BY <1>0, <1>5, SMT DEF AccountsOf
  <2>4. op.op = "sadd" => ~GetMisses(state, Target(trx), op.k)
    BY <1>0, <1>5 DEF SlotsOf
  <2> HIDE DEF op
  <2> QED
    BY <1>0, <1>5, <2>1, <2>2, <2>3, <2>4, <1>RunOpType, SMT
<1> QED
  BY <1>0, <1>1, <1>2, <1>3, <1>4, <1>5, SMT

-----------------------------------------------------------------------------
(* How an execution stands after the operations of validation and payment. *)

LEMMA SameOut ==
    ASSUME NEW s, NEW t, Keeps(s, t), NEW a, Loaded(s, a)
    PROVE  /\ Access(t, a).out = t.out
           /\ SetValidateExactBalance(t, a).out = t.out
           /\ \A n \in Nat : SetNonce(t, a, n).out = t.out
           /\ \A n \in Nat : SetOriginalNonce(t, a, n).out = t.out
           /\ \A v \in Int : AddToBalance(t, a, v).out = t.out
           /\ \A v \in Int : SubtractFromBalance(t, a, v).out = t.out
           /\ Destruct(t).out = t.out
<1>1. WellFormed(t) /\ Loaded(t, a)
  BY KeepsLoaded DEF Keeps
<1>2. Access(t, a).out = t.out
  BY <1>1, AccessType
<1>3. SetValidateExactBalance(t, a).out = t.out
  BY <1>1, SetValidateExactBalanceType
<1>4. ASSUME NEW n \in Nat
      PROVE  SetNonce(t, a, n).out = t.out /\ SetOriginalNonce(t, a, n).out = t.out
  BY <1>1, SetNonceType, SetOriginalNonceType
<1>5. ASSUME NEW v \in Int
      PROVE  AddToBalance(t, a, v).out = t.out /\ SubtractFromBalance(t, a, v).out = t.out
  BY <1>1, AddToBalanceType, SubtractFromBalanceType
<1>6. Destruct(t).out = t.out
  BY <1>1, DestructType
<1> QED
  BY <1>2, <1>3, <1>4, <1>5, <1>6

LEMMA EndOut ==
    ASSUME NEW t, WellFormed(t), NEW o
    PROVE  End(t, o).out = o
BY DEF WellFormed, State, End

LEMMA ValidateOut ==
    ASSUME NEW s, WellFormed(s), NEW tx, IsTx(tx), Loaded(s, tx.from),
           NEW first \in BOOLEAN, s.out = "running"
    PROVE  Validate(s, tx, first).out \in {"running", "err"}
<1> DEFINE u == IF first THEN SetOriginalNonce(s, tx.from, tx.nonce) ELSE s
           v == SetValidateExactBalance(u, tx.from)
<1>0. tx.nonce \in Nat
  BY DEF IsTx, Transaction
<1>1. Keeps(s, u) /\ u.out = "running"
  BY <1>0, KeepsSelf, ChainNonce, SameOut, SMT
<1> HIDE DEF u
<1>2. Keeps(s, v)
  BY <1>1, Chain
<1>3. v.out = u.out
  BY <1>1, SameOut, SMT
<1>4. Validate(s, tx, first) = v \/ Validate(s, tx, first) = End(v, "err")
  BY DEF Validate, u
<1> HIDE DEF v
<1> QED
  BY <1>1, <1>2, <1>3, <1>4, EndOut, SMT DEF Keeps

LEMMA ChargeOut ==
    ASSUME NEW s, WellFormed(s), NEW tx, IsTx(tx), Loaded(s, tx.from),
           Loaded(s, Beneficiary), tx.to # Absent => Loaded(s, tx.to)
    PROVE  Charge(s, tx).out = s.out
<1> DEFINE n == Nonce(RecentAccount(s, tx.from)) + 1
           s1 == IF tx.to = Absent THEN s ELSE SetNonce(s, tx.from, n)
           s2 == SubtractFromBalance(s1, tx.from, Fee)
           s3 == Access(s2, Beneficiary)
           s4 == Access(s3, tx.from)
           s5 == IF tx.to = Absent THEN s4 ELSE Access(s4, tx.to)
<1>0. Charge(s, tx) = s5
  BY DEF Charge
<1>1. n \in Nat
  BY RecentType, BalanceType, SMT
<1> HIDE DEF n
<1>2. Keeps(s, s1) /\ s1.out = s.out
  BY <1>1, KeepsSelf, ChainNonce, SameOut, SMT
<1> HIDE DEF s1
<1>3. Keeps(s, s2) /\ s2.out = s.out
  BY <1>2, ChainBalance, SameOut, RunAssumption, SMT
<1> HIDE DEF s2
<1>4. Keeps(s, s3) /\ s3.out = s.out
  BY <1>3, Chain, SameOut, SMT
<1> HIDE DEF s3
<1>5. Keeps(s, s4) /\ s4.out = s.out
  BY <1>4, Chain, SameOut, SMT
<1> HIDE DEF s4
<1>6. s5.out = s.out
  BY <1>5, SameOut, SMT
<1> QED
  BY <1>0, <1>6, SMT

LEMMA ExecuteFinalType ==
    ASSUME NEW s, WellFormed(s), NEW tx, Loaded(s, tx.from), Loaded(s, Beneficiary)
    PROVE  Keeps(s, ExecuteFinal(s, tx)) /\ ExecuteFinal(s, tx).out = s.out
<1> DEFINE s1 == AddToBalance(s, tx.from, 0)
           s2 == AddToBalance(s1, Beneficiary, Fee)
<1>0. ExecuteFinal(s, tx) = Destruct(s2)
  BY DEF ExecuteFinal
<1>1. Keeps(s, s1) /\ s1.out = s.out
  BY KeepsSelf, ChainBalance, SameOut, SMT
<1> HIDE DEF s1
<1>2. Keeps(s, s2) /\ s2.out = s.out
  BY <1>1, ChainBalance, SameOut, RunAssumption, SMT
<1> HIDE DEF s2
<1> QED
  BY <1>0, <1>2, ChainFrame, SameOut

-----------------------------------------------------------------------------
(* The block state.                                                        *)

Shared == [Addr -> Delta \union {Absent}]

Known(b) == {a \in Addr : b[a] # Absent}

LEMMA EmplaceAccountType ==
    ASSUME NEW b \in Shared, NEW a \in Addr, NEW x \in Account \union {NoAccount}
    PROVE  LET c == EmplaceAccount(b, a, x)
           IN  c \in Shared /\ Known(c) = Known(b) \union {a}
<1> DEFINE d == [first |-> x, second |-> x, storage |-> NoSlots]
<1>1. d \in Delta
  BY DEF Delta, NoSlots
<1>2. EmplaceAccount(b, a, x) = IF b[a] # Absent THEN b ELSE [b EXCEPT ![a] = d]
  BY DEF EmplaceAccount
<1> HIDE DEF d
<1> QED
  BY <1>1, <1>2, DeltaAssumption DEF Shared, Known

\* Replacing the delta of a known address.
LEMMA SetDelta ==
    ASSUME NEW b \in Shared, NEW a \in Known(b), NEW d \in Delta
    PROVE  LET c == [b EXCEPT ![a] = d]
           IN  c \in Shared /\ Known(c) = Known(b)
BY DeltaAssumption DEF Shared, Known

LEMMA FindStorageType ==
    ASSUME NEW b \in Shared, NEW a \in Known(b), NEW k \in Key, NEW inc
    PROVE  /\ FindStorage(b, a, inc, k).word \in Word
           /\ FindStorage(b, a, inc, k).db \in BOOLEAN
<1>1. 0 \in Word
  BY WordAssumption, SMT DEF Word
<1>2. b[a].storage[k] # Absent => b[a].storage[k].second \in Word
  BY DEF Shared, Known, Delta
<1>3. FindStorage(b, a, inc, k).word \in Word
  BY <1>1, <1>2 DEF FindStorage
<1>4. FindStorage(b, a, inc, k).db \in BOOLEAN
  BY DEF FindStorage
<1> QED
  BY <1>3, <1>4

LEMMA EmplaceStorageType ==
    ASSUME NEW b \in Shared, NEW a \in Known(b), NEW inc, NEW k \in Key,
           NEW w \in Word
    PROVE  /\ EmplaceStorage(b, a, inc, k, w) \in Shared
           /\ Known(EmplaceStorage(b, a, inc, k, w)) = Known(b)
           /\ \A c \in Shared : a \in Known(c) =>
                 EmplacedWord(c, a, inc, k, w) \in Word
<1> DEFINE p == [first |-> w, second |-> w]
           d == [b[a] EXCEPT !.storage[k] = p]
<1>1. b[a] \in Delta
  BY DEF Shared, Known
<1>2. p \in [first : Word, second : Word]
  OBVIOUS
<1>3. EmplaceStorage(b, a, inc, k, w) = b
      \/ EmplaceStorage(b, a, inc, k, w) = [b EXCEPT ![a] = d]
  BY DEF EmplaceStorage
<1> HIDE DEF p
<1>4. d \in Delta
  BY <1>1, <1>2 DEF Delta
<1> HIDE DEF d
<1>5. ASSUME NEW c \in Shared, a \in Known(c)
      PROVE  EmplacedWord(c, a, inc, k, w) \in Word
  <2>1. c[a].storage[k] # Absent => c[a].storage[k].second \in Word
    BY <1>5 DEF Shared, Known, Delta
  <2> QED
    BY <2>1 DEF EmplacedWord
<1> QED
  BY <1>3, <1>4, <1>5, SetDelta

LEMMA MergeAccountType ==
    ASSUME NEW b \in Shared, NEW a \in Known(b), NEW as \in AccountState
    PROVE  LET c == MergeAccount(b, a, as)
           IN  c \in Shared /\ Known(c) = Known(b)
<1> DEFINE merged(k) ==
             IF as.storage[k] = Absent THEN b[a].storage[k]
             ELSE IF b[a].storage[k] # Absent
                  THEN [b[a].storage[k] EXCEPT !.second = as.storage[k]]
                  ELSE [first |-> 0, second |-> as.storage[k]]
           slots == IF as.acct # NoAccount THEN [k \in Key |-> merged(k)] ELSE NoSlots
           d == [b[a] EXCEPT !.second = as.acct, !.storage = slots]
<1>1. b[a] \in Delta
  BY DEF Shared, Known
<1>2. ASSUME NEW k \in Key
      PROVE  merged(k) \in [first : Word, second : Word] \union {Absent}
  <2>1. as.storage[k] \in Word \union {Absent}
    BY DEF AccountState
  <2>2. b[a].storage[k] \in [first : Word, second : Word] \union {Absent}
    BY <1>1 DEF Delta
  <2>3. 0 \in Word
    BY WordAssumption, SMT DEF Word
  <2> QED
    BY <2>1, <2>2, <2>3
<1>3. slots \in [Key -> [first : Word, second : Word] \union {Absent}]
  <2> HIDE DEF merged
  <2> QED
    BY <1>2 DEF NoSlots
<1>4. MergeAccount(b, a, as) = [b EXCEPT ![a] = d]
  BY <1>1 DEF MergeAccount
<1> HIDE DEF slots
<1>5. d \in Delta
  BY <1>1, <1>3 DEF Delta, AccountState
<1> HIDE DEF d, merged
<1>6. [b EXCEPT ![a] = d] \in Shared /\ Known([b EXCEPT ![a] = d]) = Known(b)
  BY <1>5, SetDelta
<1> QED
  BY <1>4, <1>6

LEMMA FixType ==
    ASSUME NEW o \in Original, o.acct \in Account, NEW x \in Account,
           NEW c \in AccountState \union {Absent}, c # Absent => c.acct \in Account
    PROVE  /\ FixOriginal(o, x) \in Original
           /\ FixCurrent(c, o, x) \in AccountState \union {Absent}
           /\ FixCurrent(c, o, x) # Absent <=> c # Absent
<1>1. FixOriginal(o, x) \in Original
  <2> DEFINE z == [o.acct EXCEPT !.balance = x.balance]
  <2>1. z \in Account
    BY DEF Account
  <2>2. FixOriginal(o, x) = [o EXCEPT !.acct = z, !.exact = TRUE]
    BY DEF FixOriginal
  <2> HIDE DEF z
  <2> QED
    BY <2>1, <2>2 DEF Original
<1>2. c # Absent => FixCurrent(c, o, x) \in AccountState
  <2> SUFFICES ASSUME c # Absent PROVE FixCurrent(c, o, x) \in AccountState
    OBVIOUS
  <2> DEFINE y == [c.acct EXCEPT !.balance = @ + (x.balance - o.acct.balance)]
  <2>1. y \in Account
    BY SMT DEF Account
  <2>2. FixCurrent(c, o, x) = [c EXCEPT !.acct = y]
    BY DEF FixCurrent
  <2> HIDE DEF y
  <2> QED
    BY <2>1, <2>2 DEF AccountState
<1>3. c = Absent => FixCurrent(c, o, x) = Absent
  BY DEF FixCurrent
<1> QED
  BY <1>1, <1>2, <1>3, MapAssumption

LEMMA FixedType ==
    ASSUME NEW b \in Shared, NEW s, WellFormed(s), NEW relaxed,
           \A a \in Addr : s.orig[a] # Absent => a \in Known(b),
           CanMerge(b, s, relaxed)
    PROVE  Keeps(s, Fixed(b, s)) /\ Fixed(b, s).out = s.out
<1> DEFINE fix(a) == s.orig[a] # Absent /\ s.orig[a].acct # b[a].second
           o == [a \in Addr |-> IF fix(a) THEN FixOriginal(s.orig[a], b[a].second)
                                          ELSE s.orig[a]]
           c == [a \in Addr |-> IF fix(a)
                                THEN FixCurrent(s.cur[a], s.orig[a], b[a].second)
                                ELSE s.cur[a]]
<1>1. s \in State /\ s.orig \in [Addr -> Original \union {Absent}]
      /\ s.cur \in [Addr -> AccountState \union {Absent}]
  BY DEF WellFormed, State
<1>2. ASSUME NEW a \in Addr, fix(a)
      PROVE  /\ o[a] \in Original
             /\ c[a] \in AccountState \union {Absent}
             /\ c[a] # Absent <=> s.cur[a] # Absent
  <2>1. s.orig[a] \in Original /\ b[a] \in Delta
    BY <1>1, <1>2 DEF Shared, Known
  <2>2. CanFix(s, a, b[a].second, relaxed)
    BY <1>2 DEF CanMerge, ReadSet, AccountMatches
  <2>3. s.orig[a].acct \in Account /\ b[a].second \in Account
    BY <2>1, <2>2 DEF CanFix, IsDead, Original, Delta
  <2>4. s.cur[a] # Absent => s.cur[a].acct \in Account
    BY <1>1, <2>2 DEF CanFix, RecentAccount, Recent, AccountState
  <2>5. o[a] = FixOriginal(s.orig[a], b[a].second)
        /\ c[a] = FixCurrent(s.cur[a], s.orig[a], b[a].second)
    BY <1>2
  <2> HIDE DEF o, c, fix
  <2> QED
    BY <1>1, <2>1, <2>3, <2>4, <2>5, FixType, SMT
<1>3. ASSUME NEW a \in Addr, ~fix(a)
      PROVE  o[a] = s.orig[a] /\ c[a] = s.cur[a]
  BY <1>3
<1>4. Fixed(b, s) = [s EXCEPT !.orig = o, !.cur = c]
  BY DEF Fixed
<1>5. o = [a \in Addr |-> o[a]] /\ c = [a \in Addr |-> c[a]]
  OBVIOUS
<1>6. \A a \in Addr : fix(a) => s.orig[a] # Absent
  OBVIOUS
<1> HIDE DEF o, c, fix
<1>7. /\ o \in [Addr -> Original \union {Absent}]
      /\ c \in [Addr -> AccountState \union {Absent}]
  BY <1>1, <1>2, <1>3, <1>5
<1>8. \A a \in Addr : /\ o[a] # Absent <=> s.orig[a] # Absent
                      /\ c[a] # Absent <=> s.cur[a] # Absent
  BY <1>2, <1>3, <1>6, MapAssumption
<1> QED
  BY <1>1, <1>4, <1>7, <1>8 DEF Keeps, WellFormed, SameReads, State

-----------------------------------------------------------------------------
(* The inductive invariant: TypeOK, and for every fiber                    *)
(*  - its State is well formed, and what it has read is in the block state;*)
(*  - what is left to merge was changed by it;                             *)
(*  - a running execution is at one of its steps, one that has come to an  *)
(*    outcome has been validated and charged, one that merges has one;     *)
(*  - a read in flight belongs to a running execution.                     *)

FiberOK(i) ==
    /\ WellFormed(st[i])
    /\ \A a \in Addr : st[i].orig[a] # Absent => bs[a] # Absent
    /\ \A a \in todo[i] : st[i].cur[a] # Absent
    /\ todo[i] # {} => pc[i] = "merge"
    /\ st[i].out = "running" => ip[i] \in 1 .. LastStep(block[i])
    /\ st[i].out \in {"ok", "fail"} => ip[i] >= 3
    /\ ip[i] >= 3 => Loaded(st[i], block[i].from) /\ Loaded(st[i], Beneficiary)
    /\ pc[i] = "merge" => st[i].out \in {"ok", "fail"}
    /\ io[i] # NoIo =>
         /\ pc[i] \in {"spec", "retry"}
         /\ st[i].out = "running"
         /\ io[i].a \in Addr
         /\ io[i].k # Absent => st[i].orig[io[i].a] # Absent

IInv == TypeOK /\ \A i \in Tx : FiberOK(i)

LEMMA TxFacts ==
    ASSUME TypeOK
    PROVE  /\ block \in Seq(Transaction)
           /\ Len(block) \in Nat
           /\ \A i \in Tx : IsTx(block[i]) /\ i \in Nat /\ i # 0 /\ i - 1 \in 0 .. Len(block)
BY BlocksAssumption, SMT DEF TypeOK, Tx, IsTx

LEMMA CodeFacts ==
    ASSUME NEW tx, IsTx(tx)
    PROVE  /\ tx.code \in Seq(Op) /\ Len(tx.code) \in Nat
           /\ LastStep(tx) = 4 + Len(tx.code)
           /\ LastStep(tx) \in Nat /\ LastStep(tx) >= 4
BY SMT DEF IsTx, Transaction, LastStep

LEMMA DbWord ==
    ASSUME NEW a \in Addr, NEW k \in Key
    PROVE  Db[a].storage[k] \in Word
BY DbAssumption

LEMMA InitIInv == Init => IInv
<1> SUFFICES ASSUME Init PROVE IInv
  OBVIOUS
<1>1. block \in Blocks /\ Len(block) \in Nat /\ \A i \in Tx : i \in Nat
  BY BlocksAssumption, SMT DEF Init, Tx
<1>2. bs \in [Addr -> Delta \union {Absent}]
  BY DEF Init, EmptyBlockState
<1>3. \A i \in Tx : WellFormed(FreshState(i)) /\ FreshState(i).out = "running"
  BY <1>1, FreshType
<1>4. st \in [Tx -> State]
  BY <1>3 DEF Init, WellFormed
<1>5. TypeOK
  <2>1. main \in Main /\ promise \subseteq 0 .. Len(block) /\ thrown \subseteq promise
    BY <1>1, SMT DEF Init, Main
  <2>4. lost \in BOOLEAN
    BY DEF Init
  <2>2. pc \in [Tx -> Pc] /\ ip \in [Tx -> Nat] /\ todo \in [Tx -> SUBSET Addr]
        /\ result \in [Tx -> {"none", "ok", "fail", "err"}]
    BY DEF Init, Pc
  <2>3. io \in [Tx -> [a : Addr \union {Absent}, k : Key \union {Absent}, db : BOOLEAN]]
    BY DEF Init, NoIo
  <2> QED
    BY <1>1, <1>2, <1>4, <2>1, <2>2, <2>3, <2>4 DEF TypeOK
<1>6. ASSUME NEW i \in Tx PROVE FiberOK(i)
  <2>1. /\ st[i] = FreshState(i) /\ ip[i] = 1 /\ pc[i] = "none" /\ io[i] = NoIo
        /\ todo[i] = {}
    BY DEF Init
  <2>2. \A a \in Addr : st[i].orig[a] = Absent
    BY <1>1, <2>1, FreshType
  <2>3. 1 \in 1 .. LastStep(block[i])
    BY <1>5, TxFacts, SMT DEF LastStep, IsTx, Transaction
  <2>4. st[i].out = "running"
    BY <1>3, <2>1
  <2> QED
    BY <1>3, <2>1, <2>2, <2>3, <2>4, SMT DEF FiberOK
<1> QED
  BY <1>5, <1>6 DEF IInv

-----------------------------------------------------------------------------
(* The calling thread, and the invariant of the specification.             *)

LEMMA AccountsType ==
    ASSUME NEW tx, IsTx(tx), NEW n \in 1 .. LastStep(tx)
    PROVE  AccountsOf(tx, n) \subseteq Addr
<1>0. /\ tx.code \in Seq(Op) /\ Len(tx.code) \in Nat /\ LastStep(tx) = 4 + Len(tx.code)
      /\ tx.to \in Addr \union {Absent} /\ tx.from \in Addr /\ Target(tx) \in Addr
      /\ Beneficiary \in Addr
  BY RunAssumption, SMT DEF IsTx, Transaction, LastStep
<1>1. CASE n \in {1, 2, 3, LastStep(tx)}
  BY <1>0, <1>1 DEF AccountsOf
<1>2. CASE n \in 4 .. LastStep(tx) - 1
  <2>1. tx.code[n - 3] \in Op
    BY <1>0, <1>2, SMT
  <2>2. tx.code[n - 3].a \in Addr
    BY <2>1 DEF Op
  <2> QED
    BY <1>0, <1>2, <2>2 DEF AccountsOf
<1> QED
  BY <1>0, <1>1, <1>2, SMT

\* The fibers are submitted after the header's State is merged.
HeaderFirst == main = "header" => \A i \in Tx : pc[i] = "none"

LEMMA NextIInv == IInv /\ HeaderFirst /\ [Next]_vars => IInv'
\* A step of fiber i that leaves the others alone and forgets no account.
<1>FiberStep. ASSUME IInv, TypeOK', NEW i \in Tx, block' = block,
             \A j \in Tx \ {i} : /\ st'[j] = st[j] /\ ip'[j] = ip[j] /\ pc'[j] = pc[j]
                                 /\ io'[j] = io[j] /\ todo'[j] = todo[j],
             \A a \in Addr : bs[a] # Absent => bs'[a] # Absent,
             FiberOK(i)'
      PROVE  IInv'
  <2> USE <1>FiberStep
  <2>1. Tx' = Tx
    BY DEF Tx
  <2>2. ASSUME NEW j \in Tx, j # i PROVE FiberOK(j)'
    <3>1. FiberOK(j)
      BY DEF IInv
    <3>2. /\ st'[j] = st[j] /\ ip'[j] = ip[j] /\ pc'[j] = pc[j]
          /\ io'[j] = io[j] /\ todo'[j] = todo[j]
      BY <2>2
    <3> QED
      BY <3>1, <3>2 DEF FiberOK, NoIo
  <2> QED
    BY <2>1, <2>2 DEF IInv
\* The same when only the State, the step and the read in flight of fiber i
\* change, and the block state.
<1>ExecutionStep. ASSUME IInv, NEW i \in Tx, NEW t \in State, NEW n \in Nat,
             NEW r \in [a : Addr \union {Absent}, k : Key \union {Absent}, db : BOOLEAN],
             st' = [st EXCEPT ![i] = t],
             ip' = [ip EXCEPT ![i] = n],
             io' = [io EXCEPT ![i] = r],
             bs' \in Shared,
             \A a \in Addr : bs[a] # Absent => bs'[a] # Absent,
             UNCHANGED <<block, main, lost, promise, thrown, pc, todo, result>>,
             FiberOK(i)'
      PROVE  IInv'
  <2> USE <1>ExecutionStep
  <2>1. TypeOK
    BY DEF IInv
  <2>2. TypeOK'
    <3>1. /\ st' \in [Tx -> State] /\ ip' \in [Tx -> Nat]
          /\ io' \in [Tx -> [a : Addr \union {Absent}, k : Key \union {Absent}, db : BOOLEAN]]
      BY <2>1 DEF TypeOK
    <3>2. /\ Tx' = Tx /\ block' \in Blocks /\ main' \in Main
          /\ promise' \subseteq 0 .. Len(block') /\ thrown' \subseteq promise'
          /\ pc' \in [Tx -> Pc] /\ todo' \in [Tx -> SUBSET Addr]
          /\ result' \in [Tx -> {"none", "ok", "fail", "err"}]
      BY <2>1 DEF TypeOK, Tx
    <3>3. lost' \in BOOLEAN
      BY <2>1 DEF TypeOK
    <3> QED
      BY <3>1, <3>2, <3>3 DEF TypeOK, Shared
  <2>3. \A j \in Tx \ {i} : /\ st'[j] = st[j] /\ ip'[j] = ip[j] /\ pc'[j] = pc[j]
                             /\ io'[j] = io[j] /\ todo'[j] = todo[j]
    BY <2>1 DEF TypeOK
  <2> QED
    BY <2>2, <2>3, <1>FiberStep
\* A read by fiber i: it may learn of an account, nothing else changes.
<1>ReadStep. ASSUME IInv, NEW i \in Tx, NEW t, WellFormed(t),
             t.out = st[i].out, t.cur = st[i].cur,
             \A a \in Addr : st[i].orig[a] # Absent => t.orig[a] # Absent,
             \A a \in Addr : t.orig[a] # Absent => bs'[a] # Absent,
             NEW r \in [a : Addr \union {Absent}, k : Key \union {Absent}, db : BOOLEAN],
             \/ r = NoIo
             \/ /\ pc[i] \in {"spec", "retry"} /\ st[i].out = "running" /\ r.a \in Addr
                /\ r.k # Absent => st[i].orig[r.a] # Absent,
             st' = [st EXCEPT ![i] = t],
             io' = [io EXCEPT ![i] = r],
             bs' \in Shared,
             \A a \in Addr : bs[a] # Absent => bs'[a] # Absent,
             UNCHANGED <<block, main, lost, promise, thrown, pc, ip, todo, result>>
      PROVE  IInv'
  <2> USE <1>ReadStep
  <2>0. TypeOK /\ FiberOK(i)
    BY DEF IInv
  <2>1. /\ st'[i] = t /\ io'[i] = r /\ ip'[i] = ip[i] /\ ip[i] \in Nat
        /\ ip' = [ip EXCEPT ![i] = ip[i]] /\ todo'[i] = todo[i] /\ todo[i] \subseteq Addr
    BY <2>0 DEF TypeOK
  <2>2. FiberOK(i)'
    <3>1. /\ \A a \in todo[i] : t.cur[a] # Absent
          /\ todo[i] # {} => pc[i] = "merge"
      BY <2>0 DEF FiberOK
    <3>2. /\ t.out = "running" => ip[i] \in 1 .. LastStep(block[i])
          /\ t.out \in {"ok", "fail"} => ip[i] >= 3
          /\ pc[i] = "merge" => t.out \in {"ok", "fail"}
      BY <2>0 DEF FiberOK
    <3>3. ip[i] >= 3 => Loaded(t, block[i].from) /\ Loaded(t, Beneficiary)
      BY <2>0 DEF FiberOK, Loaded
    <3>4. r # NoIo => /\ pc[i] \in {"spec", "retry"} /\ t.out = "running" /\ r.a \in Addr
                      /\ r.k # Absent => t.orig[r.a] # Absent
      OBVIOUS
    <3>5. NoIo' = NoIo /\ block' = block /\ pc'[i] = pc[i]
      BY DEF NoIo
    <3> QED
      BY <2>1, <3>1, <3>2, <3>3, <3>4, <3>5 DEF FiberOK
  <2>3. t \in State
    BY DEF WellFormed
  <2> QED
    BY <2>1, <2>2, <2>3, <1>ExecutionStep
<1>FindAccountIInv. ASSUME IInv, NEW i \in Tx, FindAccount(i)
      PROVE  IInv'
  <2> USE <1>FindAccountIInv
  <2>0. TypeOK /\ FiberOK(i) /\ WellFormed(st[i]) /\ bs \in Shared /\ bs' = bs
    BY DEF IInv, FiberOK, TypeOK, Shared, FindAccount
  <2>1. PICK a \in MissingAccounts(i) :
           IF bs[a] # Absent
           THEN st' = [st EXCEPT ![i] = Remember(@, a, bs[a].second)] /\ io' = io
           ELSE io' = [io EXCEPT ![i] = [a |-> a, k |-> Absent, db |-> TRUE]] /\ st' = st
    BY DEF FindAccount
  <2>2. a \in Addr
    <3>1. IsTx(block[i]) /\ ip[i] \in 1 .. LastStep(block[i])
      BY <2>0, TxFacts DEF FiberOK, FindAccount, Executing
    <3> QED
      BY <3>1, AccountsType DEF MissingAccounts
  <2>3. \A b \in Addr : st[i].orig[b] # Absent => bs[b] # Absent
    BY <2>0 DEF FiberOK
  <2>4. UNCHANGED <<block, main, lost, promise, thrown, pc, ip, todo, result>>
    BY DEF FindAccount
  <2>5. CASE bs[a] # Absent
    <3> DEFINE t == Remember(st[i], a, bs[a].second)
    <3>1. bs[a].second \in Account \union {NoAccount}
      BY <2>0, <2>2, <2>5 DEF Shared, Delta
    <3>2. /\ WellFormed(t) /\ t.out = st[i].out /\ t.cur = st[i].cur
          /\ \A b \in Addr : t.orig[b] # Absent <=> st[i].orig[b] # Absent \/ b = a
      BY <2>0, <2>2, <3>1, RememberType, SMT
    <3>3. st' = [st EXCEPT ![i] = t] /\ io' = [io EXCEPT ![i] = io[i]]
          /\ io[i] \in [a : Addr \union {Absent}, k : Key \union {Absent}, db : BOOLEAN]
          /\ io[i] = NoIo
      BY <2>0, <2>1, <2>5 DEF TypeOK, FindAccount, Executing
    <3> HIDE DEF t
    <3> QED
      BY <2>0, <2>3, <2>4, <2>5, <3>2, <3>3, <1>ReadStep
  <2>6. CASE bs[a] = Absent
    <3> DEFINE r == [a |-> a, k |-> Absent, db |-> TRUE]
    <3>1. /\ st' = [st EXCEPT ![i] = st[i]] /\ io' = [io EXCEPT ![i] = r]
          /\ pc[i] \in {"spec", "retry"} /\ st[i].out = "running"
      BY <2>0, <2>1, <2>6 DEF TypeOK, FindAccount, Executing
    <3>2. r \in [a : Addr \union {Absent}, k : Key \union {Absent}, db : BOOLEAN]
          /\ r.a \in Addr /\ r.k = Absent
      BY <2>2
    <3> HIDE DEF r
    <3> QED
      BY <2>0, <2>3, <2>4, <3>1, <3>2, <1>ReadStep
  <2> QED
    BY <2>5, <2>6
<1>LoadAccountIInv. ASSUME IInv, NEW i \in Tx, LoadAccount(i)
      PROVE  IInv'
  <2> USE <1>LoadAccountIInv
  <2>0. TypeOK /\ FiberOK(i) /\ WellFormed(st[i]) /\ bs \in Shared
    BY DEF IInv, FiberOK, TypeOK, Shared
  <2>a. PICK a : a = io[i].a
    OBVIOUS
  <2>t. PICK t : t = Remember(st[i], a, bs'[a].second)
    OBVIOUS
  <2>1. /\ io[i] # NoIo /\ bs' = EmplaceAccount(bs, a, Db[a].acct)
        /\ st' = [st EXCEPT ![i] = t] /\ io' = [io EXCEPT ![i] = NoIo]
    BY <2>a, <2>t DEF LoadAccount
  <2>u. UNCHANGED <<block, main, lost, promise, thrown, pc, ip, todo, result>>
    BY DEF LoadAccount
  <2>2. a \in Addr /\ Db[a].acct \in Account \union {NoAccount}
    BY <2>0, <2>1, <2>a, DbAssumption DEF FiberOK
  <2>3. bs' \in Shared /\ Known(bs') = Known(bs) \union {a}
    BY <2>0, <2>1, <2>2, EmplaceAccountType
  <2>4. bs'[a].second \in Account \union {NoAccount}
    BY <2>2, <2>3 DEF Shared, Known, Delta
  <2>5. /\ WellFormed(t) /\ t.out = st[i].out /\ t.cur = st[i].cur
        /\ \A b \in Addr : t.orig[b] # Absent <=> st[i].orig[b] # Absent \/ b = a
    BY <2>0, <2>2, <2>4, <2>t, RememberType, SMT
  <2>6. \A b \in Addr : t.orig[b] # Absent => bs'[b] # Absent
    BY <2>0, <2>3, <2>5 DEF FiberOK, Known
  <2>7. \A b \in Addr : bs[b] # Absent => bs'[b] # Absent
    BY <2>3 DEF Known
  <2>8. NoIo \in [a : Addr \union {Absent}, k : Key \union {Absent}, db : BOOLEAN]
    BY DEF NoIo
  <2> QED
    BY <2>1, <2>u, <2>3, <2>5, <2>6, <2>7, <2>8, <1>ReadStep
<1>FindSlotIInv. ASSUME IInv, NEW i \in Tx, FindSlot(i)
      PROVE  IInv'
  <2> USE <1>FindSlotIInv
  <2>a. PICK a, tx, n : a = Target(tx) /\ tx = block[i] /\ n = ip[i]
    OBVIOUS
  <2>0. TypeOK /\ FiberOK(i) /\ WellFormed(st[i]) /\ bs \in Shared
    BY DEF IInv, FiberOK, TypeOK, Shared
  <2>b. io[i] = NoIo /\ pc[i] \in {"spec", "retry"} /\ st[i].out = "running"
    BY DEF FindSlot, Executing
  <2>c. MissingAccounts(i) = {} /\ bs' = bs
    BY DEF FindSlot
  <2>d. UNCHANGED <<block, main, lost, promise, thrown, pc, ip, todo, result>>
    BY DEF FindSlot
  <2>e. IsTx(tx)
    BY <2>0, <2>a, TxFacts
  <2>1. PICK k \in SlotsOf(st[i], tx, n) :
           LET f == FindStorage(bs, a, IncarnationAt(i, a), k)
           IN  IF f.done
               THEN /\ st' = [st EXCEPT ![i] = RememberSlot(@, a, k, f.word)]
                    /\ io' = io
               ELSE /\ io' = [io EXCEPT ![i] = [a |-> a, k |-> k, db |-> f.db]]
                    /\ st' = st
    BY <2>a DEF FindSlot
  <2>f. PICK f : f = FindStorage(bs, a, IncarnationAt(i, a), k)
    OBVIOUS
  <2>2. n \in 4 .. LastStep(tx) - 1 /\ k = tx.code[n - 3].k
    BY <2>1 DEF SlotsOf
  <2>3. k \in Key /\ a \in Addr /\ Loaded(st[i], a)
    <3>1. tx.code \in Seq(Op) /\ Len(tx.code) \in Nat /\ LastStep(tx) = 4 + Len(tx.code)
      BY <2>e, CodeFacts
    <3>2. tx.code[n - 3] \in Op
      BY <3>1, <2>2, SMT
    <3>3. a \in AccountsOf(tx, n) /\ a \in Addr
      BY <2>a, <2>e, <2>2, <3>1, SMT DEF AccountsOf, IsTx
    <3> QED
      BY <2>a, <2>c, <2>2, <3>2, <3>3 DEF Op, MissingAccounts, Loaded
  <2>4. \A b \in Addr : st[i].orig[b] # Absent => bs[b] # Absent
    BY <2>0 DEF FiberOK
  <2>5. f.word \in Word /\ f.db \in BOOLEAN
    <3>1. a \in Known(bs)
      BY <2>3, <2>4 DEF Loaded, Known
    <3> QED
      BY <2>0, <2>3, <2>f, <3>1, FindStorageType
  <2>7. CASE f.done
    <3>t. PICK t : t = RememberSlot(st[i], a, k, f.word)
      OBVIOUS
    <3>1. st' = [st EXCEPT ![i] = t] /\ io' = io
      BY <2>1, <2>f, <2>7, <3>t
    <3>2. io' = [io EXCEPT ![i] = io[i]]
          /\ io[i] \in [a : Addr \union {Absent}, k : Key \union {Absent}, db : BOOLEAN]
      BY <2>0, <3>1 DEF TypeOK
    <3>3. WellFormed(t) /\ SameReads(st[i], t) /\ t.out = st[i].out /\ t.cur = st[i].cur
      BY <2>0, <2>3, <2>5, <3>t, RememberSlotType, SMT
    <3>4. \A b \in Addr : t.orig[b] # Absent <=> st[i].orig[b] # Absent
      BY <3>3 DEF SameReads
    <3> QED
      BY <2>0, <2>b, <2>c, <2>d, <2>4, <3>1, <3>2, <3>3, <3>4, <1>ReadStep
  <2>8. CASE ~f.done
    <3>r. PICK r : r = [a |-> a, k |-> k, db |-> f.db]
      OBVIOUS
    <3>1. st' = st /\ io' = [io EXCEPT ![i] = r]
      BY <2>1, <2>f, <2>8, <3>r
    <3>2. st' = [st EXCEPT ![i] = st[i]]
      BY <2>0, <3>1 DEF TypeOK
    <3>3. r \in [a : Addr \union {Absent}, k : Key \union {Absent}, db : BOOLEAN]
          /\ r.a \in Addr /\ st[i].orig[r.a] # Absent
      BY <2>3, <2>5, <3>r DEF Loaded
    <3> QED
      BY <2>0, <2>b, <2>c, <2>d, <2>4, <3>1, <3>2, <3>3, <1>ReadStep
  <2> QED
    BY <2>7, <2>8
<1>LoadSlotIInv. ASSUME IInv, NEW i \in Tx, LoadSlot(i)
      PROVE  IInv'
  <2> USE <1>LoadSlotIInv
  <2>0. TypeOK /\ FiberOK(i) /\ WellFormed(st[i]) /\ bs \in Shared
    BY DEF IInv, FiberOK, TypeOK, Shared
  <2>a. PICK a, k, inc, w : /\ a = io[i].a /\ k = io[i].k /\ inc = IncarnationAt(i, a)
                            /\ w = IF io[i].db THEN Db[a].storage[k] ELSE 0
    OBVIOUS
  <2>t. PICK t : t = RememberSlot(st[i], a, k, EmplacedWord(bs', a, inc, k, w))
    OBVIOUS
  <2>1. /\ io[i] # NoIo /\ k # Absent /\ bs' = EmplaceStorage(bs, a, inc, k, w)
        /\ st' = [st EXCEPT ![i] = t] /\ io' = [io EXCEPT ![i] = NoIo]
    BY <2>a, <2>t DEF LoadSlot
  <2>u. UNCHANGED <<block, main, lost, promise, thrown, pc, ip, todo, result>>
    BY DEF LoadSlot
  <2>2. a \in Addr /\ k \in Key /\ Loaded(st[i], a) /\ a \in Known(bs)
    BY <2>0, <2>1, <2>a DEF FiberOK, TypeOK, Loaded, Known
  <2>3. w \in Word
    <3>1. 0 \in Word
      BY WordAssumption, SMT DEF Word
    <3>2. Db[a].storage[k] \in Word
      BY <2>2, DbWord
    <3> QED
      BY <2>a, <3>1, <3>2
  <2>4. bs' \in Shared /\ Known(bs') = Known(bs)
    BY <2>0, <2>1, <2>2, <2>3, EmplaceStorageType
  <2>5. EmplacedWord(bs', a, inc, k, w) \in Word
    BY <2>0, <2>2, <2>3, <2>4, EmplaceStorageType
  <2>6. /\ WellFormed(t) /\ t.out = st[i].out /\ t.cur = st[i].cur
        /\ \A b \in Addr : t.orig[b] # Absent <=> st[i].orig[b] # Absent
    BY <2>0, <2>2, <2>5, <2>t, RememberSlotType, SMT DEF SameReads
  <2>7. \A b \in Addr : bs[b] # Absent => bs'[b] # Absent
    BY <2>4 DEF Known
  <2>8. \A b \in Addr : t.orig[b] # Absent => bs'[b] # Absent
    BY <2>0, <2>6, <2>7 DEF FiberOK
  <2>9. NoIo \in [a : Addr \union {Absent}, k : Key \union {Absent}, db : BOOLEAN]
    BY DEF NoIo
  <2> QED
    BY <2>1, <2>u, <2>4, <2>6, <2>7, <2>8, <2>9, <1>ReadStep
<1>ReadThrowsIInv. ASSUME IInv, NEW i \in Tx, ReadThrows(i)
      PROVE  IInv'
  <2> USE <1>ReadThrowsIInv
  <2>0. TypeOK /\ FiberOK(i) /\ WellFormed(st[i]) /\ bs' \in Shared /\ bs' = bs
    BY DEF IInv, FiberOK, TypeOK, Shared, ReadThrows
  <2>t. PICK t : t = End(st[i], "throw")
    OBVIOUS
  <2>1. /\ io[i] # NoIo /\ st' = [st EXCEPT ![i] = t] /\ io' = [io EXCEPT ![i] = NoIo]
        /\ UNCHANGED <<block, main, lost, promise, thrown, pc, todo, result>>
    BY <2>t DEF ReadThrows
  <2>2. ip' = [ip EXCEPT ![i] = ip[i]] /\ ip[i] \in Nat
    BY <2>0 DEF TypeOK, ReadThrows
  <2>3. WellFormed(t) /\ SameReads(st[i], t) /\ t.out = "throw" /\ t \in State
    <3>1. Keeps(st[i], t)
      BY <2>0, <2>t, KeepsOut DEF Outcome
    <3> QED
      BY <2>0, <2>t, <3>1, EndOut DEF Keeps, WellFormed
  <2>4. FiberOK(i)'
    <3>1. /\ st'[i] = t /\ io'[i] = NoIo /\ pc'[i] = pc[i] /\ ip'[i] = ip[i]
          /\ block' = block /\ todo'[i] = todo[i] /\ NoIo' = NoIo
      BY <2>0, <2>1, <2>2 DEF TypeOK, NoIo
    <3>2. pc[i] # "merge" /\ todo[i] = {}
      BY <2>0, <2>1 DEF FiberOK
    <3>3. \A a \in Addr : t.orig[a] # Absent => bs[a] # Absent
      BY <2>0, <2>3 DEF FiberOK, SameReads
    <3>4. ip[i] >= 3 => Loaded(t, block[i].from) /\ Loaded(t, Beneficiary)
      BY <2>0, <2>3 DEF FiberOK, Loaded, SameReads
    <3> QED
      BY <2>0, <2>3, <3>1, <3>2, <3>3, <3>4 DEF FiberOK
  <2>5. NoIo \in [a : Addr \union {Absent}, k : Key \union {Absent}, db : BOOLEAN]
    BY DEF NoIo
  <2> QED
    BY <2>0, <2>1, <2>2, <2>3, <2>4, <2>5, <1>ExecutionStep
<1>StepIInv. ASSUME IInv, NEW i \in Tx, Step(i)
      PROVE  IInv'
  <2> USE <1>StepIInv
  <2>0. /\ TypeOK /\ FiberOK(i) /\ WellFormed(st[i]) /\ bs' \in Shared /\ bs' = bs
        /\ pc[i] \in {"spec", "retry"} /\ st[i].out = "running" /\ io[i] = NoIo
        /\ MissingAccounts(i) = {} /\ SlotsOf(st[i], block[i], ip[i]) = {}
    BY DEF IInv, FiberOK, TypeOK, Shared, Step, Executing
  <2>a. PICK tx, n : tx = block[i] /\ n = ip[i]
    OBVIOUS
  <2>f. PICK first \in BOOLEAN : first = (pc[i] = "spec")
    OBVIOUS
  <2>t. PICK t : t = StepOf(st[i], tx, n, first)
    OBVIOUS
  <2>1. st' = [st EXCEPT ![i] = t]
    BY <2>a, <2>f, <2>t DEF Step
  <2>2. /\ ip' = [ip EXCEPT ![i] = n + 1] /\ io' = [io EXCEPT ![i] = io[i]] /\ n + 1 \in Nat
        /\ io[i] \in [a : Addr \union {Absent}, k : Key \union {Absent}, db : BOOLEAN]
        /\ UNCHANGED <<block, main, lost, promise, thrown, pc, todo, result>>
    BY <2>0, <2>a, SMT DEF TypeOK, Step
  <2>3. IsTx(tx) /\ n \in 1 .. LastStep(tx) /\ LastStep(tx) \in Nat /\ LastStep(tx) >= 4
    <3>1. IsTx(tx) /\ n \in 1 .. LastStep(tx)
      BY <2>0, <2>a, TxFacts DEF FiberOK
    <3> QED
      BY <3>1, CodeFacts
  <2>4. \A a \in AccountsOf(tx, n) : Loaded(st[i], a)
    BY <2>0, <2>3, <2>a, AccountsType DEF MissingAccounts, Loaded
  <2>5. Keeps(st[i], t) /\ (n = LastStep(tx) => t.out = "ok")
    BY <2>0, <2>3, <2>4, <2>a, <2>t, StepOfType, SMT
  <2>6. WellFormed(t) /\ SameReads(st[i], t) /\ t \in State
    BY <2>5 DEF Keeps, WellFormed
  <2>7. t.out \in {"ok", "fail"} => n + 1 >= 3
    <3>1. CASE n = 1
      <4>1. Loaded(st[i], tx.from)
        BY <2>3, <2>4, <3>1, SMT DEF AccountsOf
      <4>2. t = Validate(st[i], tx, first)
        BY <2>t, <2>3, <3>1, SMT DEF StepOf
      <4> QED
        BY <2>0, <2>3, <4>1, <4>2, ValidateOut
    <3> QED
      BY <2>3, <3>1, SMT
  <2>8. n + 1 >= 3 => Loaded(t, tx.from) /\ Loaded(t, Beneficiary)
    <3>1. CASE n = 2
      <4>1. Loaded(st[i], tx.from) /\ Loaded(st[i], Beneficiary)
        BY <2>3, <2>4, <3>1, SMT DEF AccountsOf
      <4> QED
        BY <4>1, <2>6 DEF Loaded, SameReads
    <3>2. CASE n >= 3
      BY <2>0, <2>a, <2>6, <3>2 DEF FiberOK, Loaded, SameReads
    <3> QED
      BY <2>3, <3>1, <3>2, SMT
  <2>9. FiberOK(i)'
    <3>1. /\ st'[i] = t /\ io'[i] = NoIo /\ pc'[i] = pc[i] /\ ip'[i] = n + 1
          /\ block'[i] = tx /\ todo'[i] = {} /\ NoIo' = NoIo
      BY <2>0, <2>1, <2>2, <2>a DEF TypeOK, NoIo, FiberOK
    <3>2. \A a \in Addr : t.orig[a] # Absent => bs[a] # Absent
      BY <2>0, <2>6 DEF FiberOK, SameReads
    <3>3. t.out = "running" => n + 1 \in 1 .. LastStep(tx)
      BY <2>3, <2>5, SMT
    <3> QED
      BY <2>0, <2>6, <2>7, <2>8, <3>1, <3>2, <3>3 DEF FiberOK
  <2> QED
    BY <2>0, <2>1, <2>2, <2>6, <2>9, <1>ExecutionStep
\* A step of fiber i that starts no database read.
<1>ControlStep. ASSUME IInv, NEW i \in Tx, NEW p \in Pc, NEW t \in State, NEW n \in Nat,
             NEW d \in SUBSET Addr, NEW r \in {"none", "ok", "fail", "err"},
             pc' = [pc EXCEPT ![i] = p],
             st' = [st EXCEPT ![i] = t],
             ip' = [ip EXCEPT ![i] = n],
             todo' = [todo EXCEPT ![i] = d],
             result' = [result EXCEPT ![i] = r],
             bs' \in Shared,
             \A a \in Addr : bs[a] # Absent => bs'[a] # Absent,
             promise' \subseteq 0 .. Len(block), thrown' \subseteq promise',
             UNCHANGED <<block, main, lost, io>>,
             FiberOK(i)'
      PROVE  IInv'
  <2> USE <1>ControlStep
  <2>1. TypeOK
    BY DEF IInv
  <2>2. TypeOK'
    <3>1. st' \in [Tx -> State] /\ ip' \in [Tx -> Nat] /\ pc' \in [Tx -> Pc]
      BY <2>1 DEF TypeOK
    <3>2. todo' \in [Tx -> SUBSET Addr] /\ result' \in [Tx -> {"none", "ok", "fail", "err"}]
      BY <2>1 DEF TypeOK
    <3>3. /\ Tx' = Tx /\ block' \in Blocks /\ main' \in Main
          /\ promise' \subseteq 0 .. Len(block')
          /\ io' \in [Tx -> [a : Addr \union {Absent}, k : Key \union {Absent}, db : BOOLEAN]]
      BY <2>1 DEF TypeOK, Tx
    <3>4. lost' \in BOOLEAN
      BY <2>1 DEF TypeOK
    <3> QED
      BY <3>1, <3>2, <3>3, <3>4 DEF TypeOK, Shared
  <2>3. \A j \in Tx \ {i} : /\ st'[j] = st[j] /\ ip'[j] = ip[j] /\ pc'[j] = pc[j]
                             /\ io'[j] = io[j] /\ todo'[j] = todo[j]
    BY <2>1 DEF TypeOK
  <2> QED
    BY <2>2, <2>3, <1>FiberStep
\* A step of fiber i that only moves pc, leaves a result or sets a promise.
<1>PcStep. ASSUME IInv, NEW i \in Tx, NEW p \in Pc, NEW r \in {"none", "ok", "fail", "err"},
             p # "merge",
             io[i] = NoIo, todo[i] = {},
             pc' = [pc EXCEPT ![i] = p],
             result' = [result EXCEPT ![i] = r],
             promise' \subseteq 0 .. Len(block), thrown' \subseteq promise',
             UNCHANGED <<block, main, lost, bs, io, st, ip, todo>>
      PROVE  IInv'
  <2> USE <1>PcStep
  <2>1. TypeOK /\ FiberOK(i)
    BY DEF IInv
  <2>2. /\ st' = [st EXCEPT ![i] = st[i]] /\ ip' = [ip EXCEPT ![i] = ip[i]]
        /\ todo' = [todo EXCEPT ![i] = todo[i]] /\ bs' \in Shared
        /\ st[i] \in State /\ ip[i] \in Nat /\ todo[i] \in SUBSET Addr
    BY <2>1 DEF TypeOK, Shared
  <2>3. pc'[i] = p /\ NoIo' = NoIo
    BY <2>1 DEF TypeOK, NoIo
  <2>4. FiberOK(i)'
    BY <2>1, <2>3 DEF FiberOK
  <2> QED
    BY <2>2, <2>4, <1>ControlStep
<1>BeginIInv. ASSUME IInv, NEW i \in Tx, Begin(i) \/ RejectStatic(i)
      PROVE  IInv'
  <2> USE <1>BeginIInv
  <2>1. TypeOK /\ FiberOK(i)
    BY DEF IInv
  <2>2. io[i] = NoIo /\ todo[i] = {}
    BY <2>1 DEF Begin, RejectStatic, FiberOK
  <2>3. CASE Begin(i)
    <3>1. PICK p \in Pc : p # "merge" /\ pc' = [pc EXCEPT ![i] = p]
      BY <2>3 DEF Begin, Pc
    <3>2. result' = [result EXCEPT ![i] = result[i]]
          /\ result[i] \in {"none", "ok", "fail", "err"}
      BY <2>1, <2>3 DEF Begin, TypeOK
    <3>3. /\ promise' \subseteq 0 .. Len(block) /\ thrown' \subseteq promise'
          /\ UNCHANGED <<block, main, lost, bs, io, st, ip, todo>>
      BY <2>1, <2>3 DEF Begin, TypeOK
    <3> QED
      BY <2>2, <3>1, <3>2, <3>3, <1>PcStep
  <2>4. CASE RejectStatic(i)
    <3>1. /\ pc' = [pc EXCEPT ![i] = "exit"] /\ "exit" \in Pc
          /\ result' = [result EXCEPT ![i] = "err"]
          /\ promise' \subseteq 0 .. Len(block) /\ thrown' \subseteq promise'
          /\ UNCHANGED <<block, main, lost, bs, io, st, ip, todo>>
      BY <2>1, <2>4 DEF RejectStatic, TypeOK, Pc
    <3> QED
      BY <2>2, <3>1, <1>PcStep
  <2> QED
    BY <2>3, <2>4
<1>ExitIInv. ASSUME IInv, NEW i \in Tx, MergeDone(i) \/ Publish(i) \/ Catch(i)
      PROVE  IInv'
  <2> USE <1>ExitIInv
  <2>1. TypeOK /\ FiberOK(i) /\ i \in 0 .. Len(block)
    BY TxFacts, SMT DEF IInv, Tx
  <2>2. io[i] = NoIo /\ todo[i] = {}
    BY <2>1 DEF MergeDone, Publish, Catch, FiberOK
  <2>3. CASE MergeDone(i)
    <3>1. st[i].out \in {"none", "ok", "fail", "err"}
      BY <2>1, <2>3 DEF MergeDone, FiberOK
    <3>2. /\ pc' = [pc EXCEPT ![i] = "exit"] /\ "exit" \in Pc
          /\ result' = [result EXCEPT ![i] = st[i].out]
          /\ promise' \subseteq 0 .. Len(block) /\ thrown' \subseteq promise'
          /\ UNCHANGED <<block, main, lost, bs, io, st, ip, todo>>
      BY <2>1, <2>3 DEF MergeDone, TypeOK, Pc
    <3> QED
      BY <2>2, <3>1, <3>2, <1>PcStep
  <2>4. CASE Publish(i) \/ Catch(i)
    <3>1. /\ pc' = [pc EXCEPT ![i] = "done"] /\ "done" \in Pc
          /\ result' = [result EXCEPT ![i] = result[i]]
          /\ result[i] \in {"none", "ok", "fail", "err"}
          /\ UNCHANGED <<block, main, lost, bs, io, st, ip, todo>>
      BY <2>1, <2>4 DEF Publish, Catch, TypeOK, Pc
    <3>2. promise' \subseteq 0 .. Len(block) /\ thrown' \subseteq promise'
      BY <2>1, <2>4 DEF Publish, Catch, TypeOK
    <3> QED
      BY <2>2, <3>1, <3>2, <1>PcStep
  <2> QED
    BY <2>3, <2>4
<1>ConcludeIInv. ASSUME IInv, NEW i \in Tx, pc[i] \in {"spec", "retry"},
             st[i].out \in {"ok", "fail", "err"},
             NEW s, Keeps(st[i], s), s.out = st[i].out, Conclude(i, s),
             UNCHANGED <<block, main, lost, bs, promise, thrown, ip, io>>
      PROVE  IInv'
  <2> USE <1>ConcludeIInv
  <2>1. /\ TypeOK /\ FiberOK(i) /\ IsTx(block[i]) /\ bs' \in Shared
        /\ io[i] = NoIo /\ io'[i] = NoIo /\ NoIo' = NoIo /\ todo[i] = {}
        /\ ip' = [ip EXCEPT ![i] = ip[i]] /\ ip[i] \in Nat
        /\ promise' \subseteq 0 .. Len(block) /\ thrown' \subseteq promise'
    BY TxFacts DEF IInv, FiberOK, TypeOK, Shared, NoIo
  <2>2. WellFormed(s) /\ SameReads(st[i], s) /\ s \in State
    BY DEF Keeps, WellFormed
  <2>3. CASE s.out = "err"
    <3>1. /\ pc' = [pc EXCEPT ![i] = "exit"] /\ st' = [st EXCEPT ![i] = s]
          /\ result' = [result EXCEPT ![i] = "err"] /\ todo' = [todo EXCEPT ![i] = {}]
          /\ "exit" \in Pc /\ {} \in SUBSET Addr
      BY <2>1, <2>3, SMT DEF Conclude, TypeOK, Pc
    <3>2. FiberOK(i)'
      <4>1. /\ st'[i] = s /\ pc'[i] = "exit" /\ todo'[i] = {} /\ ip'[i] = ip[i]
            /\ bs' = bs /\ block' = block
        BY <2>1, <3>1 DEF TypeOK
      <4>2. \A a \in Addr : s.orig[a] # Absent => bs[a] # Absent
        BY <2>1, <2>2 DEF FiberOK, SameReads
      <4>3. ip[i] >= 3 => Loaded(s, block[i].from) /\ Loaded(s, Beneficiary)
        BY <2>1, <2>2 DEF FiberOK, Loaded, SameReads
      <4> QED
        BY <2>1, <2>2, <2>3, <4>1, <4>2, <4>3 DEF FiberOK
    <3> QED
      BY <2>1, <2>2, <3>1, <3>2, <1>ControlStep
  <2>4. CASE s.out # "err"
    <3>t. PICK t : t = ExecuteFinal(s, block[i])
      OBVIOUS
    <3>1. /\ pc' = [pc EXCEPT ![i] = "merge"] /\ st' = [st EXCEPT ![i] = t]
          /\ todo' = [todo EXCEPT ![i] = WriteSet(t)] /\ "merge" \in Pc
          /\ result' = [result EXCEPT ![i] = result[i]]
          /\ result[i] \in {"none", "ok", "fail", "err"}
          /\ WriteSet(t) \in SUBSET Addr
      BY <2>1, <2>4, <3>t, SMT DEF Conclude, TypeOK, Pc, WriteSet
    <3>2. /\ ip[i] >= 3 /\ Loaded(s, block[i].from) /\ Loaded(s, Beneficiary)
          /\ s.out \in {"ok", "fail"}
      BY <2>1, <2>2, <2>4 DEF FiberOK, Loaded, SameReads
    <3>3. Keeps(s, t) /\ t.out = s.out
      BY <2>2, <3>2, <3>t, ExecuteFinalType
    <3>4. WellFormed(t) /\ SameReads(s, t) /\ t \in State
      BY <3>3 DEF Keeps, WellFormed
    <3>5. FiberOK(i)'
      <4>1. /\ st'[i] = t /\ pc'[i] = "merge" /\ todo'[i] = WriteSet(t) /\ ip'[i] = ip[i]
            /\ bs' = bs /\ block' = block
        BY <2>1, <3>1 DEF TypeOK
      <4>2. \A a \in Addr : t.orig[a] # Absent => bs[a] # Absent
        BY <2>1, <2>2, <3>4 DEF FiberOK, SameReads
      <4>3. Loaded(t, block[i].from) /\ Loaded(t, Beneficiary)
        BY <3>2, <3>4 DEF Loaded, SameReads
      <4>4. \A a \in WriteSet(t) : t.cur[a] # Absent
        BY DEF WriteSet
      <4> QED
        BY <2>1, <3>2, <3>3, <3>4, <4>1, <4>2, <4>3, <4>4 DEF FiberOK
    <3> QED
      BY <2>1, <3>1, <3>4, <3>5, <1>ControlStep
  <2> QED
    BY <2>3, <2>4
<1>AcceptIInv. ASSUME IInv, NEW i \in Tx,
             Accept(i) \/ (AcceptRetry(i) /\ CanMerge(bs, st[i], Relaxed))
      PROVE  IInv'
  <2> USE <1>AcceptIInv
  <2>1. /\ TypeOK /\ FiberOK(i) /\ WellFormed(st[i]) /\ bs \in Shared
    BY DEF IInv, FiberOK, TypeOK, Shared
  <2>2. /\ pc[i] \in {"spec", "retry"} /\ st[i].out \in {"ok", "fail", "err"}
        /\ CanMerge(bs, st[i], Relaxed) /\ Conclude(i, Fixed(bs, st[i]))
        /\ UNCHANGED <<block, main, lost, bs, promise, thrown, ip, io>>
    BY DEF Accept, AcceptRetry, Finished
  <2>s. PICK s : s = Fixed(bs, st[i])
    OBVIOUS
  <2>3. \A a \in Addr : st[i].orig[a] # Absent => a \in Known(bs)
    BY <2>1 DEF FiberOK, Known
  <2>4. Keeps(st[i], s) /\ s.out = st[i].out /\ Conclude(i, s)
    BY <2>1, <2>2, <2>3, <2>s, FixedType
  <2> QED
    BY <2>2, <2>4, <1>ConcludeIInv
<1>AbortIInv. ASSUME IInv, NEW i \in Tx, AcceptRetry(i), ~CanMerge(bs, st[i], Relaxed)
      PROVE  IInv'
  <2> USE <1>AbortIInv
  <2>1. TypeOK /\ FiberOK(i)
    BY DEF IInv
  <2>2. io[i] = NoIo /\ todo[i] = {}
    BY <2>1 DEF AcceptRetry, Finished, FiberOK
  <2>3. /\ pc' = [pc EXCEPT ![i] = "abort"] /\ "abort" \in Pc
        /\ result' = [result EXCEPT ![i] = result[i]]
        /\ result[i] \in {"none", "ok", "fail", "err"}
        /\ promise' \subseteq 0 .. Len(block) /\ thrown' \subseteq promise'
        /\ UNCHANGED <<block, main, lost, bs, io, st, ip, todo>>
    BY <2>1 DEF AcceptRetry, TypeOK, Pc
  <2> QED
    BY <2>2, <2>3, <1>PcStep
<1>RetryIInv. ASSUME IInv, NEW i \in Tx, Retry(i)
      PROVE  IInv'
  <2> USE <1>RetryIInv
  <2>1. /\ TypeOK /\ FiberOK(i) /\ IsTx(block[i]) /\ i \in Nat /\ bs' \in Shared
        /\ io[i] = NoIo /\ todo[i] = {}
    BY TxFacts DEF IInv, FiberOK, TypeOK, Shared, Retry, Finished
  <2>t. PICK t : t = FreshState(i)
    OBVIOUS
  <2>2. /\ WellFormed(t) /\ t.out = "running" /\ t \in State
        /\ \A a \in Addr : t.orig[a] = Absent
    BY <2>1, <2>t, FreshType DEF WellFormed
  <2>3. /\ pc' = [pc EXCEPT ![i] = "retry"] /\ "retry" \in Pc
        /\ st' = [st EXCEPT ![i] = t] /\ ip' = [ip EXCEPT ![i] = 1]
        /\ todo' = [todo EXCEPT ![i] = {}] /\ {} \in SUBSET Addr
        /\ result' = [result EXCEPT ![i] = result[i]]
        /\ result[i] \in {"none", "ok", "fail", "err"}
        /\ promise' \subseteq 0 .. Len(block) /\ thrown' \subseteq promise'
        /\ UNCHANGED <<block, main, lost, io, bs>>
    BY <2>1, <2>t DEF Retry, TypeOK, Pc
  <2>4. FiberOK(i)'
    <3>1. /\ st'[i] = t /\ pc'[i] = "retry" /\ todo'[i] = {} /\ ip'[i] = 1
          /\ io'[i] = NoIo /\ NoIo' = NoIo /\ block' = block
      BY <2>1, <2>3 DEF TypeOK, NoIo
    <3>2. 1 \in 1 .. LastStep(block[i])
      BY <2>1, SMT DEF LastStep, IsTx, Transaction
    <3> QED
      BY <2>2, <3>1, <3>2, SMT DEF FiberOK
  <2> QED
    BY <2>1, <2>2, <2>3, <2>4, <1>ControlStep
<1>MergeOneIInv. ASSUME IInv, NEW i \in Tx, MergeOne(i)
      PROVE  IInv'
  <2> USE <1>MergeOneIInv
  <2>1. /\ TypeOK /\ FiberOK(i) /\ WellFormed(st[i]) /\ bs \in Shared
        /\ st[i] \in State /\ pc[i] = "merge"
    BY DEF IInv, FiberOK, TypeOK, Shared, MergeOne
  <2>2. PICK a \in todo[i] : /\ bs' = MergeAccount(bs, a, st[i].cur[a])
                             /\ todo' = [todo EXCEPT ![i] = @ \ {a}]
    BY DEF MergeOne
  <2>3. a \in Known(bs) /\ st[i].cur[a] \in AccountState
    BY <2>1 DEF FiberOK, WellFormed, TypeOK, State, Known
  <2>4. bs' \in Shared /\ Known(bs') = Known(bs)
    BY <2>1, <2>2, <2>3, MergeAccountType
  <2>5. \A b \in Addr : bs[b] # Absent => bs'[b] # Absent
    BY <2>4 DEF Known
  <2>6. /\ pc' = [pc EXCEPT ![i] = "merge"] /\ "merge" \in Pc
        /\ st' = [st EXCEPT ![i] = st[i]] /\ ip' = [ip EXCEPT ![i] = ip[i]]
        /\ ip[i] \in Nat /\ todo[i] \ {a} \in SUBSET Addr
        /\ todo' = [todo EXCEPT ![i] = todo[i] \ {a}]
        /\ result' = [result EXCEPT ![i] = result[i]]
        /\ result[i] \in {"none", "ok", "fail", "err"}
        /\ promise' \subseteq 0 .. Len(block) /\ thrown' \subseteq promise'
        /\ UNCHANGED <<block, main, lost, io>>
    BY <2>1, <2>2 DEF MergeOne, TypeOK, Pc
  <2>7. FiberOK(i)'
    <3>1. /\ st'[i] = st[i] /\ pc'[i] = "merge" /\ todo'[i] = todo[i] \ {a}
          /\ ip'[i] = ip[i] /\ io'[i] = io[i] /\ NoIo' = NoIo /\ block' = block
      BY <2>1, <2>6 DEF TypeOK, NoIo
    <3>2. io[i] = NoIo
      BY <2>1 DEF FiberOK
    <3> QED
      BY <2>1, <2>5, <3>1, <3>2 DEF FiberOK
  <2> QED
    BY <2>1, <2>4, <2>5, <2>6, <2>7, <1>ControlStep
<1>MainStep. ASSUME IInv, main' \in Main, lost' \in BOOLEAN, bs' \in Shared,
             \A a \in Addr : bs[a] # Absent => bs'[a] # Absent,
             pc' \in [Tx -> Pc],
             \A i \in Tx : pc'[i] = pc[i] \/ (pc[i] = "none" /\ pc'[i] = "idle"),
             UNCHANGED <<block, promise, thrown, ip, st, io, todo, result>>
      PROVE  IInv'
  <2> USE <1>MainStep
  <2>1. TypeOK /\ Tx' = Tx
    BY DEF IInv, Tx
  <2>2. TypeOK'
    BY <2>1 DEF TypeOK, Shared
  <2>3. ASSUME NEW i \in Tx PROVE FiberOK(i)'
    <3>1. FiberOK(i) /\ NoIo' = NoIo
      BY DEF IInv, NoIo
    <3>2. CASE pc'[i] = pc[i]
      BY <3>1, <3>2 DEF FiberOK
    <3>3. CASE pc[i] = "none" /\ pc'[i] = "idle"
      BY <3>1, <3>3 DEF FiberOK
    <3> QED
      BY <3>2, <3>3
  <2> QED
    BY <2>1, <2>2, <2>3 DEF IInv
<1>HeaderIInv. ASSUME IInv, HeaderFirst, Header
      PROVE  IInv'
  <2> USE <1>HeaderIInv
  <2>0. TypeOK /\ bs \in Shared /\ System \in Addr
    BY RunAssumption DEF IInv, TypeOK, Shared
  <2>1. /\ UNCHANGED <<block, promise, thrown, ip, st, io, todo, result>>
        /\ main = "header" /\ \A i \in Tx : pc[i] = "none"
    BY DEF Header, HeaderFirst
  <2>l. lost' \in BOOLEAN
    BY <2>0 DEF Header, TypeOK
  <2>2. CASE lost
    <3>1. main' \in Main /\ bs' = bs /\ pc' = pc
      BY <2>2 DEF Header, Main
    <3>2. pc' \in [Tx -> Pc]
      BY <2>0, <3>1 DEF TypeOK
    <3> QED
      BY <2>0, <2>1, <2>l, <3>1, <3>2, <1>MainStep
  <2>3. CASE ~lost
    <3>a. PICK b1 : b1 = EmplaceAccount(bs, System, Db[System].acct)
      OBVIOUS
    <3>b. PICK s1 : s1 = Remember(FreshState(0), System, b1[System].second)
      OBVIOUS
    <3>c. PICK b2 : b2 = EmplaceStorage(b1, System, b1[System].second.inc, HeaderKey,
                                        Db[System].storage[HeaderKey])
      OBVIOUS
    <3>d. PICK s2 : s2 = SetStorage(s1, System, HeaderKey, HeaderWord)
      OBVIOUS
    <3>1. /\ main' = "wait" /\ pc' = [i \in Tx |-> "idle"]
          /\ bs' = IF b1[System].second = NoAccount THEN b1
                   ELSE MergeAccount(b2, System, s2.cur[System])
      BY <2>3, <3>a, <3>b, <3>c, <3>d DEF Header
    <3>2. /\ HeaderKey \in Key /\ HeaderWord \in Word /\ Db[System].storage[HeaderKey] \in Word
          /\ Db[System].acct \in Account \union {NoAccount}
      BY <2>0, AddrAssumption, DbAssumption, WordAssumption, SMT DEF HeaderKey,
         HeaderWord, Word
    <3>3. b1 \in Shared /\ Known(b1) = Known(bs) \union {System} /\ System \in Known(b1)
      BY <2>0, <3>a, <3>2, EmplaceAccountType, SMT
    <3>4. b2 \in Shared /\ Known(b2) = Known(b1)
      <4>1. PICK inc, k, w : /\ inc = b1[System].second.inc /\ k = HeaderKey
                             /\ w = Db[System].storage[HeaderKey]
        OBVIOUS
      <4>2. b2 = EmplaceStorage(b1, System, inc, k, w) /\ k \in Key /\ w \in Word
        BY <3>c, <3>2, <4>1
      <4> QED
        BY <3>3, <4>2, EmplaceStorageType, SMT
    <3>5. b1[System].second \in Account \union {NoAccount}
      BY <2>0, <3>3 DEF Shared, Known, Delta
    <3>6. WellFormed(s1) /\ Loaded(s1, System)
      BY <2>0, <3>b, <3>5, FreshType, RememberType, SMT DEF Loaded
    <3>7. s2.cur[System] \in AccountState
      BY <3>d, <3>2, <3>6, SetStorageType
    <3>8. bs' \in Shared /\ Known(bs) \subseteq Known(bs')
      BY <3>1, <3>3, <3>4, <3>7, MergeAccountType
    <3>9. /\ \A a \in Addr : bs[a] # Absent => bs'[a] # Absent
          /\ main' \in Main /\ pc' \in [Tx -> Pc]
          /\ \A i \in Tx : pc[i] = "none" /\ pc'[i] = "idle"
      BY <2>1, <3>1, <3>8 DEF Known, Main, Pc
    <3> QED
      BY <2>1, <2>l, <3>8, <3>9, <1>MainStep
  <2> QED
    BY <2>2, <2>3
<1>EpilogueIInv. ASSUME IInv, Epilogue
      PROVE  IInv'
  <2> USE <1>EpilogueIInv
  <2>0. /\ TypeOK /\ bs \in Shared /\ Recipient \in Addr /\ Len(block) + 1 \in Nat
        /\ Db[Recipient].acct \in Account \union {NoAccount}
    BY RunAssumption, TxFacts, DbAssumption, SMT DEF IInv, TypeOK, Shared
  <2>1. /\ UNCHANGED <<block, promise, thrown, ip, st, io, todo, result>> /\ pc' = pc
        /\ pc' \in [Tx -> Pc]
    BY <2>0 DEF Epilogue, fiberVars, TypeOK
  <2>l. lost' \in BOOLEAN
    BY <2>0 DEF Epilogue, TypeOK
  <2>a. PICK b1 : b1 = EmplaceAccount(bs, Recipient, Db[Recipient].acct)
    OBVIOUS
  <2>b. PICK s0 : s0 = Remember(FreshState(Len(block) + 1), Recipient, b1[Recipient].second)
    OBVIOUS
  <2>c. PICK s1 : s1 = AddToBalance(s0, Recipient, 1)
    OBVIOUS
  <2>d. PICK s2 : s2 = Destruct(s1)
    OBVIOUS
  <2>2. /\ main' \in Main
        /\ bs' = bs \/ bs' = b1 \/ bs' = MergeAccount(b1, Recipient, s2.cur[Recipient])
    BY <2>a, <2>b, <2>c, <2>d DEF Epilogue, Main
  <2>3. b1 \in Shared /\ Known(b1) = Known(bs) \union {Recipient} /\ Recipient \in Known(b1)
    BY <2>0, <2>a, EmplaceAccountType, SMT
  <2>4. b1[Recipient].second \in Account \union {NoAccount}
    BY <2>0, <2>3 DEF Shared, Known, Delta
  <2>5. WellFormed(s0) /\ Loaded(s0, Recipient)
    BY <2>0, <2>b, <2>4, FreshType, RememberType DEF Loaded
  <2>6. WellFormed(s1) /\ s1.cur[Recipient] \in AccountState
    BY <2>5, <2>c, AddToBalanceType, SMT
  <2>7. s2.cur[Recipient] \in AccountState
    <3>1. WellFormed(s2) /\ s2.cur[Recipient] # Absent
      BY <2>0, <2>6, <2>d, DestructType, MapAssumption
    <3> QED
      BY <2>0, <3>1 DEF WellFormed, State
  <2>8. bs' \in Shared /\ Known(bs) \subseteq Known(bs')
    BY <2>0, <2>2, <2>3, <2>7, MergeAccountType
  <2>9. \A a \in Addr : bs[a] # Absent => bs'[a] # Absent
    BY <2>8 DEF Known
  <2> QED
    BY <2>1, <2>l, <2>2, <2>8, <2>9, <1>MainStep
<1> SUFFICES ASSUME IInv, HeaderFirst, [Next]_vars
             PROVE  IInv'
  OBVIOUS
<1>1. CASE LoseVersion \/ Collect
  <2>1. TypeOK
    BY DEF IInv
  <2>2. /\ UNCHANGED <<block, promise, thrown, ip, st, io, todo, result>>
        /\ pc' = pc /\ bs' = bs /\ pc' \in [Tx -> Pc] /\ bs' \in Shared /\ main' \in Main
    BY <1>1, <2>1 DEF LoseVersion, Collect, fiberVars, TypeOK, Shared, Main
  <2>3. lost' \in BOOLEAN
    BY <1>1, <2>1 DEF LoseVersion, Collect, TypeOK
  <2> QED
    BY <2>2, <2>3, <1>MainStep
<1>2. CASE Header
  BY <1>2, <1>HeaderIInv
<1>3. CASE Epilogue
  BY <1>3, <1>EpilogueIInv
<1>4. CASE \E i \in Tx : Fiber(i)
  <2>1. PICK i \in Tx : Fiber(i)
    BY <1>4
  <2>2. CASE Begin(i) \/ RejectStatic(i)
    BY <2>2, <1>BeginIInv
  <2>3. CASE FindAccount(i)
    BY <2>3, <1>FindAccountIInv
  <2>4. CASE LoadAccount(i)
    BY <2>4, <1>LoadAccountIInv
  <2>5. CASE FindSlot(i)
    BY <2>5, <1>FindSlotIInv
  <2>6. CASE LoadSlot(i)
    BY <2>6, <1>LoadSlotIInv
  <2>7. CASE ReadThrows(i)
    BY <2>7, <1>ReadThrowsIInv
  <2>8. CASE Step(i)
    BY <2>8, <1>StepIInv
  <2>9. CASE Accept(i)
    BY <2>9, <1>AcceptIInv
  <2>10. CASE Retry(i)
    BY <2>10, <1>RetryIInv
  <2>11. CASE AcceptRetry(i)
    BY <2>11, <1>AcceptIInv, <1>AbortIInv
  <2>12. CASE MergeOne(i)
    BY <2>12, <1>MergeOneIInv
  <2>13. CASE MergeDone(i) \/ Publish(i) \/ Catch(i)
    BY <2>13, <1>ExitIInv
  <2> QED
    BY <2>1, <2>2, <2>3, <2>4, <2>5, <2>6, <2>7, <2>8, <2>9, <2>10, <2>11, <2>12,
       <2>13 DEF Fiber
<1>5. CASE UNCHANGED vars
  <2>1. UNCHANGED <<block, promise, thrown, ip, st, io, todo, result, pc, bs, main>>
    BY <1>5 DEF vars, fiberVars
  <2>2. lost' = lost
    BY <1>5 DEF vars
  <2>3. TypeOK
    BY DEF IInv
  <2>4. lost' \in BOOLEAN
    BY <2>2, <2>3 DEF TypeOK
  <2> QED
    BY <2>1, <2>3, <2>4, <1>MainStep DEF TypeOK, Shared
<1> QED
  BY <1>1, <1>2, <1>3, <1>4, <1>5 DEF Next

-----------------------------------------------------------------------------
(* The order of the transactions.                                          *)

\* A promise is set by the fiber that is then over, so that whoever passes the
\* wait on it has all earlier transactions behind it.
OrderInv ==
    /\ HeaderFirst
    /\ \A i \in Tx : i \in promise => pc[i] = "done"
    /\ InOrder

\* What a step of fiber i does to pc, promise and thrown.
Moved(i, p) ==
    /\ pc[i] \notin {"none", "done"}
    /\ pc' = [pc EXCEPT ![i] = p]
    /\ p # "none"
    /\ p \in Turn => pc[i] \in Turn \/ i - 1 \in promise \/ thrown' # {}
    /\ promise' = promise \/ (promise' = promise \union {i} /\ p = "done")
    /\ thrown \subseteq thrown'

LEMMA FiberMoves ==
    ASSUME IInv, NEW i \in Tx, Fiber(i)
    PROVE  /\ block' = block /\ main' = main
           /\ \E p : Moved(i, p)
<1>1. TypeOK /\ FiberOK(i) /\ pc = [pc EXCEPT ![i] = pc[i]]
  BY DEF IInv, TypeOK
<1>2. CASE \/ FindAccount(i) \/ LoadAccount(i) \/ FindSlot(i) \/ LoadSlot(i)
           \/ ReadThrows(i) \/ Step(i) \/ MergeOne(i)
  <2>1. UNCHANGED <<block, main, pc, promise, thrown>>
    <3>1. FindAccount(i) => UNCHANGED <<block, main, pc, promise, thrown>>
      BY DEF FindAccount
    <3>2. LoadAccount(i) => UNCHANGED <<block, main, pc, promise, thrown>>
      BY DEF LoadAccount
    <3>3. FindSlot(i) => UNCHANGED <<block, main, pc, promise, thrown>>
      BY DEF FindSlot
    <3>4. LoadSlot(i) => UNCHANGED <<block, main, pc, promise, thrown>>
      BY DEF LoadSlot
    <3>5. ReadThrows(i) => UNCHANGED <<block, main, pc, promise, thrown>>
      BY DEF ReadThrows
    <3>6. Step(i) \/ MergeOne(i) => UNCHANGED <<block, main, pc, promise, thrown>>
      BY DEF Step, MergeOne
    <3> QED
      BY <1>2, <3>1, <3>2, <3>3, <3>4, <3>5, <3>6
  <2>2. pc[i] \in {"spec", "retry", "merge"}
    <3>1. LoadAccount(i) \/ LoadSlot(i) \/ ReadThrows(i) => io[i] # NoIo
      BY DEF LoadAccount, LoadSlot, ReadThrows
    <3>2. FindAccount(i) \/ FindSlot(i) \/ Step(i) => pc[i] \in {"spec", "retry"}
      BY DEF FindAccount, FindSlot, Step, Executing
    <3>3. MergeOne(i) => pc[i] = "merge"
      BY DEF MergeOne
    <3>4. io[i] # NoIo => pc[i] \in {"spec", "retry"}
      BY <1>1 DEF FiberOK
    <3> QED
      BY <1>2, <3>1, <3>2, <3>3, <3>4
  <2>3. Moved(i, pc[i])
    BY <1>1, <2>1, <2>2 DEF Moved
  <2> QED
    BY <2>1, <2>3
<1>3. CASE Begin(i)
  <2>1. PICK p \in {"spec", "reject"} : pc' = [pc EXCEPT ![i] = p]
    BY <1>3 DEF Begin
  <2>2. Moved(i, p)
    BY <1>3, <2>1 DEF Begin, Moved, Turn
  <2> QED
    BY <1>3, <2>2 DEF Begin
<1>4. CASE RejectStatic(i)
  <2>1. Moved(i, "exit")
    BY <1>4 DEF RejectStatic, Moved
  <2> QED
    BY <1>4, <2>1 DEF RejectStatic
<1>5. CASE Retry(i)
  <2>1. Moved(i, "retry")
    BY <1>5 DEF Retry, Finished, Moved
  <2> QED
    BY <1>5, <2>1 DEF Retry
<1>6. CASE Accept(i) \/ AcceptRetry(i)
  <2>1. PICK p \in {"exit", "merge", "abort"} : pc' = [pc EXCEPT ![i] = p]
    BY <1>6 DEF Accept, AcceptRetry, Conclude
  <2>2. /\ block' = block /\ main' = main /\ promise' = promise /\ thrown' = thrown
        /\ pc[i] = "retry" \/ (pc[i] = "spec" /\ i - 1 \in promise)
    BY <1>6 DEF Accept, AcceptRetry, Finished
  <2>3. Moved(i, p)
    BY <2>1, <2>2 DEF Moved, Turn
  <2> QED
    BY <2>2, <2>3
<1>7. CASE MergeDone(i)
  <2>1. Moved(i, "exit")
    BY <1>7 DEF MergeDone, Moved, Turn
  <2> QED
    BY <1>7, <2>1 DEF MergeDone
<1>8. CASE Publish(i)
  <2>1. Moved(i, "done")
    BY <1>8 DEF Publish, Moved, Turn
  <2> QED
    BY <1>8, <2>1 DEF Publish
<1>9. CASE Catch(i)
  <2>1. i \in thrown'
    BY <1>9 DEF Catch
  <2>2. Moved(i, "done")
    BY <1>9, <2>1 DEF Catch, Moved
  <2> QED
    BY <1>9, <2>2 DEF Catch
<1> QED
  BY <1>2, <1>3, <1>4, <1>5, <1>6, <1>7, <1>8, <1>9 DEF Fiber

LEMMA FiberOrder ==
    ASSUME IInv, OrderInv, NEW i \in Tx, Fiber(i)
    PROVE  OrderInv'
<1>1. block' = block /\ main' = main /\ Tx' = Tx
  BY FiberMoves DEF Tx
<1>2. PICK p : Moved(i, p)
  BY FiberMoves
<1>3. /\ pc \in [Tx -> Pc] /\ pc'[i] = p /\ \A j \in Tx \ {i} : pc'[j] = pc[j]
  BY <1>2 DEF IInv, TypeOK, Moved
<1>4. HeaderFirst'
  BY <1>1, <1>2 DEF OrderInv, HeaderFirst, Moved
<1>5. \A j \in Tx : j \in promise' => pc'[j] = "done"
  BY <1>2, <1>3 DEF OrderInv, Moved
<1>6. InOrder'
  <2> SUFFICES ASSUME thrown' = {}, NEW k \in Tx, NEW j \in Tx, k < j, pc'[j] \in Turn
               PROVE  pc'[k] = "done"
    BY <1>1 DEF InOrder, Turn
  <2>1. /\ thrown = {}
        /\ \A x, y \in Tx : x < y /\ pc[y] \in Turn => pc[x] = "done"
    BY <1>2 DEF Moved, OrderInv, InOrder
  <2>2. \A x \in Tx : x \in Nat /\ x <= Len(block) /\ x >= 1
    BY TxFacts, SMT DEF IInv, Tx
  <2>3. CASE j # i
    <3>1. pc[k] = "done"
      BY <1>3, <2>1, <2>3
    <3> QED
      BY <1>2, <1>3, <3>1 DEF Moved
  <2>4. CASE j = i /\ pc[i] \in Turn
    BY <1>3, <2>1, <2>2, <2>4, SMT
  <2>5. CASE j = i /\ i - 1 \in promise
    <3>1. i - 1 \in Tx
      BY <2>2, <2>5, TxFacts, SMT DEF Tx, IInv
    <3>2. pc[i - 1] = "done"
      BY <2>5, <3>1 DEF OrderInv
    <3>3. pc[k] = "done"
      BY <2>1, <2>2, <2>5, <3>1, <3>2, SMT DEF Turn
    <3> QED
      BY <1>3, <2>2, <2>5, <3>3, SMT
  <2> QED
    BY <1>2, <1>3, <2>3, <2>4, <2>5 DEF Moved
<1> QED
  BY <1>1, <1>4, <1>5, <1>6 DEF OrderInv

LEMMA NextOrder ==
    ASSUME IInv, OrderInv, [Next]_vars
    PROVE  OrderInv'
<1>1. CASE \E i \in Tx : Fiber(i)
  BY <1>1, FiberOrder
<1>2. CASE Header
  <2>1. TypeOK /\ block' = block /\ promise' = promise /\ main = "header"
        /\ main' # "header" /\ \A i \in Tx : pc[i] = "none"
    BY <1>2 DEF IInv, Header, OrderInv, HeaderFirst
  <2>2. Tx' = Tx /\ \A i \in Tx : i \notin promise
    BY <2>1 DEF OrderInv, Tx
  <2>3. \A i \in Tx : pc'[i] \in {"none", "idle"}
    BY <1>2, <2>1 DEF Header
  <2> QED
    BY <2>1, <2>2, <2>3 DEF OrderInv, HeaderFirst, InOrder, Turn
<1>3. CASE LoseVersion \/ Collect \/ Epilogue \/ UNCHANGED vars
  <2>1. /\ block' = block /\ promise' = promise /\ thrown' = thrown /\ pc' = pc
        /\ main' = "header" => main = "header"
    BY <1>3 DEF LoseVersion, Collect, Epilogue, vars, fiberVars
  <2>2. Tx' = Tx
    BY <2>1 DEF Tx
  <2> QED
    BY <2>1, <2>2 DEF OrderInv, HeaderFirst, InOrder, Turn
<1> QED
  BY <1>1, <1>2, <1>3 DEF Next

LEMMA InitOrder == Init => OrderInv
<1> SUFFICES ASSUME Init PROVE OrderInv
  OBVIOUS
<1>1. \A i \in Tx : i # 0
  BY InitIInv, TxFacts DEF IInv
<1> QED
  BY <1>1 DEF Init, OrderInv, HeaderFirst, InOrder, Turn

-----------------------------------------------------------------------------
(* Theorems.                                                               *)

LEMMA Invariance == Spec => [](IInv /\ OrderInv)
<1>1. Init => IInv /\ OrderInv
  BY InitIInv, InitOrder
<1>2. IInv /\ OrderInv /\ [Next]_vars => (IInv /\ OrderInv)'
  <2> SUFFICES ASSUME IInv, OrderInv, [Next]_vars PROVE IInv' /\ OrderInv'
    OBVIOUS
  <2>1. HeaderFirst
    BY DEF OrderInv
  <2> QED
    BY <2>1, NextIInv, NextOrder
<1> QED
  BY <1>1, <1>2, PTL DEF Spec

\* Whatever the block, the world before it and the interleaving of fibers,
\* database reads and merges, every variable keeps its type: in particular a
\* merge never writes an absent slot or account into the block state.
THEOREM TypeCorrect == Spec => []TypeOK
<1>1. IInv => TypeOK
  BY DEF IInv
<1> QED
  BY <1>1, Invariance, PTL

\* The lookups that can_merge, merge and read_storage assert on succeed: the
\* block state has an entry for all a transaction read, changed or has left
\* to merge.
THEOREM ReadsStayCached == Spec => []CachedReads
<1>1. IInv => CachedReads
  <2> SUFFICES ASSUME IInv, NEW i \in Tx
               PROVE  ReadSet(st[i]) \union WriteSet(st[i]) \union todo[i]
                        \subseteq {a \in Addr : bs[a] # Absent}
    BY DEF CachedReads
  <2>1. FiberOK(i) /\ todo[i] \subseteq Addr
    BY DEF IInv, TypeOK
  <2> QED
    BY <2>1 DEF FiberOK, WellFormed, ReadSet, WriteSet
<1> QED
  BY <1>1, Invariance, PTL

\* Transactions take effect in block order, one at a time: the chain of
\* promises lets fiber i past its wait only when all fibers before it are over.
THEOREM TransactionsInOrder == Spec => []InOrder
<1>1. OrderInv => InOrder
  BY DEF OrderInv
<1> QED
  BY <1>1, Invariance, PTL
=============================================================================
