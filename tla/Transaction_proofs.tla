------------------------- MODULE Transaction_proofs -------------------------
(***************************************************************************)
(* What every State keeps between original_ and current_, on right and on  *)
(* wrong speculation alike: the balances stay backed by the constraint     *)
(* recorded on the original balance, the incarnation of an account tells   *)
(* where it comes from, and a slot is changed only after it was read.      *)
(* Every operation of State keeps this, and so do the steps of a           *)
(* transaction (execute_transaction and what it calls): no debit goes below *)
(* zero, and what is read stays as it was read.                            *)
(***************************************************************************)
EXTENDS ExecuteBlock_proofs

\* Zenon proves a step that names no prover; the steps that need arithmetic,
\* records or functions taken apart name SMT.
USE ZenonT(20), SMTT(20)

-----------------------------------------------------------------------------
(* One account of a State.  o is its OriginalAccountState, e an            *)
(* AccountState of current_ or of the frame below, x the account of e, and *)
(* inc the incarnation of the State.                                       *)

\* x is the account that was read, or one this transaction has put in the
\* place of a vacant one.
Descends(y, x, inc) ==
    x # NoAccount =>
      \/ y # NoAccount /\ x.inc = y.inc /\ (Vacant(x) => Vacant(y))
      \/ x.inc = inc /\ Vacant(y)

\* Merging against an original balance that meets o's constraint leaves a
\* balance that is not negative.
Backed(o, x) ==
    /\ Balance(x) >= 0
    /\ o.exact \/ Balance(o.acct) - Balance(x) <= o.min

Holds(o, x, inc) ==
    /\ Backed(o, x)
    /\ Descends(o.acct, x, inc)
    /\ x = NoAccount => o.acct = NoAccount

\* A slot that e has was read, and is zero in a vacant account.
Stored(o, e) ==
    \A k \in Key : e.storage[k] # Absent =>
        /\ o.storage[k] # Absent
        /\ Vacant(e.acct) => e.storage[k] = 0

Entry(o, e, inc) == Holds(o, e.acct, inc) /\ Stored(o, e)

\* While it executes, all accounts of a State are such; and a slot has been
\* read only at an account that both current_ and the frame below have.
Entries(s) ==
    \A a \in Addr : s.orig[a] # Absent =>
        /\ Balance(s.orig[a].acct) >= 0
        /\ s.orig[a].min >= 0
        /\ s.cur[a] # Absent => Entry(s.orig[a], s.cur[a], s.inc)
        /\ s.saved[a] # Absent => Entry(s.orig[a], s.saved[a], s.inc)
        /\ s.cur[a] = Absent \/ s.saved[a] = Absent => s.orig[a].storage = NoSlots

\* Once the deaths are done, the dead have no account but may have slots.
Final(o, e, inc) ==
    /\ Balance(e.acct) >= 0
    /\ e.acct # NoAccount => Descends(o.acct, e.acct, inc) /\ Stored(o, e)

Finals(s) == \A a \in Addr : s.cur[a] # Absent => Final(s.orig[a], s.cur[a], s.inc)

Good(s) == WellFormed(s) /\ Entries(s)

LEMMA Typed ==
    ASSUME NEW s, WellFormed(s), NEW a, Loaded(s, a)
    PROVE  /\ s.orig[a] \in Original
           /\ s.orig[a].acct \in Account \union {NoAccount}
           /\ s.orig[a].min \in Int /\ s.orig[a].exact \in BOOLEAN
           /\ Balance(s.orig[a].acct) \in Int
           /\ s.inc \in Nat
           /\ s.cur[a] # Absent => s.cur[a] \in AccountState
           /\ s.saved[a] # Absent => s.saved[a] \in AccountState
           /\ RecentAccount(s, a) \in Account \union {NoAccount}
           /\ Balance(RecentAccount(s, a)) \in Int
<1>1. /\ s.orig[a] \in Original /\ s.inc \in Nat
      /\ s.cur[a] # Absent => s.cur[a] \in AccountState
      /\ s.saved[a] # Absent => s.saved[a] \in AccountState
  BY DEF WellFormed, Loaded, State
<1>2. /\ s.orig[a].acct \in Account \union {NoAccount}
      /\ s.orig[a].min \in Int /\ s.orig[a].exact \in BOOLEAN
  BY <1>1 DEF Original
<1> QED
  BY <1>1, <1>2, RecentType, BalanceType

LEMMA RecentEntry ==
    ASSUME NEW s, Good(s), NEW a, Loaded(s, a)
    PROVE  Entry(s.orig[a], Recent(s, a), s.inc)
<1>1. /\ WellFormed(s) /\ Entries(s) /\ a \in Addr /\ s.orig[a] # Absent
  BY DEF Good, Loaded
<1>2. CASE s.cur[a] # Absent
  BY <1>1, <1>2 DEF Entries, Recent
<1>3. CASE s.cur[a] = Absent
  <2>1. /\ s.orig[a].storage = NoSlots /\ Balance(s.orig[a].acct) >= 0
        /\ s.orig[a].min >= 0
    BY <1>1, <1>3 DEF Entries
  <2>2. Recent(s, a).acct = s.orig[a].acct /\ Recent(s, a).storage = NoSlots
    BY <1>3, <2>1 DEF Recent
  <2>3. Balance(s.orig[a].acct) \in Int /\ s.orig[a].min \in Int
    BY <1>1, Typed
  <2>4. Holds(s.orig[a], s.orig[a].acct, s.inc)
    BY <2>1, <2>3, SMT DEF Holds, Backed, Descends
  <2> QED
    BY <2>2, <2>4 DEF Entry, Stored, NoSlots
<1> QED
  BY <1>2, <1>3

\* t is s with the account x put at a.
Puts(s, t, a, x) ==
    /\ t.inc = s.inc /\ t.orig = s.orig /\ t.saved = s.saved /\ t.out = s.out
    /\ \A b \in Addr \ {a} : t.cur[b] = s.cur[b]
    /\ t.cur[a] # Absent
    /\ t.cur[a].acct = x
    /\ t.cur[a].storage = Recent(s, a).storage

LEMMA PutEntries ==
    ASSUME NEW s, Good(s), NEW a, Loaded(s, a), NEW t, NEW x, Puts(s, t, a, x),
           Holds(s.orig[a], x, s.inc), Vacant(x) => Vacant(RecentAccount(s, a))
    PROVE  Entries(t)
<1>1. Entry(t.orig[a], t.cur[a], t.inc)
  <2>1. Stored(s.orig[a], Recent(s, a))
    BY RecentEntry DEF Entry
  <2> QED
    BY <2>1 DEF Puts, Entry, Stored, RecentAccount
<1>2. Entries(s) /\ a \in Addr
  BY DEF Good, Loaded
<1> QED
  BY <1>1, <1>2 DEF Entries, Puts

LEMMA PutRecent ==
    ASSUME NEW s, NEW t, NEW a \in Addr, NEW x, Puts(s, t, a, x)
    PROVE  /\ RecentAccount(t, a) = x
           /\ \A b \in Addr \ {a} : RecentAccount(t, b) = RecentAccount(s, b)
BY DEF Puts, RecentAccount, Recent

\* Replacing current_[a] by e.
LEMMA Put ==
    ASSUME NEW s, WellFormed(s), NEW a, Loaded(s, a), NEW e \in AccountState,
           e.storage = Recent(s, a).storage
    PROVE  Puts(s, [s EXCEPT !.cur[a] = e], a, e.acct)
BY MapAssumption DEF WellFormed, State, Loaded, Puts

\* t is what s has become by operations that read nothing: what was read of
\* the world is as it was.
View(s, t) ==
    /\ t.inc = s.inc
    /\ \A a \in Addr : s.orig[a] # Absent =>
          /\ t.orig[a] # Absent
          /\ t.orig[a].acct = s.orig[a].acct
          /\ t.orig[a].storage = s.orig[a].storage

Ext(s, t) == Good(t) /\ View(s, t)

LEMMA ExtLoaded ==
    ASSUME NEW s, NEW t, Ext(s, t), NEW a, Loaded(s, a)
    PROVE  Good(t) /\ WellFormed(t) /\ Loaded(t, a)
BY DEF Ext, Good, View, Loaded

LEMMA ExtTrans ==
    ASSUME NEW s, NEW t, NEW u, Ext(s, t), Ext(t, u)
    PROVE  Ext(s, u)
BY DEF Ext, View

LEMMA ExtSelf == ASSUME NEW s, Good(s) PROVE Ext(s, s)
BY DEF Ext, View

\* An operation that puts an account into current_.
LEMMA PutExt ==
    ASSUME NEW s, Good(s), NEW a, Loaded(s, a), NEW e \in AccountState,
           e.storage = Recent(s, a).storage,
           Holds(s.orig[a], e.acct, s.inc),
           Vacant(e.acct) => Vacant(RecentAccount(s, a))
    PROVE  LET t == [s EXCEPT !.cur[a] = e]
           IN  Ext(s, t) /\ Puts(s, t, a, e.acct)
<1> DEFINE t == [s EXCEPT !.cur[a] = e]
<1>1. WellFormed(s)
  BY DEF Good
<1>2. Puts(s, t, a, e.acct)
  BY <1>1, Put
<1>3. WellFormed(t)
  BY <1>1, SetCurrent
<1> HIDE DEF t
<1>4. Entries(t)
  BY <1>2, PutEntries
<1>5. View(s, t)
  BY <1>2 DEF Puts, View
<1> QED
  BY <1>2, <1>3, <1>4, <1>5 DEF Ext, Good, t

LEMMA WritableHolds ==
    ASSUME NEW s, Good(s), NEW a, Loaded(s, a)
    PROVE  LET w == Writable(s, a)
           IN  /\ w \in Account
               /\ Holds(s.orig[a], w, s.inc)
               /\ w.balance = Balance(RecentAccount(s, a)) /\ w.balance \in Int
               /\ Vacant(w) <=> Vacant(RecentAccount(s, a))
               /\ Vacant(w) => Vacant(s.orig[a].acct)
<1>1. WellFormed(s)
  BY DEF Good
<1>2. Writable(s, a) \in Account
  BY <1>1, WritableType
<1>3. Holds(s.orig[a], RecentAccount(s, a), s.inc)
  BY RecentEntry DEF Entry, RecentAccount
<1>4. CASE RecentAccount(s, a) # NoAccount
  BY <1>2, <1>3, <1>4 DEF Writable, Balance, Account, Holds, Descends
<1>5. CASE RecentAccount(s, a) = NoAccount
  <2>1. Writable(s, a) = NewAccount(s.inc) /\ s.orig[a].acct = NoAccount
    BY <1>3, <1>5 DEF Writable, Holds
  <2>2. NewAccount(s.inc) # NoAccount /\ NewAccount(s.inc).inc = s.inc
        /\ NewAccount(s.inc).balance = 0 /\ Balance(NewAccount(s.inc)) = 0
        /\ Vacant(NewAccount(s.inc)) /\ Vacant(NoAccount) /\ Balance(NoAccount) = 0
    BY <1>2, <2>1, MapAssumption DEF NewAccount, Balance, Vacant, Nonce, HasCode
  <2> QED
    BY <1>2, <1>3, <1>5, <2>1, <2>2, SMT DEF Holds, Backed, Descends
<1> QED
  BY <1>4, <1>5

LEMMA SetNonceExt ==
    ASSUME NEW s, Good(s), NEW a, Loaded(s, a), NEW n \in Nat \ {0}
    PROVE  LET t == SetNonce(s, a, n)
           IN  /\ Ext(s, t)
               /\ \E x \in Account : /\ Puts(s, t, a, x) /\ ~Vacant(x)
                                     /\ x.balance = Balance(RecentAccount(s, a))
<1> DEFINE w == Writable(s, a)
           x == [w EXCEPT !.nonce = n]
           e == [Recent(s, a) EXCEPT !.acct = x]
<1>1. /\ w \in Account /\ Holds(s.orig[a], w, s.inc)
      /\ w.balance = Balance(RecentAccount(s, a)) /\ w.balance \in Int
      /\ Vacant(w) => Vacant(s.orig[a].acct)
  BY WritableHolds
<1> HIDE DEF w
<1>2. x \in Account /\ x.balance = w.balance /\ x.inc = w.inc /\ x.nonce = n
  BY <1>1 DEF Account
<1> HIDE DEF x
<1>3. ~Vacant(x) /\ x # NoAccount /\ w # NoAccount
  BY <1>1, <1>2, MapAssumption DEF Vacant, Nonce
<1>4. Holds(s.orig[a], x, s.inc)
  BY <1>1, <1>2, <1>3 DEF Holds, Descends, Backed, Balance
<1>5. e \in AccountState /\ e.acct = x /\ e.storage = Recent(s, a).storage
  BY <1>2, RecentType DEF AccountState, Good
<1>6. SetNonce(s, a, n) = [s EXCEPT !.cur[a] = e]
  BY DEF SetNonce, x, w
<1> HIDE DEF e
<1>7. Ext(s, SetNonce(s, a, n)) /\ Puts(s, SetNonce(s, a, n), a, x)
  BY <1>3, <1>4, <1>5, <1>6, PutExt, SMT
<1> QED
  BY <1>1, <1>2, <1>3, <1>7

LEMMA AccessExt ==
    ASSUME NEW s, Good(s), NEW a, Loaded(s, a)
    PROVE  LET t == Access(s, a)
           IN  Ext(s, t) /\ Puts(s, t, a, RecentAccount(s, a))
<1>1. Recent(s, a) \in AccountState /\ Holds(s.orig[a], Recent(s, a).acct, s.inc)
  BY RecentType, RecentEntry DEF Good, Entry
<1> QED
  BY <1>1, PutExt DEF Access, RecentAccount

LEMMA AddToBalanceExt ==
    ASSUME NEW s, Good(s), NEW a, Loaded(s, a), NEW v \in Nat
    PROVE  LET t == AddToBalance(s, a, v)
           IN  /\ Ext(s, t)
               /\ \E x \in Account : /\ Puts(s, t, a, x)
                                     /\ x.balance = Balance(RecentAccount(s, a)) + v
                                     /\ Vacant(x) <=> Vacant(RecentAccount(s, a))
<1> DEFINE w == Writable(s, a)
           x == [w EXCEPT !.balance = @ + v]
           e == [Recent(s, a) EXCEPT !.acct = x, !.touched = TRUE]
<1>1. /\ w \in Account /\ Holds(s.orig[a], w, s.inc)
      /\ w.balance = Balance(RecentAccount(s, a)) /\ w.balance \in Int
      /\ Vacant(w) <=> Vacant(RecentAccount(s, a))
  BY WritableHolds
<1> HIDE DEF w
<1>2. /\ x \in Account /\ x.balance = w.balance + v /\ x.inc = w.inc /\ x.nonce = w.nonce
      /\ x.code = w.code
  BY <1>1, SMT DEF Account
<1> HIDE DEF x
<1>3. (Vacant(x) <=> Vacant(w)) /\ x # NoAccount /\ w # NoAccount
  BY <1>1, <1>2, MapAssumption DEF Vacant, Nonce, HasCode
<1>4. Holds(s.orig[a], x, s.inc)
  <2>1. Balance(s.orig[a].acct) \in Int /\ s.orig[a].min \in Int
    BY Typed DEF Good
  <2>2. Balance(x) = Balance(w) + v /\ Balance(w) = w.balance
    BY <1>2, <1>3 DEF Balance
  <2>3. Backed(s.orig[a], x)
    BY <1>1, <2>1, <2>2, SMT DEF Holds, Backed
  <2> QED
    BY <1>1, <1>2, <1>3, <2>3 DEF Holds, Descends
<1>5. e \in AccountState /\ e.acct = x /\ e.storage = Recent(s, a).storage
  BY <1>2, RecentType DEF AccountState, Good
<1>6. AddToBalance(s, a, v) = [s EXCEPT !.cur[a] = e]
  BY DEF AddToBalance, x, w
<1> HIDE DEF e
<1>7. Ext(s, AddToBalance(s, a, v)) /\ Puts(s, AddToBalance(s, a, v), a, x)
  BY <1>1, <1>3, <1>4, <1>5, <1>6, PutExt, SMT
<1> QED
  BY <1>1, <1>2, <1>3, <1>7

\* a can pay v: it has it, and the constraint on its original balance says so.
Payable(s, a, v) ==
    /\ Balance(RecentAccount(s, a)) >= v
    /\ \/ s.orig[a].exact
       \/ Balance(s.orig[a].acct) - (Balance(RecentAccount(s, a)) - v) <= s.orig[a].min

LEMMA SubtractFromBalanceExt ==
    ASSUME NEW s, Good(s), NEW a, Loaded(s, a), NEW v \in Nat, Payable(s, a, v)
    PROVE  LET t == SubtractFromBalance(s, a, v)
           IN  /\ Ext(s, t)
               /\ \E x \in Account : /\ Puts(s, t, a, x)
                                     /\ Vacant(x) <=> Vacant(RecentAccount(s, a))
<1> DEFINE w == Writable(s, a)
           x == [w EXCEPT !.balance = @ - v]
           e == [Recent(s, a) EXCEPT !.acct = x, !.touched = TRUE]
<1>1. /\ w \in Account /\ Holds(s.orig[a], w, s.inc)
      /\ w.balance = Balance(RecentAccount(s, a)) /\ w.balance \in Int
      /\ Vacant(w) <=> Vacant(RecentAccount(s, a))
  BY WritableHolds
<1> HIDE DEF w
<1>2. /\ x \in Account /\ x.balance = w.balance - v /\ x.inc = w.inc /\ x.nonce = w.nonce
      /\ x.code = w.code
  BY <1>1, SMT DEF Account
<1> HIDE DEF x
<1>3. (Vacant(x) <=> Vacant(w)) /\ x # NoAccount /\ w # NoAccount
  BY <1>1, <1>2, MapAssumption DEF Vacant, Nonce, HasCode
<1>4. Holds(s.orig[a], x, s.inc)
  <2>1. Balance(s.orig[a].acct) \in Int /\ s.orig[a].min \in Int
    BY Typed DEF Good
  <2>2. Balance(x) = w.balance - v
    BY <1>2, <1>3 DEF Balance
  <2>3. Backed(s.orig[a], x)
    BY <1>1, <2>1, <2>2, SMT DEF Payable, Backed
  <2> QED
    BY <1>1, <1>2, <1>3, <2>3 DEF Holds, Descends
<1>5. e \in AccountState /\ e.acct = x /\ e.storage = Recent(s, a).storage
  BY <1>2, RecentType DEF AccountState, Good
<1>6. SubtractFromBalance(s, a, v) = [s EXCEPT !.cur[a] = e]
  BY DEF SubtractFromBalance, x, w
<1> HIDE DEF e
<1>7. Ext(s, SubtractFromBalance(s, a, v)) /\ Puts(s, SubtractFromBalance(s, a, v), a, x)
  BY <1>1, <1>3, <1>4, <1>5, <1>6, PutExt, SMT
<1> QED
  BY <1>1, <1>2, <1>3, <1>7

\* A transfer changes balances only: who is vacant stays so.
LEMMA TransferExt ==
    ASSUME NEW s, Good(s), NEW a, Loaded(s, a), NEW b, Loaded(s, b), NEW v \in Nat,
           Payable(s, a, v)
    PROVE  LET t == Transfer(s, a, b, v)
           IN  /\ Ext(s, t)
               /\ t.orig = s.orig /\ t.saved = s.saved /\ t.out = s.out
               /\ \A c \in Addr :
                    /\ s.cur[c] # Absent => t.cur[c] # Absent
                    /\ Vacant(RecentAccount(t, c)) <=> Vacant(RecentAccount(s, c))
                    /\ RecentAccount(s, c) # NoAccount => RecentAccount(t, c) # NoAccount
               /\ RecentAccount(t, b) # NoAccount /\ t.cur[a] # Absent /\ t.cur[b] # Absent
<1> DEFINE u == SubtractFromBalance(s, a, v)
           t == AddToBalance(u, b, v)
<1>0. Transfer(s, a, b, v) = t /\ a \in Addr /\ b \in Addr
  BY DEF Transfer, Loaded
<1>1. Ext(s, u)
  BY SubtractFromBalanceExt
<1>2. PICK x \in Account : Puts(s, u, a, x) /\ (Vacant(x) <=> Vacant(RecentAccount(s, a)))
  BY SubtractFromBalanceExt
<1> HIDE DEF u
<1>3. Good(u) /\ Loaded(u, b)
  BY <1>1, ExtLoaded
<1>4. Ext(u, t)
  BY <1>3, AddToBalanceExt
<1>5. PICK y \in Account : Puts(u, t, b, y) /\ (Vacant(y) <=> Vacant(RecentAccount(u, b)))
  BY <1>3, AddToBalanceExt
<1> HIDE DEF t
<1>6. x # NoAccount /\ y # NoAccount
  BY MapAssumption
<1>7. /\ RecentAccount(u, a) = x /\ RecentAccount(t, b) = y
      /\ \A c \in Addr \ {a} : RecentAccount(u, c) = RecentAccount(s, c)
      /\ \A c \in Addr \ {b} : RecentAccount(t, c) = RecentAccount(u, c)
  BY <1>0, <1>2, <1>5, PutRecent, SMT
<1>8. Ext(s, t)
  BY <1>1, <1>4, ExtTrans
<1>9. /\ t.orig = s.orig /\ t.saved = s.saved /\ t.out = s.out
      /\ \A c \in Addr : s.cur[c] # Absent => t.cur[c] # Absent
      /\ t.cur[a] # Absent /\ t.cur[b] # Absent
  BY <1>0, <1>2, <1>5 DEF Puts
<1> QED
  BY <1>0, <1>2, <1>5, <1>6, <1>7, <1>8, <1>9

LEMMA CreateContractExt ==
    ASSUME NEW s, Good(s), NEW a, Loaded(s, a), Vacant(RecentAccount(s, a))
    PROVE  LET t == CreateContract(s, a)
           IN  /\ Ext(s, t)
               /\ \E x \in Account : /\ Puts(s, t, a, x)
                                     /\ x.balance = Balance(RecentAccount(s, a))
<1> DEFINE w == Writable(s, a)
           x == [w EXCEPT !.inc = s.inc]
           e == [Recent(s, a) EXCEPT !.acct = x]
<1>1. /\ w \in Account /\ Holds(s.orig[a], w, s.inc)
      /\ w.balance = Balance(RecentAccount(s, a)) /\ w.balance \in Int
      /\ Vacant(w) <=> Vacant(RecentAccount(s, a))
      /\ Vacant(w) => Vacant(s.orig[a].acct)
      /\ s.inc \in Nat
  BY WritableHolds, Typed DEF Good
<1> HIDE DEF w
<1>2. x \in Account /\ x.balance = w.balance /\ x.inc = s.inc
  BY <1>1 DEF Account
<1> HIDE DEF x
<1>3. x # NoAccount /\ w # NoAccount
  BY <1>1, <1>2, MapAssumption
<1>4. Holds(s.orig[a], x, s.inc)
  BY <1>1, <1>2, <1>3 DEF Holds, Descends, Backed, Balance
<1>5. e \in AccountState /\ e.acct = x /\ e.storage = Recent(s, a).storage
  BY <1>2, RecentType DEF AccountState, Good
<1>6. CreateContract(s, a) = [s EXCEPT !.cur[a] = e]
  BY DEF CreateContract, x, w
<1> HIDE DEF e
<1>7. Ext(s, CreateContract(s, a)) /\ Puts(s, CreateContract(s, a), a, x)
  BY <1>4, <1>5, <1>6, PutExt, SMT
<1> QED
  BY <1>1, <1>2, <1>7

LEMMA SetCodeExt ==
    ASSUME NEW s, Good(s), NEW a, Loaded(s, a)
    PROVE  LET t == SetCode(s, a) IN Ext(s, t) /\ t.out = s.out
<1>1. CASE RecentAccount(s, a) = NoAccount
  BY <1>1, AccessExt DEF SetCode, Puts
<1>2. CASE RecentAccount(s, a) # NoAccount
  <2> DEFINE w == RecentAccount(s, a)
             x == [w EXCEPT !.code = TRUE]
             e == [Recent(s, a) EXCEPT !.acct = x]
  <2>1. w \in Account /\ Holds(s.orig[a], w, s.inc)
    BY <1>2, Typed, RecentEntry DEF Good, Entry, RecentAccount
  <2>2. SetCode(s, a) = [s EXCEPT !.cur[a] = e]
    BY <1>2 DEF SetCode
  <2> HIDE DEF w
  <2>3. x \in Account /\ x.balance = w.balance /\ x.inc = w.inc /\ x.code = TRUE
    BY <2>1 DEF Account
  <2> HIDE DEF x
  <2>4. ~Vacant(x) /\ x # NoAccount /\ w # NoAccount
    BY <2>1, <2>3, MapAssumption DEF Vacant, HasCode
  <2>5. Holds(s.orig[a], x, s.inc)
    BY <2>1, <2>3, <2>4 DEF Holds, Descends, Backed, Balance
  <2>6. e \in AccountState /\ e.acct = x /\ e.storage = Recent(s, a).storage
    BY <2>3, RecentType DEF AccountState, Good
  <2> HIDE DEF e
  <2> QED
    BY <2>2, <2>4, <2>5, <2>6, PutExt, SMT DEF Puts
<1> QED
  BY <1>1, <1>2

LEMMA SetStorageExt ==
    ASSUME NEW s, Good(s), NEW a, Loaded(s, a), NEW k \in Key, NEW w \in Word,
           s.orig[a].storage[k] # Absent, ~Vacant(RecentAccount(s, a))
    PROVE  LET t == SetStorage(s, a, k, w)
           IN  /\ Ext(s, t) /\ t.saved = s.saved /\ t.out = s.out
               /\ RecentAccount(t, a) = RecentAccount(s, a) /\ t.cur[a] # Absent
<1> DEFINE e == [Recent(s, a) EXCEPT !.storage[k] = w]
           t == [s EXCEPT !.cur[a] = e]
<1>1. SetStorage(s, a, k, w) = t
  BY DEF SetStorage
<1>2. Recent(s, a) \in AccountState /\ Entry(s.orig[a], Recent(s, a), s.inc)
      /\ WellFormed(s) /\ Entries(s) /\ a \in Addr
  BY RecentType, RecentEntry DEF Good, Loaded
<1>3. /\ e \in AccountState /\ e.acct = RecentAccount(s, a)
      /\ \A j \in Key : e.storage[j] # Absent => s.orig[a].storage[j] # Absent
  BY <1>2 DEF AccountState, RecentAccount, Entry, Stored
<1> HIDE DEF e
<1>4. Entry(s.orig[a], e, s.inc)
  BY <1>2, <1>3 DEF Entry, Stored, RecentAccount
<1>5. WellFormed(t) /\ t.out = s.out /\ t.cur[a] = e
  BY <1>2, <1>3, SetCurrent, SMT
<1>6. /\ t.inc = s.inc /\ t.orig = s.orig /\ t.saved = s.saved
      /\ \A b \in Addr \ {a} : t.cur[b] = s.cur[b]
  BY <1>2 DEF WellFormed, State
<1> HIDE DEF t
<1>7. e # Absent
  BY <1>3, MapAssumption
<1>8. Entries(t)
  BY <1>2, <1>4, <1>5, <1>6, <1>7 DEF Entries
<1>9. View(s, t) /\ RecentAccount(t, a) = e.acct
  BY <1>5, <1>6, <1>7 DEF View, RecentAccount, Recent
<1> QED
  BY <1>1, <1>3, <1>5, <1>6, <1>7, <1>8, <1>9 DEF Ext, Good

-----------------------------------------------------------------------------
(* Operations that change what is known of the original accounts.          *)

\* t differs from s in the constraints on original balances only.
SameAccounts(s, t) ==
    /\ t.cur = s.cur /\ t.saved = s.saved /\ t.out = s.out
    /\ \A a \in Addr : RecentAccount(t, a) = RecentAccount(s, a)

\* A stronger constraint on the original balance of a.
LEMMA Tighten ==
    ASSUME NEW s, Good(s), NEW a, Loaded(s, a), NEW o \in Original,
           o.acct = s.orig[a].acct, o.storage = s.orig[a].storage,
           s.orig[a].exact => o.exact, o.min >= s.orig[a].min
    PROVE  LET t == [s EXCEPT !.orig[a] = o]
           IN  Ext(s, t) /\ SameAccounts(s, t) /\ t.orig[a] = o
<1> DEFINE t == [s EXCEPT !.orig[a] = o]
<1>1. WellFormed(s) /\ Entries(s) /\ a \in Addr /\ s.orig[a] # Absent
  BY DEF Good, Loaded
<1>2. WellFormed(t) /\ t.out = s.out /\ t.cur = s.cur
  BY <1>1, SetOriginal
<1>3. /\ t.inc = s.inc /\ t.saved = s.saved /\ t.orig[a] = o
      /\ \A b \in Addr \ {a} : t.orig[b] = s.orig[b]
  BY <1>1 DEF WellFormed, State
<1> HIDE DEF t
<1>4. o # Absent /\ o.min \in Int
  BY MapAssumption DEF Original
<1>5. /\ s.orig[a].min \in Int /\ Balance(s.orig[a].acct) \in Int
      /\ s.cur[a] # Absent => Balance(s.cur[a].acct) \in Int
      /\ s.saved[a] # Absent => Balance(s.saved[a].acct) \in Int
  BY <1>1, Typed, BalanceType DEF AccountState
<1>6. ASSUME NEW e, Balance(e.acct) \in Int, Entry(s.orig[a], e, s.inc)
      PROVE  Entry(o, e, s.inc)
  BY <1>4, <1>5, <1>6, SMT DEF Entry, Holds, Backed, Stored
<1>7. Entries(t)
  BY <1>1, <1>2, <1>3, <1>4, <1>5, <1>6, SMT DEF Entries
<1>8. View(s, t)
  BY <1>3, <1>4 DEF View
<1>9. \A b \in Addr : RecentAccount(t, b) = RecentAccount(s, b)
  BY <1>2, <1>3 DEF RecentAccount, Recent
<1> QED
  BY <1>2, <1>3, <1>7, <1>8, <1>9 DEF Ext, Good, SameAccounts, t

LEMMA SetValidateExactBalanceExt ==
    ASSUME NEW s, Good(s), NEW a, Loaded(s, a)
    PROVE  LET t == SetValidateExactBalance(s, a)
           IN  Ext(s, t) /\ SameAccounts(s, t) /\ t.orig[a].exact
<1> DEFINE o == [s.orig[a] EXCEPT !.exact = TRUE]
<1>1. s.orig[a] \in Original /\ s.orig[a].min \in Int
  BY Typed DEF Good
<1>2. /\ o \in Original /\ o.exact /\ o.acct = s.orig[a].acct
      /\ o.storage = s.orig[a].storage /\ o.min = s.orig[a].min
  BY <1>1 DEF Original
<1>3. SetValidateExactBalance(s, a) = [s EXCEPT !.orig[a] = o]
  BY DEF SetValidateExactBalance
<1> HIDE DEF o
<1> QED
  BY <1>1, <1>2, <1>3, Tighten, SMT

LEMMA RecordDebitExt ==
    ASSUME NEW s, Good(s), NEW a, Loaded(s, a), NEW v \in Nat
    PROVE  LET t == RecordDebit(s, a, v)
           IN  /\ Ext(s, t) /\ SameAccounts(s, t)
               /\ CanDebit(s, a, v) => Payable(t, a, v)
<1> DEFINE need == Balance(s.orig[a].acct) - (Balance(RecentAccount(s, a)) - v)
           o == [s.orig[a] EXCEPT !.min = need]
<1>1. /\ s.orig[a] \in Original /\ s.orig[a].min \in Int /\ a \in Addr
      /\ Balance(s.orig[a].acct) \in Int /\ Balance(RecentAccount(s, a)) \in Int
  BY Typed DEF Good, Loaded
<1>2. CASE ~CanDebit(s, a, v)
  BY <1>2, SetValidateExactBalanceExt DEF RecordDebit
<1>3. CASE CanDebit(s, a, v) /\ need > s.orig[a].min
  <2>1. need \in Int
    BY <1>1, SMT
  <2>2. RecordDebit(s, a, v) = [s EXCEPT !.orig[a] = o]
    BY <1>3 DEF RecordDebit
  <2>3. PICK m : m = need
    OBVIOUS
  <2>4. /\ o \in Original /\ o.acct = s.orig[a].acct /\ o.exact = s.orig[a].exact
        /\ o.storage = s.orig[a].storage /\ o.min = m
    <3> HIDE DEF need
    <3> QED
      BY <1>1, <2>1, <2>3 DEF Original
  <2> HIDE DEF o
  <2>5. LET t == RecordDebit(s, a, v)
        IN  Ext(s, t) /\ SameAccounts(s, t) /\ t.orig[a] = o
    BY <1>1, <1>3, <2>1, <2>2, <2>3, <2>4, Tighten, SMT
  <2> QED
    BY <1>1, <1>3, <2>1, <2>3, <2>4, <2>5, SMT DEF Payable, CanDebit, SameAccounts
<1>4. CASE CanDebit(s, a, v) /\ ~(need > s.orig[a].min)
  <2>1. RecordDebit(s, a, v) = s
    BY <1>4 DEF RecordDebit
  <2> QED
    BY <1>1, <1>4, <2>1, ExtSelf, SMT DEF Payable, CanDebit, SameAccounts
<1> QED
  BY <1>2, <1>3, <1>4

\* set_original_nonce comes before anything is changed or read of a's storage.
LEMMA SetOriginalNonceGood ==
    ASSUME NEW s, Good(s), NEW a, Loaded(s, a), NEW n \in Nat,
           s.cur[a] = Absent, s.saved[a] = Absent
    PROVE  LET t == SetOriginalNonce(s, a, n)
           IN  /\ Good(t) /\ t.inc = s.inc /\ t.cur = s.cur /\ t.saved = s.saved
               /\ t.out = s.out
               /\ \A b \in Addr \ {a} : t.orig[b] = s.orig[b]
               /\ t.orig[a] # Absent /\ t.orig[a].storage = s.orig[a].storage
               /\ t.orig[a].acct # NoAccount
               /\ \/ t.orig[a].acct.inc = 0
                  \/ s.orig[a].acct # NoAccount /\ t.orig[a].acct.inc = s.orig[a].acct.inc
<1> DEFINE w == IF s.orig[a].acct = NoAccount THEN NewAccount(0) ELSE s.orig[a].acct
           x == [w EXCEPT !.nonce = n]
           o == [s.orig[a] EXCEPT !.acct = x]
           t == [s EXCEPT !.orig[a] = o]
<1>1. /\ s.orig[a] \in Original /\ WellFormed(s) /\ Entries(s) /\ a \in Addr
      /\ s.orig[a].acct \in Account \union {NoAccount}
      /\ s.orig[a] # Absent
  BY Typed DEF Good, Loaded
<1>2. SetOriginalNonce(s, a, n) = t
  BY DEF SetOriginalNonce
<1>3. /\ w \in Account /\ w.balance = Balance(s.orig[a].acct)
      /\ \/ w.inc = 0
         \/ s.orig[a].acct # NoAccount /\ w.inc = s.orig[a].acct.inc
  BY <1>1, NewAccountType DEF NewAccount, Balance
<1> HIDE DEF w
<1>4. x \in Account /\ x.balance = w.balance /\ x.inc = w.inc
  BY <1>3 DEF Account
<1> HIDE DEF x
<1>5. /\ o \in Original /\ o.acct = x /\ o.storage = s.orig[a].storage
      /\ o.min = s.orig[a].min
  BY <1>1, <1>4 DEF Original
<1> HIDE DEF o
<1>6. WellFormed(t) /\ t.out = s.out /\ t.cur = s.cur
  BY <1>1, <1>5, SetOriginal
<1>7. /\ t.inc = s.inc /\ t.saved = s.saved /\ t.orig[a] = o
      /\ \A b \in Addr \ {a} : t.orig[b] = s.orig[b]
  BY <1>1 DEF WellFormed, State
<1> HIDE DEF t
<1>8. o # Absent /\ x # NoAccount
  BY <1>4, <1>5, MapAssumption
<1>9. Balance(o.acct) = Balance(s.orig[a].acct)
  BY <1>3, <1>4, <1>5, <1>8 DEF Balance
<1>10. Entries(t)
  BY <1>1, <1>5, <1>6, <1>7, <1>8, <1>9 DEF Entries
<1> QED
  BY <1>2, <1>3, <1>4, <1>5, <1>6, <1>7, <1>8, <1>10 DEF Good

\* The first read of an account.
LEMMA RememberExt ==
    ASSUME NEW s, Good(s), NEW a \in Addr, s.orig[a] = Absent,
           NEW x \in Account \union {NoAccount}, Balance(x) >= 0
    PROVE  LET t == Remember(s, a, x)
           IN  /\ Ext(s, t) /\ t.cur = s.cur /\ t.saved = s.saved /\ t.out = s.out
               /\ t.orig[a] = OriginalAccountState(x)
               /\ \A b \in Addr \ {a} : t.orig[b] = s.orig[b]
<1> DEFINE o == OriginalAccountState(x)
           t == [s EXCEPT !.orig[a] = o]
<1>1. WellFormed(s) /\ Entries(s) /\ s.cur[a] = Absent /\ s.saved[a] = Absent
  BY DEF Good, WellFormed
<1>2. Remember(s, a, x) = t
  BY DEF Remember
<1>3. o \in Original /\ o.acct = x /\ o.storage = NoSlots /\ o.min = 0
  BY SMT DEF OriginalAccountState, Original, NoSlots
<1> HIDE DEF o
<1>4. WellFormed(t) /\ t.out = s.out /\ t.cur = s.cur
  BY <1>1, <1>3, SetOriginal
<1>5. /\ t.inc = s.inc /\ t.saved = s.saved /\ t.orig[a] = o
      /\ \A b \in Addr \ {a} : t.orig[b] = s.orig[b]
  BY <1>1 DEF WellFormed, State
<1> HIDE DEF t
<1>6. Entries(t)
  BY <1>1, <1>3, <1>4, <1>5, SMT DEF Entries
<1>7. View(s, t)
  BY <1>5 DEF View
<1> QED
  BY <1>2, <1>4, <1>5, <1>6, <1>7 DEF Ext, Good, o

\* The first read of a slot, at an account both frames have.
LEMMA RememberSlotGood ==
    ASSUME NEW s, Good(s), NEW a, Loaded(s, a), NEW k \in Key, NEW w \in Word,
           s.cur[a] # Absent, s.saved[a] # Absent
    PROVE  LET t == RememberSlot(s, a, k, w)
           IN  Good(t) /\ SameAccounts(s, t) /\ t.inc = s.inc
<1> DEFINE o == [s.orig[a] EXCEPT !.storage[k] = w]
           t == [s EXCEPT !.orig[a] = o]
<1>1. /\ s.orig[a] \in Original /\ WellFormed(s) /\ Entries(s) /\ a \in Addr
      /\ s.orig[a] # Absent
  BY Typed DEF Good, Loaded
<1>2. RememberSlot(s, a, k, w) = t
  BY DEF RememberSlot
<1>3. /\ o \in Original /\ o.acct = s.orig[a].acct /\ o.exact = s.orig[a].exact
      /\ o.min = s.orig[a].min
      /\ o.storage[k] = w /\ \A j \in Key \ {k} : o.storage[j] = s.orig[a].storage[j]
  BY <1>1 DEF Original
<1> HIDE DEF o
<1>4. WellFormed(t) /\ t.out = s.out /\ t.cur = s.cur
  BY <1>1, <1>3, SetOriginal
<1>5. /\ t.inc = s.inc /\ t.saved = s.saved /\ t.orig[a] = o
      /\ \A b \in Addr \ {a} : t.orig[b] = s.orig[b]
  BY <1>1 DEF WellFormed, State
<1> HIDE DEF t
<1>6. o # Absent /\ w # Absent
  BY <1>3, MapAssumption
<1>7. ASSUME NEW e, Entry(s.orig[a], e, s.inc) PROVE Entry(o, e, s.inc)
  BY <1>3, <1>6, <1>7 DEF Entry, Holds, Backed, Stored
<1>8. Entries(t)
  BY <1>1, <1>3, <1>4, <1>5, <1>7 DEF Entries
<1>9. \A b \in Addr : RecentAccount(t, b) = RecentAccount(s, b)
  BY <1>3, <1>4, <1>5 DEF RecentAccount, Recent
<1> QED
  BY <1>2, <1>4, <1>5, <1>8, <1>9 DEF Good, SameAccounts

LEMMA RememberSlotReads ==
    ASSUME NEW s, WellFormed(s), NEW a, Loaded(s, a), NEW k \in Key, NEW w \in Word
    PROVE  LET t == RememberSlot(s, a, k, w)
           IN  /\ \A b \in Addr \ {a} : t.orig[b] = s.orig[b]
               /\ t.orig[a] # Absent /\ t.orig[a].acct = s.orig[a].acct
               /\ t.orig[a].storage[k] = w
               /\ \A j \in Key \ {k} : t.orig[a].storage[j] = s.orig[a].storage[j]
<1> DEFINE o == [s.orig[a] EXCEPT !.storage[k] = w]
           t == [s EXCEPT !.orig[a] = o]
<1>1. s.orig[a] \in Original /\ a \in Addr
  BY Typed DEF Loaded
<1>2. RememberSlot(s, a, k, w) = t
  BY DEF RememberSlot
<1>3. /\ o \in Original /\ o.acct = s.orig[a].acct
      /\ o.storage[k] = w /\ \A j \in Key \ {k} : o.storage[j] = s.orig[a].storage[j]
  BY <1>1 DEF Original
<1> HIDE DEF o
<1>4. t.orig[a] = o /\ \A b \in Addr \ {a} : t.orig[b] = s.orig[b]
  BY <1>1 DEF WellFormed, State
<1> HIDE DEF t
<1> QED
  BY <1>2, <1>3, <1>4, MapAssumption

-----------------------------------------------------------------------------
(* Frames, self-destruction and the end of a transaction.                  *)

LEMMA PushExt ==
    ASSUME NEW s, Good(s),
           \A a \in Addr : s.orig[a] # Absent => s.orig[a].storage = NoSlots
    PROVE  LET t == Push(s)
           IN  /\ Ext(s, t) /\ t.cur = s.cur /\ t.saved = s.cur /\ t.orig = s.orig
               /\ t.out = s.out
               /\ \A a \in Addr : RecentAccount(t, a) = RecentAccount(s, a)
<1> DEFINE t == Push(s)
<1>1. WellFormed(s) /\ Entries(s)
  BY DEF Good
<1>2. /\ WellFormed(t) /\ t.out = s.out /\ t.cur = s.cur /\ t.saved = s.cur
      /\ t.orig = s.orig /\ t.inc = s.inc
  BY <1>1, PushType DEF Push, WellFormed, State
<1> HIDE DEF t
<1>3. Entries(t)
  BY <1>1, <1>2 DEF Entries
<1>4. View(s, t) /\ \A a \in Addr : RecentAccount(t, a) = RecentAccount(s, a)
  BY <1>2 DEF View, RecentAccount, Recent
<1> QED
  BY <1>2, <1>3, <1>4 DEF Ext, Good, t

LEMMA PopRejectExt ==
    ASSUME NEW s, Good(s)
    PROVE  Ext(s, PopReject(s)) /\ PopReject(s).out = s.out
<1> DEFINE t == PopReject(s)
<1>1. WellFormed(s) /\ Entries(s)
  BY DEF Good
<1>2. /\ WellFormed(t) /\ t.out = s.out /\ t.cur = s.saved /\ t.saved = s.saved
      /\ t.orig = s.orig /\ t.inc = s.inc
  BY <1>1, PopRejectType DEF PopReject, WellFormed, State
<1> HIDE DEF t
<1>3. Entries(t)
  BY <1>1, <1>2 DEF Entries
<1>4. View(s, t)
  BY <1>2 DEF View
<1> QED
  BY <1>2, <1>3, <1>4 DEF Ext, Good, t

LEMMA EndExt ==
    ASSUME NEW s, NEW t, Ext(s, t), NEW o \in Outcome
    PROVE  /\ Ext(s, End(t, o)) /\ End(t, o).out = o
           /\ End(t, o).cur = t.cur /\ End(t, o).saved = t.saved /\ End(t, o).orig = t.orig
<1> DEFINE u == End(t, o)
<1>1. WellFormed(t) /\ Entries(t) /\ View(s, t)
  BY DEF Ext, Good
<1>2. /\ WellFormed(u) /\ u.out = o /\ u.cur = t.cur /\ u.saved = t.saved
      /\ u.orig = t.orig /\ u.inc = t.inc
  BY <1>1 DEF End, WellFormed, State
<1> HIDE DEF u
<1>3. Entries(u) /\ View(s, u)
  BY <1>1, <1>2 DEF Entries, View
<1> QED
  BY <1>2, <1>3 DEF Ext, Good, u

LEMMA SelfDestructExt ==
    ASSUME NEW s, Good(s), NEW a, Loaded(s, a), NEW b, Loaded(s, b)
    PROVE  Ext(s, SelfDestruct(s, a, b))
<1> DEFINE acc == Access(s, a)
           seen == SetValidateExactBalance(acc, a)
           bal == Balance(RecentAccount(seen, a))
           paid == IF a # b THEN AddToBalance(seen, b, bal) ELSE seen
           sub == SubtractFromBalance(paid, a, bal)
           cond == ~Cancun \/ a # b \/ RecentAccount(seen, a).inc = s.inc
           moved == IF cond THEN sub ELSE seen
<1>0. a \in Addr /\ b \in Addr
  BY DEF Loaded
<1>1. SelfDestruct(s, a, b) = [moved EXCEPT !.cur[a].destructed = TRUE]
  BY DEF SelfDestruct
<1>2. Ext(s, acc) /\ acc.cur[a] # Absent
  BY AccessExt, SMT DEF Puts
<1> HIDE DEF acc
<1>3. Ext(s, seen) /\ seen.orig[a].exact /\ seen.cur[a] # Absent
  <2>1. Good(acc) /\ Loaded(acc, a)
    BY <1>2, ExtLoaded
  <2>2. Ext(acc, seen) /\ SameAccounts(acc, seen) /\ seen.orig[a].exact
    BY <2>1, SetValidateExactBalanceExt
  <2> QED
    BY <1>2, <2>2, ExtTrans DEF SameAccounts
<1> HIDE DEF seen
<1>4. Good(seen) /\ Loaded(seen, a) /\ Loaded(seen, b) /\ WellFormed(seen)
  BY <1>3, ExtLoaded
<1>5. bal \in Nat
  <2>1. Balance(RecentAccount(seen, a)) \in Int
    BY <1>4, Typed
  <2>2. Balance(RecentAccount(seen, a)) >= 0
    BY <1>4, RecentEntry DEF Entry, Holds, Backed, RecentAccount
  <2> QED
    BY <2>1, <2>2, SMT
<1>6. Ext(seen, paid) /\ Payable(paid, a, bal)
  <2>1. CASE a # b
    <3>1. PICK x : Puts(seen, paid, b, x)
      BY <1>4, <1>5, <2>1, AddToBalanceExt
    <3>2. Ext(seen, paid)
      BY <1>4, <1>5, <2>1, AddToBalanceExt
    <3>3. RecentAccount(paid, a) = RecentAccount(seen, a)
      BY <1>0, <2>1, <3>1, PutRecent, SMT
    <3>4. paid.orig[a].exact
      BY <1>3, <3>1 DEF Puts
    <3> HIDE DEF paid
    <3> QED
      BY <1>5, <3>2, <3>3, <3>4, SMT DEF Payable
  <2>2. CASE a = b
    BY <1>3, <1>4, <1>5, <2>2, ExtSelf, SMT DEF Payable
  <2> QED
    BY <2>1, <2>2
<1> HIDE DEF paid
<1>7. Ext(paid, sub) /\ sub.cur[a] # Absent
  <2>1. Good(paid) /\ Loaded(paid, a)
    BY <1>4, <1>6, ExtLoaded
  <2> QED
    BY <1>5, <1>6, <2>1, SubtractFromBalanceExt, SMT DEF Puts
<1> HIDE DEF sub, bal
<1>8. Ext(s, moved) /\ moved.cur[a] # Absent
  <2>1. Ext(s, sub)
    BY <1>3, <1>6, <1>7, ExtTrans
  <2> QED
    BY <1>3, <1>7, <2>1
<1> HIDE DEF moved, cond
<1>9. Good(moved) /\ Loaded(moved, a) /\ WellFormed(moved)
  BY <1>8, ExtLoaded
<1> DEFINE e == [moved.cur[a] EXCEPT !.destructed = TRUE]
<1>10. moved.cur[a] \in AccountState /\ Recent(moved, a) = moved.cur[a]
       /\ RecentAccount(moved, a) = moved.cur[a].acct
  BY <1>8, <1>9, Typed DEF Recent, RecentAccount
<1>11. e \in AccountState /\ e.storage = moved.cur[a].storage /\ e.acct = moved.cur[a].acct
  BY <1>10 DEF AccountState
<1>12. SelfDestruct(s, a, b) = [moved EXCEPT !.cur[a] = e]
  BY <1>1
<1>13. Holds(moved.orig[a], moved.cur[a].acct, moved.inc)
  BY <1>9, <1>10, RecentEntry DEF Entry
<1> HIDE DEF e
<1>14. Ext(moved, SelfDestruct(s, a, b))
  BY <1>9, <1>10, <1>11, <1>12, <1>13, PutExt, SMT
<1> QED
  BY <1>8, <1>14, ExtTrans

\* destruct_suicides and destruct_touched_dead only take accounts away.
LEMMA DestructFinals ==
    ASSUME NEW s, Good(s)
    PROVE  LET t == Destruct(s)
           IN  Finals(t) /\ t.orig = s.orig /\ t.inc = s.inc
<1> DEFINE gone(c) ==
             \/ /\ c.destructed
                /\ ~Cancun \/ (c.acct # NoAccount /\ c.acct.inc = s.inc)
             \/ c.touched /\ IsDead(c.acct)
           d == [a \in Addr |-> IF s.cur[a] # Absent /\ gone(s.cur[a])
                                THEN [s.cur[a] EXCEPT !.acct = NoAccount]
                                ELSE s.cur[a]]
           t == [s EXCEPT !.cur = d]
<1>1. Destruct(s) = t
  BY DEF Destruct
<1>2. \A a \in Addr : \/ d[a] = s.cur[a]
                      \/ s.cur[a] # Absent /\ d[a] = [s.cur[a] EXCEPT !.acct = NoAccount]
  <2> HIDE DEF gone
  <2> QED OBVIOUS
<1> HIDE DEF d
<1>3. WellFormed(s) /\ Entries(s)
  BY DEF Good
<1>4. t.cur = d /\ t.orig = s.orig /\ t.inc = s.inc
  BY <1>3 DEF WellFormed, State
<1> HIDE DEF t
<1>5. ASSUME NEW a \in Addr, d[a] # Absent PROVE Final(s.orig[a], d[a], s.inc)
  <2>1. CASE d[a] = s.cur[a]
    <3>1. s.orig[a] # Absent
      BY <1>3, <1>5, <2>1 DEF WellFormed
    <3> QED
      BY <1>3, <1>5, <2>1, <3>1 DEF Entries, Entry, Holds, Backed, Final
  <2>2. CASE s.cur[a] # Absent /\ d[a] = [s.cur[a] EXCEPT !.acct = NoAccount]
    <3>1. s.cur[a] \in AccountState
      BY <1>3, <2>2 DEF WellFormed, State
    <3>2. d[a].acct = NoAccount
      BY <2>2, <3>1 DEF AccountState
    <3> QED
      BY <3>2, SMT DEF Final, Balance
  <2> QED
    BY <1>2, <2>1, <2>2
<1> QED
  BY <1>1, <1>4, <1>5 DEF Finals

LEMMA EntriesFinals ==
    ASSUME NEW s, Good(s)
    PROVE  Finals(s)
<1> SUFFICES ASSUME NEW a \in Addr, s.cur[a] # Absent
             PROVE  Final(s.orig[a], s.cur[a], s.inc)
  BY DEF Finals
<1>1. s.orig[a] # Absent /\ Entries(s)
  BY DEF Good, WellFormed
<1> QED
  BY <1>1 DEF Entries, Entry, Holds, Backed, Final

-----------------------------------------------------------------------------
(* can_merge under relaxed validation: try_fix_account_mismatch.           *)

\* What fixing one account does: the original becomes the actual account x,
\* and the constraint on the original balance keeps the current one above 0.
LEMMA FixOne ==
    ASSUME NEW o \in Original, o.acct \in Account, NEW x \in Account,
           o.acct.code = x.code, o.acct.inc = x.inc, o.acct.nonce = x.nonce,
           ~o.exact, x.balance >= o.min, NEW inc
    PROVE  LET p == FixOriginal(o, x)
           IN  /\ p \in Original /\ p.acct = x /\ p.storage = o.storage /\ p.min = o.min
               /\ \A e \in AccountState : Entry(o, e, inc) =>
                    /\ Entry(p, e, inc)
                    /\ e.acct # NoAccount =>
                         /\ FixCurrent(e, o, x) \in AccountState
                         /\ Entry(p, FixCurrent(e, o, x), inc)
<1> DEFINE z == [o.acct EXCEPT !.balance = x.balance]
           p == [o EXCEPT !.acct = z, !.exact = TRUE]
<1>0. FixOriginal(o, x) = p
  BY DEF FixOriginal
<1>1. z = x
  BY DEF Account
<1> HIDE DEF z
<1>2. /\ p \in Original /\ p.acct = x /\ p.storage = o.storage /\ p.min = o.min
      /\ p.exact
  BY <1>1 DEF Original
<1> HIDE DEF p
<1>3. /\ x # NoAccount /\ o.acct # NoAccount /\ (Vacant(x) <=> Vacant(o.acct))
      /\ o.min \in Int /\ x.balance \in Int /\ o.acct.balance \in Int
  BY MapAssumption DEF Vacant, Nonce, HasCode, Original, Account
<1>4. ASSUME NEW e \in AccountState, Entry(o, e, inc)
      PROVE  Entry(p, e, inc)
  BY <1>2, <1>3, <1>4 DEF Entry, Holds, Backed, Descends, Stored
<1>5. ASSUME NEW e \in AccountState, Entry(o, e, inc), e.acct # NoAccount
      PROVE  /\ FixCurrent(e, o, x) \in AccountState
             /\ Entry(p, FixCurrent(e, o, x), inc)
  <2> DEFINE y == [e.acct EXCEPT !.balance = @ + (x.balance - o.acct.balance)]
             f == [e EXCEPT !.acct = y]
  <2>1. e.acct \in Account /\ e.acct.balance \in Int
    BY <1>5 DEF AccountState, Account
  <2>2. /\ y \in Account /\ y.balance = e.acct.balance + (x.balance - o.acct.balance)
        /\ y.inc = e.acct.inc /\ y.nonce = e.acct.nonce /\ y.code = e.acct.code
    BY <1>3, <2>1, SMT DEF Account
  <2>3. e # Absent
    BY MapAssumption
  <2>4. FixCurrent(e, o, x) = f
    BY <2>3 DEF FixCurrent
  <2> HIDE DEF y
  <2>5. f \in AccountState /\ f.acct = y /\ f.storage = e.storage
    BY <2>2 DEF AccountState
  <2> HIDE DEF f
  <2>6. y # NoAccount /\ (Vacant(y) <=> Vacant(e.acct))
    BY <1>5, <2>1, <2>2, MapAssumption DEF Vacant, Nonce, HasCode
  <2>7. y.balance >= 0
    <3>1. o.acct.balance - e.acct.balance <= o.min
      BY <1>3, <1>5 DEF Entry, Holds, Backed, Balance
    <3> QED
      BY <1>3, <2>1, <2>2, <3>1, SMT
  <2>8. Holds(p, y, inc)
    BY <1>2, <1>3, <1>5, <2>2, <2>6, <2>7 DEF Entry, Holds, Backed, Descends, Balance
  <2>9. Stored(p, f)
    BY <1>2, <1>5, <2>5, <2>6 DEF Entry, Stored
  <2> QED
    BY <2>4, <2>5, <2>8, <2>9 DEF Entry
<1> QED
  BY <1>0, <1>2, <1>4, <1>5

-----------------------------------------------------------------------------
(* The steps of a transaction.                                             *)

\* Where a running execution stands before step n of tx: nothing is changed
\* before validation, no slot is read before the code runs, the sender can pay
\* the fee once validated, and the code runs at an account that is there in
\* its own frame and in the one below.
Phase(s, tx, n) ==
    /\ n = 1 => \A a \in Addr : s.cur[a] = Absent /\ s.saved[a] = Absent
    /\ n <= 3 => \A a \in Addr : s.orig[a] # Absent => s.orig[a].storage = NoSlots
    /\ n = 2 => /\ s.orig[tx.from] # Absent /\ s.orig[tx.from].exact
                /\ Balance(RecentAccount(s, tx.from)) >= Fee
    /\ n = 3 /\ tx.to # Absent => s.cur[tx.to] # Absent
    /\ n >= 4 => /\ s.cur[Target(tx)] # Absent
                 /\ s.saved[Target(tx)] # Absent
                 /\ ~Vacant(RecentAccount(s, Target(tx)))

\* What was read is as it was, but for the nonce set_original_nonce gives the
\* sender of a speculation.
Seen(s, t, first) ==
    /\ t.inc = s.inc
    /\ \A a \in Addr : s.orig[a] # Absent =>
         /\ t.orig[a] # Absent
         /\ t.orig[a].storage = s.orig[a].storage
         /\ \/ t.orig[a].acct = s.orig[a].acct
            \/ /\ first
               /\ s.orig[a].storage = NoSlots
               /\ t.orig[a].acct # NoAccount
               /\ \/ t.orig[a].acct.inc = 0
                  \/ /\ s.orig[a].acct # NoAccount
                     /\ t.orig[a].acct.inc = s.orig[a].acct.inc

LEMMA ExtSeen == ASSUME NEW s, NEW t, Ext(s, t), NEW first PROVE Good(t) /\ Seen(s, t, first)
BY DEF Ext, View, Seen

LEMMA ValidateGood ==
    ASSUME NEW s, Good(s), NEW tx, IsTx(tx), Loaded(s, tx.from),
           NEW first \in BOOLEAN, s.out = "running", Phase(s, tx, 1)
    PROVE  LET t == Validate(s, tx, first)
           IN  /\ Good(t) /\ Seen(s, t, first)
               /\ t.out \in {"running", "err"}
               /\ t.out = "running" => Phase(t, tx, 2)
<1> DEFINE u == IF first THEN SetOriginalNonce(s, tx.from, tx.nonce) ELSE s
           v == SetValidateExactBalance(u, tx.from)
           w == RecentAccount(u, tx.from)
<1>0. tx.nonce \in Nat /\ tx.from \in Addr
  BY DEF IsTx, Transaction
<1>1. /\ \A a \in Addr : s.cur[a] = Absent /\ s.saved[a] = Absent
      /\ \A a \in Addr : s.orig[a] # Absent => s.orig[a].storage = NoSlots
  BY SMT DEF Phase
<1>2. /\ Good(u) /\ Seen(s, u, first) /\ u.out = "running"
      /\ \A a \in Addr : u.orig[a] # Absent => s.orig[a] # Absent
  <2>1. CASE first
    <3>1. u = SetOriginalNonce(s, tx.from, tx.nonce)
      BY <2>1
    <3> HIDE DEF u
    <3>2. /\ Good(u) /\ u.inc = s.inc /\ u.out = s.out
          /\ \A b \in Addr \ {tx.from} : u.orig[b] = s.orig[b]
          /\ u.orig[tx.from] # Absent /\ u.orig[tx.from].storage = s.orig[tx.from].storage
          /\ u.orig[tx.from].acct # NoAccount
          /\ \/ u.orig[tx.from].acct.inc = 0
             \/ /\ s.orig[tx.from].acct # NoAccount
                /\ u.orig[tx.from].acct.inc = s.orig[tx.from].acct.inc
      BY <1>0, <1>1, <3>1, SetOriginalNonceGood, SMT
    <3> QED
      BY <1>0, <1>1, <2>1, <3>2 DEF Seen, Loaded
  <2>2. CASE ~first
    BY <2>2 DEF Seen
  <2> QED
    BY <2>1, <2>2
<1>3. /\ Validate(s, tx, first) = v \/ Validate(s, tx, first) = End(v, "err")
      /\ ~(Balance(w) >= Fee) => Validate(s, tx, first) = End(v, "err")
  BY DEF Validate
<1> HIDE DEF u
<1>4. Loaded(u, tx.from)
  BY <1>2 DEF Seen, Loaded
<1>5. Ext(u, v) /\ SameAccounts(u, v) /\ v.orig[tx.from].exact
  BY <1>2, <1>4, SetValidateExactBalanceExt
<1>6. \A a \in Addr : v.orig[a] # Absent => s.orig[a] # Absent
  <2>1. SameReads(u, v)
    BY <1>2, <1>4, SetValidateExactBalanceType DEF Good
  <2> QED
    BY <1>2, <2>1 DEF SameReads
<1> HIDE DEF v
<1>7. Good(v) /\ Seen(s, v, first) /\ v.out = "running" /\ RecentAccount(v, tx.from) = w
  <2>1. Good(v) /\ v.out = "running" /\ RecentAccount(v, tx.from) = w
    BY <1>0, <1>2, <1>5 DEF Ext, SameAccounts
  <2>2. Seen(s, v, first)
    BY <1>2, <1>5, SMT DEF Ext, View, Seen
  <2> QED
    BY <2>1, <2>2
<1>8. \A a \in Addr : v.orig[a] # Absent => v.orig[a].storage = NoSlots
  BY <1>1, <1>6, <1>7 DEF Seen
<1>9. Good(End(v, "err")) /\ Seen(s, End(v, "err"), first) /\ End(v, "err").out = "err"
  <2>1. Ext(v, v) /\ "err" \in Outcome
    BY <1>7, ExtSelf DEF Outcome
  <2>2. /\ Ext(v, End(v, "err")) /\ End(v, "err").out = "err" /\ End(v, "err").orig = v.orig
    BY <2>1, EndExt, SMT
  <2> QED
    BY <1>7, <2>2, SMT DEF Ext, View, Seen
<1>10. Balance(w) >= Fee => Phase(v, tx, 2)
  <2>1. v.orig[tx.from] # Absent
    BY <1>4, <1>5, ExtLoaded DEF Loaded
  <2> QED
    BY <1>5, <1>7, <1>8, <2>1, SMT DEF Phase
<1> HIDE DEF w
<1> QED
  BY <1>3, <1>7, <1>9, <1>10

LEMMA ChargeGood ==
    ASSUME NEW s, Good(s), NEW tx, IsTx(tx), Loaded(s, tx.from), Loaded(s, Beneficiary),
           tx.to # Absent => Loaded(s, tx.to), Phase(s, tx, 2)
    PROVE  LET t == Charge(s, tx)
           IN  Ext(s, t) /\ Phase(t, tx, 3)
<1> DEFINE n == Nonce(RecentAccount(s, tx.from)) + 1
           s1 == IF tx.to = Absent THEN s ELSE SetNonce(s, tx.from, n)
           s2 == SubtractFromBalance(s1, tx.from, Fee)
           s3 == Access(s2, Beneficiary)
           s4 == Access(s3, tx.from)
           s5 == IF tx.to = Absent THEN s4 ELSE Access(s4, tx.to)
<1>0. Charge(s, tx) = s5 /\ tx.from \in Addr
  BY DEF Charge, Loaded
<1>1. n \in Nat \ {0}
  BY RecentType, BalanceType, SMT DEF Good
<1>2. /\ \A a \in Addr : s.orig[a] # Absent => s.orig[a].storage = NoSlots
      /\ s.orig[tx.from].exact /\ Balance(RecentAccount(s, tx.from)) >= Fee
  BY SMT DEF Phase
<1> HIDE DEF n
<1>3. Ext(s, s1) /\ s1.orig = s.orig /\ Payable(s1, tx.from, Fee)
  <2>1. CASE tx.to = Absent
    BY <1>2, <2>1, ExtSelf DEF Payable
  <2>2. CASE tx.to # Absent
    <3>1. Ext(s, s1)
      BY <1>1, <2>2, SetNonceExt
    <3>2. PICK x \in Account : Puts(s, s1, tx.from, x)
                               /\ x.balance = Balance(RecentAccount(s, tx.from))
      BY <1>1, <2>2, SetNonceExt
    <3>3. RecentAccount(s1, tx.from) = x /\ x # NoAccount /\ s1.orig = s.orig
      BY <1>0, <3>2, PutRecent, MapAssumption, SMT DEF Puts
    <3> HIDE DEF s1
    <3> QED
      BY <1>2, <3>1, <3>2, <3>3 DEF Payable, Balance
  <2> QED
    BY <2>1, <2>2
<1> HIDE DEF s1
<1>4. Ext(s, s2) /\ s2.orig = s.orig
  <2>1. Good(s1) /\ Loaded(s1, tx.from)
    BY <1>3, ExtLoaded
  <2>2. Ext(s1, s2) /\ \E x : Puts(s1, s2, tx.from, x)
    BY <1>3, <2>1, SubtractFromBalanceExt, RunAssumption
  <2> QED
    BY <1>3, <2>2, ExtTrans DEF Puts
<1> HIDE DEF s2
<1>5. Ext(s, s3) /\ s3.orig = s.orig
  <2>1. Good(s2) /\ Loaded(s2, Beneficiary)
    BY <1>4, ExtLoaded
  <2> QED
    BY <1>4, <2>1, AccessExt, ExtTrans, SMT DEF Puts
<1> HIDE DEF s3
<1>6. Ext(s, s4) /\ s4.orig = s.orig
  <2>1. Good(s3) /\ Loaded(s3, tx.from)
    BY <1>5, ExtLoaded
  <2> QED
    BY <1>5, <2>1, AccessExt, ExtTrans, SMT DEF Puts
<1> HIDE DEF s4
<1>7. Ext(s, s5) /\ s5.orig = s.orig /\ (tx.to # Absent => s5.cur[tx.to] # Absent)
  <2>1. CASE tx.to = Absent
    BY <1>6, <2>1
  <2>2. CASE tx.to # Absent
    <3>1. Good(s4) /\ Loaded(s4, tx.to)
      BY <1>6, <2>2, ExtLoaded
    <3> QED
      BY <1>6, <2>2, <3>1, AccessExt, ExtTrans, SMT DEF Puts
  <2> QED
    BY <2>1, <2>2
<1> HIDE DEF s5
<1>8. Phase(s5, tx, 3)
  BY <1>2, <1>7, SMT DEF Phase
<1> QED
  BY <1>0, <1>7, <1>8

\* An execution goes on to step n, or has come to an outcome.
Goes(t, tx, n) ==
    /\ t.out \in {"running", "ok", "fail", "err"}
    /\ t.out = "running" => Phase(t, tx, n)

LEMMA EndGoes ==
    ASSUME NEW s, NEW t, Ext(s, t), NEW o \in {"ok", "fail", "err"}, NEW tx, NEW n
    PROVE  Ext(s, End(t, o)) /\ Goes(End(t, o), tx, n)
BY EndExt, SMT DEF Outcome, Goes

LEMMA EnterCallGood ==
    ASSUME NEW s, Good(s), NEW tx, IsTx(tx), tx.to # Absent, Loaded(s, tx.from),
           Loaded(s, tx.to), Phase(s, tx, 3), s.out = "running"
    PROVE  LET t == EnterCall(s, tx)
           IN  Ext(s, t) /\ Goes(t, tx, 4)
<1> DEFINE s0 == Push(s)
           s1 == RecordDebit(s0, tx.from, tx.value)
           s2 == Transfer(s1, tx.from, tx.to, tx.value)
           s3 == PopReject(s1)
<1>0. /\ tx.value \in Nat /\ Target(tx) = tx.to /\ tx.from \in Addr /\ tx.to \in Addr
      /\ s.cur[tx.to] # Absent
      /\ \A a \in Addr : s.orig[a] # Absent => s.orig[a].storage = NoSlots
  BY SMT DEF IsTx, Transaction, Target, Phase, Loaded
<1>1. /\ ~CanDebit(s, tx.from, tx.value) => EnterCall(s, tx) = End(s3, "fail")
      /\ CanDebit(s, tx.from, tx.value) /\ HasCode(RecentAccount(s2, tx.to)) =>
            EnterCall(s, tx) = s2
      /\ CanDebit(s, tx.from, tx.value) /\ ~HasCode(RecentAccount(s2, tx.to)) =>
            EnterCall(s, tx) = End(s2, "ok")
  BY DEF EnterCall
<1>2. /\ Ext(s, s0) /\ s0.saved[tx.to] # Absent /\ s0.out = "running"
      /\ CanDebit(s0, tx.from, tx.value) <=> CanDebit(s, tx.from, tx.value)
  BY <1>0, PushExt DEF CanDebit
<1> HIDE DEF s0
<1>3. /\ Ext(s, s1) /\ s1.saved[tx.to] # Absent /\ s1.out = "running"
      /\ CanDebit(s, tx.from, tx.value) => Payable(s1, tx.from, tx.value)
  <2>1. Good(s0) /\ Loaded(s0, tx.from)
    BY <1>2, ExtLoaded
  <2>2. Ext(s0, s1) /\ SameAccounts(s0, s1)
        /\ (CanDebit(s0, tx.from, tx.value) => Payable(s1, tx.from, tx.value))
    BY <1>0, <2>1, RecordDebitExt
  <2> QED
    BY <1>2, <2>2, ExtTrans DEF SameAccounts
<1> HIDE DEF s1
<1>4. Good(s1) /\ Loaded(s1, tx.from) /\ Loaded(s1, tx.to)
  BY <1>3, ExtLoaded
<1>5. CASE ~CanDebit(s, tx.from, tx.value)
  <2>1. Ext(s, s3)
    BY <1>3, <1>4, PopRejectExt, ExtTrans
  <2> HIDE DEF s3
  <2> QED
    BY <1>1, <1>5, <2>1, EndGoes
<1>6. CASE CanDebit(s, tx.from, tx.value)
  <2>1. /\ Ext(s1, s2) /\ s2.saved = s1.saved /\ s2.out = s1.out
        /\ s2.cur[tx.to] # Absent /\ RecentAccount(s2, tx.to) # NoAccount
    BY <1>0, <1>3, <1>4, <1>6, TransferExt, SMT
  <2>2. Ext(s, s2)
    BY <1>3, <2>1, ExtTrans
  <2> HIDE DEF s2
  <2>3. CASE HasCode(RecentAccount(s2, tx.to))
    <3>1. ~Vacant(RecentAccount(s2, tx.to))
      BY <2>3 DEF Vacant
    <3>2. Goes(s2, tx, 4)
      BY <1>0, <1>3, <2>1, <3>1, SMT DEF Goes, Phase
    <3> QED
      BY <1>1, <1>6, <2>2, <2>3, <3>2
  <2>4. CASE ~HasCode(RecentAccount(s2, tx.to))
    BY <1>1, <1>6, <2>2, <2>4, EndGoes
  <2> QED
    BY <2>3, <2>4
<1> QED
  BY <1>5, <1>6

LEMMA EnterCreateGood ==
    ASSUME NEW s, Good(s), NEW tx, IsTx(tx), Loaded(s, tx.from),
           Loaded(s, Target(tx)), Phase(s, tx, 3), s.out = "running"
    PROVE  LET t == EnterCreate(s, tx)
           IN  Ext(s, t) /\ Goes(t, tx, 4)
<1> DEFINE new == Target(tx)
           v == tx.value
           s1 == RecordDebit(s, tx.from, v)
           n == Nonce(RecentAccount(s1, tx.from)) + 1
           s2 == SetNonce(s1, tx.from, n)
           s3 == Access(s2, new)
           s4 == Push(s3)
           s5 == CreateContract(s4, new)
           s6 == SetNonce(s5, new, 1)
           s7 == Transfer(s6, tx.from, new, v)
           can == CanDebit(s, tx.from, v)
           \* the sender can still pay, and no slot has been read
           Ok(t) == /\ Ext(s, t) /\ t.out = "running"
                    /\ can => Payable(t, tx.from, v)
                    /\ \A a \in Addr : t.orig[a] # Absent => t.orig[a].storage = NoSlots
<1>0. v \in Nat /\ tx.from \in Addr /\ new \in Addr
      /\ \A a \in Addr : s.orig[a] # Absent => s.orig[a].storage = NoSlots
  BY SMT DEF IsTx, Transaction, Phase
<1>1. /\ ~can => EnterCreate(s, tx) = End(s2, "fail")
      /\ can /\ Vacant(RecentAccount(s3, new)) => EnterCreate(s, tx) = s7
      /\ can /\ ~Vacant(RecentAccount(s3, new)) => EnterCreate(s, tx) = End(s3, "fail")
  BY DEF EnterCreate, Vacant
\* t puts an account with the same balance at a.
<1>p. ASSUME NEW t, NEW u, NEW a, Ok(t), Ext(t, u), NEW x, Puts(t, u, a, x), a \in Addr,
             Balance(x) = Balance(RecentAccount(t, a))
      PROVE  Ok(u)
  <2>1. Ext(s, u) /\ u.out = "running"
    BY <1>p, ExtTrans DEF Puts
  <2>2. \A b \in Addr : Balance(RecentAccount(u, b)) = Balance(RecentAccount(t, b))
    BY <1>p, PutRecent, SMT
  <2>3. u.orig = t.orig
    BY <1>p DEF Puts
  <2> QED
    BY <1>0, <1>p, <2>1, <2>2, <2>3 DEF Payable
<1> HIDE DEF can
<1>2. Ok(s1)
  <2>1. Ext(s, s1) /\ SameAccounts(s, s1) /\ (can => Payable(s1, tx.from, v))
    BY <1>0, RecordDebitExt DEF can
  <2>2. SameReads(s, s1)
    BY <1>0, RecordDebitType, SMT DEF Good
  <2> HIDE DEF s1
  <2> QED
    BY <1>0, <2>1, <2>2 DEF Ext, View, SameAccounts, SameReads
<1> HIDE DEF s1
<1>3. n \in Nat \ {0}
  BY <1>2, ExtLoaded, RecentType, BalanceType, SMT
<1> HIDE DEF n
<1>4. Ok(s2)
  <2>1. Good(s1) /\ Loaded(s1, tx.from)
    BY <1>2, ExtLoaded
  <2>2. PICK x \in Account : Puts(s1, s2, tx.from, x)
                             /\ x.balance = Balance(RecentAccount(s1, tx.from))
    BY <1>3, <2>1, SetNonceExt
  <2>3. Ext(s1, s2) /\ Balance(x) = x.balance
    BY <1>3, <2>1, SetNonceExt, MapAssumption DEF Balance
  <2> HIDE DEF s2
  <2> QED
    BY <1>0, <1>2, <1>p, <2>2, <2>3
<1> HIDE DEF s2
<1>5. Ok(s3) /\ s3.cur[new] # Absent
  <2>1. Good(s2) /\ Loaded(s2, new)
    BY <1>4, ExtLoaded
  <2>2. Ext(s2, s3) /\ Puts(s2, s3, new, RecentAccount(s2, new))
    BY <2>1, AccessExt
  <2>3. s3.cur[new] # Absent
    BY <2>2 DEF Puts
  <2> HIDE DEF s3
  <2> QED
    BY <1>0, <1>4, <1>p, <2>2, <2>3
<1> HIDE DEF s3
<1>6. CASE ~can
  BY <1>1, <1>4, <1>6, EndGoes
<1>7. CASE can /\ ~Vacant(RecentAccount(s3, new))
  BY <1>1, <1>5, <1>7, EndGoes
<1>8. CASE can /\ Vacant(RecentAccount(s3, new))
  <2>1. Ok(s4) /\ s4.saved[new] # Absent /\ Vacant(RecentAccount(s4, new))
    <3>1. Good(s3)
      BY <1>5 DEF Ext
    <3>2. /\ Ext(s3, s4) /\ s4.orig = s3.orig /\ s4.saved = s3.cur /\ s4.out = s3.out
          /\ \A a \in Addr : RecentAccount(s4, a) = RecentAccount(s3, a)
      BY <1>5, <3>1, PushExt
    <3> HIDE DEF s4
    <3>3. Ext(s, s4)
      BY <1>5, <3>2, ExtTrans
    <3> QED
      BY <1>0, <1>5, <1>8, <3>2, <3>3 DEF Payable
  <2> HIDE DEF s4
  <2>2. Ok(s5) /\ s5.saved[new] # Absent
    <3>1. Good(s4) /\ Loaded(s4, new)
      BY <2>1, ExtLoaded
    <3>2. PICK x \in Account : Puts(s4, s5, new, x)
                               /\ x.balance = Balance(RecentAccount(s4, new))
      BY <2>1, <3>1, CreateContractExt
    <3>3. Ext(s4, s5) /\ Balance(x) = x.balance
      BY <2>1, <3>1, CreateContractExt, MapAssumption DEF Balance
    <3>4. s5.saved = s4.saved
      BY <3>2 DEF Puts
    <3> HIDE DEF s5
    <3> QED
      BY <1>0, <1>p, <2>1, <3>2, <3>3, <3>4
  <2> HIDE DEF s5
  <2>3. Ok(s6) /\ s6.saved[new] # Absent /\ ~Vacant(RecentAccount(s6, new))
    <3>1. Good(s5) /\ Loaded(s5, new)
      BY <2>2, ExtLoaded
    <3>2. PICK x \in Account : Puts(s5, s6, new, x) /\ ~Vacant(x)
                               /\ x.balance = Balance(RecentAccount(s5, new))
      BY <3>1, SetNonceExt, SMT
    <3>3. Ext(s5, s6) /\ Balance(x) = x.balance
      BY <3>1, SetNonceExt, MapAssumption, SMT DEF Balance
    <3>4. s6.saved = s5.saved /\ RecentAccount(s6, new) = x
      BY <1>0, <3>2, PutRecent, SMT DEF Puts
    <3> HIDE DEF s6
    <3> QED
      BY <1>0, <1>p, <2>2, <3>2, <3>3, <3>4
  <2> HIDE DEF s6
  <2>4. Good(s6) /\ Loaded(s6, tx.from) /\ Loaded(s6, new)
    BY <2>3, ExtLoaded
  <2>5. /\ Ext(s6, s7) /\ s7.saved = s6.saved /\ s7.out = s6.out /\ s7.cur[new] # Absent
        /\ ~Vacant(RecentAccount(s7, new))
    BY <1>0, <1>8, <2>3, <2>4, TransferExt, SMT
  <2>6. Ext(s, s7)
    BY <2>3, <2>5, ExtTrans
  <2> HIDE DEF s7
  <2>7. Goes(s7, tx, 4)
    BY <2>3, <2>5, SMT DEF Goes, Phase
  <2> QED
    BY <1>1, <1>8, <2>6, <2>7
<1> QED
  BY <1>6, <1>7, <1>8

\* The code runs at self, which stays there.
AtWork(s, self) ==
    /\ s.cur[self] # Absent /\ s.saved[self] # Absent
    /\ ~Vacant(RecentAccount(s, self))

LEMMA StoreGood ==
    ASSUME NEW s, Good(s), NEW self, Loaded(s, self), AtWork(s, self), s.out = "running",
           NEW k \in Key, NEW w \in Word, s.orig[self].storage[k] # Absent
    PROVE  LET t == SetStorage(s, self, k, w)
           IN  Ext(s, t) /\ t.out = "running" /\ AtWork(t, self)
BY SetStorageExt, SMT DEF AtWork

LEMMA RunOpGood ==
    ASSUME NEW s, Good(s), NEW op \in Op, NEW self, Loaded(s, self), AtWork(s, self),
           s.out = "running",
           op.op \in {"sbal", "sdead", "pay", "kill"} => Loaded(s, op.a),
           op.op = "sadd" => ~GetMisses(s, self, op.k),
           op.op \in {"sadd", "sbal", "sdead"} => s.orig[self].storage[op.k] # Absent
    PROVE  LET t == RunOp(s, op, self)
           IN  /\ Ext(s, t)
               /\ t.out \in {"running", "ok", "fail", "err"}
               /\ t.out = "running" => AtWork(t, self)
<1>0. /\ op.k \in Key /\ op.n \in Nat
      /\ op.op \in {"sadd", "sbal", "sdead", "pay", "kill", "revert"}
      /\ WellFormed(s) /\ self \in Addr
  BY DEF Op, Good, Loaded
<1>1. CASE op.op = "sadd"
  <2> DEFINE w == Wrap(GetStorage(s, self, op.k) + op.n)
  <2>1. w \in Word
    BY <1>0, <1>1, GetStorageType, WrapType, SMT DEF Word
  <2>2. RunOp(s, op, self) = SetStorage(s, self, op.k, w)
    BY <1>1 DEF RunOp
  <2> HIDE DEF w
  <2> QED
    BY <1>0, <1>1, <2>1, <2>2, StoreGood, SMT
<1>2. CASE op.op = "sbal"
  <2> DEFINE w == Wrap(Balance(RecentAccount(s, op.a)))
             t == SetValidateExactBalance(s, op.a)
  <2>1. w \in Word
    BY <1>0, <1>2, RecentType, BalanceType, WrapType
  <2>2. RunOp(s, op, self) = SetStorage(t, self, op.k, w)
    BY <1>2 DEF RunOp
  <2>3. Ext(s, t) /\ SameAccounts(s, t)
    BY <1>2, SetValidateExactBalanceExt
  <2> HIDE DEF w, t
  <2>4. Good(t) /\ Loaded(t, self) /\ AtWork(t, self) /\ t.out = "running"
        /\ t.orig[self].storage[op.k] # Absent
    <3>1. Good(t) /\ Loaded(t, self)
      BY <2>3, ExtLoaded
    <3>2. t.orig[self].storage = s.orig[self].storage
      BY <1>0, <2>3 DEF Ext, View, Loaded
    <3> QED
      BY <1>0, <1>2, <2>3, <3>1, <3>2 DEF SameAccounts, AtWork
  <2>5. Ext(t, SetStorage(t, self, op.k, w))
        /\ SetStorage(t, self, op.k, w).out = "running"
        /\ AtWork(SetStorage(t, self, op.k, w), self)
    BY <1>0, <2>1, <2>4, StoreGood
  <2> QED
    BY <2>2, <2>3, <2>5, ExtTrans
<1>3. CASE op.op = "sdead"
  <2> DEFINE w == IF IsDead(RecentAccount(s, op.a)) THEN 1 ELSE 0
  <2>1. w \in Word
    BY WordAssumption, SMT DEF Word
  <2>2. RunOp(s, op, self) = SetStorage(s, self, op.k, w)
    BY <1>3 DEF RunOp
  <2> HIDE DEF w
  <2> QED
    BY <1>0, <1>3, <2>1, <2>2, StoreGood, SMT
<1>4. CASE op.op = "pay"
  <2> DEFINE t == RecordDebit(s, self, op.n)
             u == Transfer(t, self, op.a, op.n)
  <2>1. Ext(s, t) /\ SameAccounts(s, t) /\ (CanDebit(s, self, op.n) => Payable(t, self, op.n))
    BY <1>0, RecordDebitExt
  <2>2. /\ CanDebit(s, self, op.n) => RunOp(s, op, self) = u
        /\ ~CanDebit(s, self, op.n) => RunOp(s, op, self) = t
    BY <1>4 DEF RunOp
  <2> HIDE DEF t
  <2>3. Good(t) /\ Loaded(t, self) /\ Loaded(t, op.a) /\ AtWork(t, self) /\ t.out = "running"
    BY <1>0, <1>4, <2>1, ExtLoaded DEF SameAccounts, AtWork
  <2>4. CASE ~CanDebit(s, self, op.n)
    BY <2>1, <2>2, <2>3, <2>4
  <2>5. CASE CanDebit(s, self, op.n)
    <3>1. Ext(t, u) /\ u.saved = t.saved /\ u.out = t.out /\ u.cur[self] # Absent
          /\ (Vacant(RecentAccount(u, self)) <=> Vacant(RecentAccount(t, self)))
      BY <1>0, <2>1, <2>3, <2>5, TransferExt, SMT
    <3> HIDE DEF u
    <3>2. Ext(s, u)
      BY <2>1, <3>1, ExtTrans
    <3>3. AtWork(u, self) /\ u.out = "running"
      BY <2>3, <3>1 DEF AtWork
    <3> QED
      BY <2>2, <2>5, <3>2, <3>3
  <2> QED
    BY <2>4, <2>5
<1>5. CASE op.op = "kill"
  <2>1. Ext(s, SelfDestruct(s, self, op.a))
    BY <1>5, SelfDestructExt
  <2>2. RunOp(s, op, self) = End(SelfDestruct(s, self, op.a), "ok")
    BY <1>5 DEF RunOp
  <2> QED
    BY <2>1, <2>2, EndExt, SMT DEF Outcome
<1>6. CASE op.op = "revert"
  <2>1. RunOp(s, op, self) = End(PopReject(s), "fail")
    BY <1>6 DEF RunOp
  <2> QED
    BY <2>1, PopRejectExt, EndExt, SMT DEF Outcome
<1> QED
  BY <1>0, <1>1, <1>2, <1>3, <1>4, <1>5, <1>6

LEMMA LeaveGood ==
    ASSUME NEW s, Good(s), NEW tx, Loaded(s, Target(tx)), NEW n
    PROVE  Ext(s, Leave(s, tx)) /\ Goes(Leave(s, tx), tx, n)
<1> DEFINE t == IF tx.to = Absent THEN SetCode(s, Target(tx)) ELSE s
<1>1. Ext(s, t)
  BY SetCodeExt, ExtSelf
<1>2. Leave(s, tx) = End(t, "ok")
  BY DEF Leave
<1> HIDE DEF t
<1> QED
  BY <1>1, <1>2, EndGoes

\* A step of a transaction whose accounts and slots are loaded.
LEMMA StepOfGood ==
    ASSUME NEW s, Good(s), NEW tx, IsTx(tx), NEW n \in 1 .. LastStep(tx),
           NEW first \in BOOLEAN, s.out = "running", Phase(s, tx, n),
           \A a \in AccountsOf(tx, n) : Loaded(s, a),
           SlotsOf(s, tx, n) = {}
    PROVE  LET t == StepOf(s, tx, n, first)
           IN  Good(t) /\ Seen(s, t, first) /\ Goes(t, tx, n + 1)
<1>0. tx.code \in Seq(Op) /\ Len(tx.code) \in Nat /\ LastStep(tx) \in Nat /\ LastStep(tx) >= 4
      /\ tx.to \in Addr \union {Absent} /\ Target(tx) \in Addr
  BY SMT DEF IsTx, Transaction, LastStep
<1>1. CASE n = 1
  <2>1. Loaded(s, tx.from)
    BY <1>0, <1>1, SMT DEF AccountsOf
  <2>2. StepOf(s, tx, n, first) = Validate(s, tx, first)
    BY <1>0, <1>1, SMT DEF StepOf
  <2> QED
    BY <1>1, <2>1, <2>2, ValidateGood, SMT DEF Goes
<1>2. CASE n = 2
  <2>1. Loaded(s, tx.from) /\ Loaded(s, Beneficiary) /\ (tx.to # Absent => Loaded(s, tx.to))
    BY <1>0, <1>2, SMT DEF AccountsOf
  <2>2. StepOf(s, tx, n, first) = Charge(s, tx)
    BY <1>0, <1>2, SMT DEF StepOf
  <2>p. PICK t : t = Charge(s, tx)
    OBVIOUS
  <2>3. Ext(s, t) /\ Phase(t, tx, 3)
    BY <1>2, <2>1, <2>p, ChargeGood
  <2>4. t.out = "running"
    BY <2>1, <2>p, ChargeOut DEF Good
  <2> QED
    BY <1>2, <2>2, <2>p, <2>3, <2>4, ExtSeen, SMT DEF Goes
<1>3. CASE n = 3
  <2>p. PICK t : t = StepOf(s, tx, n, first)
    OBVIOUS
  <2>1. Loaded(s, tx.from) /\ Loaded(s, Target(tx))
    BY <1>0, <1>3, SMT DEF AccountsOf
  <2>2. Ext(s, t) /\ Goes(t, tx, 4)
    <3>1. CASE tx.to = Absent
      <4>1. t = EnterCreate(s, tx)
        BY <1>0, <1>3, <2>p, <3>1, SMT DEF StepOf
      <4> QED
        BY <1>3, <2>1, <4>1, EnterCreateGood
    <3>2. CASE tx.to # Absent
      <4>1. t = EnterCall(s, tx) /\ Target(tx) = tx.to
        BY <1>0, <1>3, <2>p, <3>2, SMT DEF StepOf, Target
      <4> QED
        BY <1>3, <2>1, <3>2, <4>1, EnterCallGood
    <3> QED
      BY <3>1, <3>2
  <2> QED
    BY <1>3, <2>p, <2>2, ExtSeen, SMT
<1>4. CASE n = LastStep(tx)
  <2>1. StepOf(s, tx, n, first) = Leave(s, tx)
    BY <1>0, <1>4, SMT DEF StepOf
  <2>2. Loaded(s, Target(tx))
    BY <1>0, <1>4, SMT DEF AccountsOf
  <2>3. Ext(s, Leave(s, tx)) /\ Goes(Leave(s, tx), tx, n + 1)
    BY <2>2, LeaveGood
  <2> QED
    BY <2>1, <2>3, ExtSeen
<1>5. CASE n \in 4 .. LastStep(tx) - 1
  <2>p. PICK op, self, t : op = tx.code[n - 3] /\ self = Target(tx)
                           /\ t = RunOp(s, op, self)
    OBVIOUS
  <2>1. op \in Op
    BY <1>0, <1>5, <2>p, SMT DEF LastStep
  <2>2. StepOf(s, tx, n, first) = t
    BY <1>0, <1>5, <2>p, SMT DEF StepOf
  <2>3. Loaded(s, self)
        /\ (op.op \in {"sbal", "sdead", "pay", "kill"} => Loaded(s, op.a))
    BY <1>0, <1>5, <2>p, SMT DEF AccountsOf
  <2>4. /\ op.op = "sadd" => ~GetMisses(s, self, op.k)
        /\ op.op \in {"sadd", "sbal", "sdead"} => ~SetMisses(s, self, op.k)
    BY <1>0, <1>5, <2>p DEF SlotsOf
  <2>5. AtWork(s, self)
    BY <1>0, <1>5, <2>p, SMT DEF Phase, AtWork
  <2>6. /\ Ext(s, t)
        /\ t.out \in {"running", "ok", "fail", "err"}
        /\ t.out = "running" => AtWork(t, self)
    BY <2>p, <2>1, <2>3, <2>4, <2>5, RunOpGood DEF SetMisses
  <2>7. t.out = "running" => Phase(t, tx, n + 1)
    <3>1. n + 1 \notin {1, 2, 3} /\ ~(n + 1 <= 3)
      BY <1>0, <1>5, SMT
    <3> QED
      BY <2>p, <2>6, <3>1 DEF Phase, AtWork
  <2> QED
    BY <2>2, <2>6, <2>7, ExtSeen DEF Goes
<1> QED
  BY <1>0, <1>1, <1>2, <1>3, <1>4, <1>5, SMT

-----------------------------------------------------------------------------
(* The end of a transaction, and can_merge.                                *)

\* What execute_final leaves of a good State is final, for what it has read.
LEMMA ExecuteFinalFinals ==
    ASSUME NEW s, Good(s), NEW tx, Loaded(s, tx.from), Loaded(s, Beneficiary)
    PROVE  /\ Finals(ExecuteFinal(s, tx))
           /\ View(s, ExecuteFinal(s, tx))
<1> DEFINE s1 == AddToBalance(s, tx.from, 0)
           s2 == AddToBalance(s1, Beneficiary, Fee)
<1>0. ExecuteFinal(s, tx) = Destruct(s2)
  BY DEF ExecuteFinal
<1>1. Ext(s, s1)
  BY AddToBalanceExt
<1> HIDE DEF s1
<1>2. Ext(s1, s2)
  BY <1>1, ExtLoaded, AddToBalanceExt, RunAssumption
<1> HIDE DEF s2
<1>3. Ext(s, s2) /\ Good(s2)
  BY <1>1, <1>2, ExtTrans DEF Ext
<1>4. Finals(Destruct(s2)) /\ Destruct(s2).orig = s2.orig /\ Destruct(s2).inc = s2.inc
  BY <1>3, DestructFinals
<1> QED
  BY <1>0, <1>3, <1>4 DEF Ext, View

\* fix_account_mismatch of a State that can_merge accepts: the State is good for
\* the accounts of the block state, whose balances it now starts from.
LEMMA FixedGood ==
    ASSUME NEW b \in Shared, NEW s, Good(s), NEW relaxed,
           \A a \in Addr : s.orig[a] # Absent => a \in Known(b) /\ Balance(b[a].second) >= 0,
           CanMerge(b, s, relaxed)
    PROVE  LET t == Fixed(b, s)
           IN  /\ Good(t) /\ t.inc = s.inc
               /\ \A a \in Addr : t.orig[a] # Absent =>
                    /\ s.orig[a] # Absent
                    /\ t.orig[a].acct = b[a].second
                    /\ t.orig[a].storage = s.orig[a].storage
<1> DEFINE fix(a) == s.orig[a] # Absent /\ s.orig[a].acct # b[a].second
           o == [a \in Addr |-> IF fix(a) THEN FixOriginal(s.orig[a], b[a].second)
                                          ELSE s.orig[a]]
           c == [a \in Addr |-> IF fix(a)
                                THEN FixCurrent(s.cur[a], s.orig[a], b[a].second)
                                ELSE s.cur[a]]
           t == Fixed(b, s)
<1>1. /\ WellFormed(s) /\ Entries(s) /\ s \in State
      /\ s.orig \in [Addr -> Original \union {Absent}]
      /\ s.cur \in [Addr -> AccountState \union {Absent}]
      /\ s.saved \in [Addr -> AccountState \union {Absent}]
  BY DEF Good, WellFormed, State
<1>2. WellFormed(t) /\ \A a \in Addr : t.orig[a] # Absent <=> s.orig[a] # Absent
  BY <1>1, FixedType DEF Keeps, SameReads
<1>3. t = [s EXCEPT !.orig = o, !.cur = c]
  BY DEF Fixed
<1>4. t.orig = o /\ t.cur = c /\ t.saved = s.saved /\ t.inc = s.inc
  BY <1>1, <1>3 DEF State
<1>5. \A a \in Addr : o[a] # Absent <=> s.orig[a] # Absent
  BY <1>2, <1>4
<1> HIDE DEF t
<1>6. ASSUME NEW a \in Addr, s.orig[a] # Absent
      PROVE  /\ o[a].acct = b[a].second /\ o[a].storage = s.orig[a].storage
             /\ o[a].min = s.orig[a].min
             /\ c[a] # Absent => s.cur[a] # Absent /\ Entry(o[a], c[a], s.inc)
             /\ s.saved[a] # Absent => Entry(o[a], s.saved[a], s.inc)
             /\ c[a] = Absent => s.cur[a] = Absent
  <2>1. /\ s.orig[a] \in Original /\ b[a] \in Delta
        /\ s.cur[a] # Absent => s.cur[a] \in AccountState /\ Entry(s.orig[a], s.cur[a], s.inc)
        /\ s.saved[a] # Absent => s.saved[a] \in AccountState /\ Entry(s.orig[a], s.saved[a], s.inc)
    BY <1>1, <1>6 DEF Shared, Known, Entries
  <2>2. CASE ~fix(a)
    <3>1. o[a] = s.orig[a] /\ c[a] = s.cur[a]
      BY <2>2
    <3>2. s.orig[a].acct = b[a].second
      BY <1>6, <2>2
    <3> HIDE DEF o, c, fix
    <3> QED
      BY <2>1, <3>1, <3>2
  <2>3. CASE fix(a)
    <3>1. /\ o[a] = FixOriginal(s.orig[a], b[a].second)
          /\ c[a] = FixCurrent(s.cur[a], s.orig[a], b[a].second)
      BY <2>3
    <3>2. CanFix(s, a, b[a].second, relaxed)
      BY <1>6, <2>3 DEF CanMerge, ReadSet, AccountMatches
    <3>3. s.orig[a].acct \in Account /\ b[a].second \in Account
      BY <2>1, <3>2 DEF CanFix, IsDead, Original, Delta
    <3>4. s.cur[a] # Absent => s.cur[a].acct # NoAccount
      BY <3>2 DEF CanFix, RecentAccount, Recent
    <3>5. s.cur[a] = Absent => FixCurrent(s.cur[a], s.orig[a], b[a].second) = Absent
      BY DEF FixCurrent
    <3>6. /\ s.orig[a].acct.code = b[a].second.code /\ s.orig[a].acct.inc = b[a].second.inc
          /\ s.orig[a].acct.nonce = b[a].second.nonce /\ ~s.orig[a].exact
          /\ b[a].second.balance >= s.orig[a].min
      BY <3>2 DEF CanFix
    <3> HIDE DEF o, c, fix
    <3>p. PICK w, x, inc : w = s.orig[a] /\ x = b[a].second /\ inc = s.inc
      OBVIOUS
    <3>q. /\ w \in Original /\ w.acct \in Account /\ x \in Account
          /\ w.acct.code = x.code /\ w.acct.inc = x.inc /\ w.acct.nonce = x.nonce
          /\ ~w.exact /\ x.balance >= w.min
      BY <2>1, <3>3, <3>6, <3>p
    <3>r. LET p == FixOriginal(w, x)
          IN  /\ p.acct = x /\ p.storage = w.storage /\ p.min = w.min
              /\ \A e \in AccountState : Entry(w, e, inc) =>
                    /\ Entry(p, e, inc)
                    /\ e.acct # NoAccount =>
                         /\ FixCurrent(e, w, x) \in AccountState
                         /\ Entry(p, FixCurrent(e, w, x), inc)
      BY <3>q, FixOne
    <3>7. /\ o[a].acct = b[a].second /\ o[a].storage = s.orig[a].storage
          /\ o[a].min = s.orig[a].min
          /\ s.saved[a] # Absent => Entry(o[a], s.saved[a], s.inc)
          /\ s.cur[a] # Absent => c[a] \in AccountState /\ Entry(o[a], c[a], s.inc)
      BY <2>1, <3>1, <3>4, <3>p, <3>r
    <3> QED
      BY <3>1, <3>5, <3>7, MapAssumption
  <2> QED
    BY <2>2, <2>3
<1> HIDE DEF o, c, fix
<1>7. Entries(t)
  BY <1>1, <1>4, <1>5, <1>6, SMT DEF Entries
<1> QED
  BY <1>2, <1>4, <1>5, <1>6, <1>7 DEF Good, t
=============================================================================
