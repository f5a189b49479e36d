------------------------------- MODULE State3 -------------------------------
(***************************************************************************)
(* The journaled view of the world one transaction executes against        *)
(* (category/execution/ethereum/state3).  A State keeps, per address,      *)
(*   orig: the account as it was first read from the block state, with the *)
(*         storage slots read and the relaxed-merge constraint on its      *)
(*         balance;                                                        *)
(*   cur:  the account as this transaction has changed it.                 *)
(* Every operation below is a function from State to State.  An operation  *)
(* that touches an address first needs that address in orig: the caller    *)
(* loads it from the block state (see ExecuteBlock!LoadAccount).           *)
(*                                                                         *)
(* Abstractions: the code of an account is only present or absent; gas,    *)
(* logs, transient storage, access lists and EIP-7702 are left out; a      *)
(* storage word ranges over 0 .. MaxWord and wraps.  Nested frames are one *)
(* frame: saved is the cur of the enclosing frame, which pop_reject        *)
(* restores.                                                               *)
(***************************************************************************)
EXTENDS Integers, Sequences

CONSTANTS Addr,       \* addresses
          Key,        \* storage keys
          MaxWord,    \* storage words are 0 .. MaxWord
          Cancun,     \* evm_rev() >= MONAD_ETH_CANCUN
          NoAccount,  \* the std::nullopt account
          Absent      \* not in the map

ASSUME WordAssumption == MaxWord \in Nat \ {0}
ASSUME RevAssumption == Cancun \in BOOLEAN

Word == 0 .. MaxWord

\* Account; whether it has code is all that is kept of code_hash.
Account == [balance : Int, nonce : Nat, code : BOOLEAN, inc : Nat]

\* AccountState and OriginalAccountState
AccountState ==
    [acct : Account \union {NoAccount}, storage : [Key -> Word \union {Absent}],
     touched : BOOLEAN, destructed : BOOLEAN]
Original ==
    [acct : Account \union {NoAccount}, storage : [Key -> Word \union {Absent}],
     exact : BOOLEAN, min : Int]

\* State, and how its execution stands
Outcome == {"running", "ok", "fail", "err", "throw"}
State ==
    [inc : Nat,
     orig : [Addr -> Original \union {Absent}],
     cur : [Addr -> AccountState \union {Absent}],
     saved : [Addr -> AccountState \union {Absent}],
     out : Outcome]

ASSUME MapAssumption ==
    /\ NoAccount \notin Account
    /\ Absent \notin Word
    /\ Absent \notin AccountState
    /\ Absent \notin Original

Wrap(x) == x % (MaxWord + 1)

NoSlots == [k \in Key |-> Absent]

\* Account{.incarnation = inc}
NewAccount(inc) == [balance |-> 0, nonce |-> 0, code |-> FALSE, inc |-> inc]

IsDead(acct) ==
    \/ acct = NoAccount
    \/ acct.balance = 0 /\ acct.nonce = 0 /\ ~acct.code

Balance(acct) == IF acct = NoAccount THEN 0 ELSE acct.balance
Nonce(acct) == IF acct = NoAccount THEN 0 ELSE acct.nonce
HasCode(acct) == acct # NoAccount /\ acct.code

\* An account that has done nothing yet: EIP-684 lets a contract be created
\* there.
Vacant(acct) == Nonce(acct) = 0 /\ ~HasCode(acct)

-----------------------------------------------------------------------------
\* OriginalAccountState(account)
OriginalAccountState(acct) ==
    [acct |-> acct, storage |-> NoSlots, exact |-> FALSE, min |-> 0]

\* State{block_state, incarnation}: nothing read, nothing changed, running.
FreshState(inc) ==
    [inc |-> inc,
     orig |-> [a \in Addr |-> Absent],
     cur |-> [a \in Addr |-> Absent],
     saved |-> [a \in Addr |-> Absent],
     out |-> "running"]

\* The execution ends this way.
End(st, out) == [st EXCEPT !.out = out]

\* original_account_state: the first read of an account is remembered.
Remember(st, a, acct) == [st EXCEPT !.orig[a] = OriginalAccountState(acct)]

\* recent_account_state, and what current_account_state copies into current_:
\* the AccountState part of the original, its cached slots included.
Recent(st, a) ==
    IF st.cur[a] # Absent
    THEN st.cur[a]
    ELSE [acct |-> st.orig[a].acct, storage |-> st.orig[a].storage,
          touched |-> FALSE, destructed |-> FALSE]

RecentAccount(st, a) == Recent(st, a).acct

\* set_original_nonce: speculate that the sender's earlier transactions ran.
SetOriginalNonce(st, a, n) ==
    LET acct == IF st.orig[a].acct = NoAccount THEN NewAccount(0)
                                               ELSE st.orig[a].acct
    IN  [st EXCEPT !.orig[a].acct = [acct EXCEPT !.nonce = n]]

SetValidateExactBalance(st, a) == [st EXCEPT !.orig[a].exact = TRUE]

\* The account an operation that changes a works on: one is created when
\* there is none.
Writable(st, a) ==
    IF RecentAccount(st, a) = NoAccount THEN NewAccount(st.inc)
                                        ELSE RecentAccount(st, a)

SetNonce(st, a, n) ==
    [st EXCEPT !.cur[a] = [Recent(st, a) EXCEPT
                              !.acct = [Writable(st, a) EXCEPT !.nonce = n]]]

AddToBalance(st, a, v) ==
    [st EXCEPT !.cur[a] = [Recent(st, a) EXCEPT
        !.acct = [Writable(st, a) EXCEPT !.balance = @ + v],
        !.touched = TRUE]]

SubtractFromBalance(st, a, v) ==
    [st EXCEPT !.cur[a] = [Recent(st, a) EXCEPT
        !.acct = [Writable(st, a) EXCEPT !.balance = @ - v],
        !.touched = TRUE]]

Access(st, a) == [st EXCEPT !.cur[a] = Recent(st, a)]

\* record_balance_constraint_for_debit: whether a can pay v now, and the state
\* with the lower bound (or exactness) the original balance must meet.
CanDebit(st, a, v) == Balance(RecentAccount(st, a)) >= v

RecordDebit(st, a, v) ==
    LET left == Balance(RecentAccount(st, a)) - v
        need == Balance(st.orig[a].acct) - left
    IN  IF ~CanDebit(st, a, v)
        THEN SetValidateExactBalance(st, a)
        ELSE IF need > st.orig[a].min
             THEN [st EXCEPT !.orig[a].min = need]
             ELSE st

Transfer(st, from, to, v) == AddToBalance(SubtractFromBalance(st, from, v), to, v)

CreateContract(st, a) ==
    [st EXCEPT !.cur[a] = [Recent(st, a) EXCEPT
        !.acct = [Writable(st, a) EXCEPT !.inc = st.inc]]]

\* deploy_contract_code -> set_code; the account may be gone.
SetCode(st, a) ==
    IF RecentAccount(st, a) = NoAccount
    THEN Access(st, a)
    ELSE [st EXCEPT !.cur[a] = [Recent(st, a) EXCEPT
              !.acct = [RecentAccount(st, a) EXCEPT !.code = TRUE]]]

-----------------------------------------------------------------------------
(* Storage.  A slot that is in neither map is read from the block state.   *)

\* get_storage reads through to the block state for the slot.
GetMisses(st, a, k) ==
    /\ Recent(st, a).storage[k] = Absent
    /\ st.orig[a].acct # NoAccount
    /\ RecentAccount(st, a).inc = st.orig[a].acct.inc
    /\ st.orig[a].storage[k] = Absent

GetStorage(st, a, k) ==
    IF Recent(st, a).storage[k] # Absent
    THEN Recent(st, a).storage[k]
    ELSE IF \/ st.orig[a].acct = NoAccount
            \/ RecentAccount(st, a).inc # st.orig[a].acct.inc
         THEN 0
         ELSE st.orig[a].storage[k]

\* set_storage reads through whenever the original has no value for the slot,
\* and first makes the account current.
SetMisses(st, a, k) == st.orig[a].storage[k] = Absent

RememberSlot(st, a, k, v) == [st EXCEPT !.orig[a].storage[k] = v]

SetStorage(st, a, k, v) ==
    [st EXCEPT !.cur[a] = [Recent(st, a) EXCEPT !.storage[k] = v]]

-----------------------------------------------------------------------------
(* Frames, self-destruction and the end of a transaction.                  *)

Push(st) == [st EXCEPT !.saved = st.cur]

PopReject(st) == [st EXCEPT !.cur = st.saved]

SelfDestruct(st, a, to) ==
    LET seen == SetValidateExactBalance(Access(st, a), a)
        bal == Balance(RecentAccount(seen, a))
        paid == IF a # to THEN AddToBalance(seen, to, bal) ELSE seen
        moved == IF \/ ~Cancun
                    \/ a # to
                    \/ RecentAccount(seen, a).inc = st.inc
                 THEN SubtractFromBalance(paid, a, bal)
                 ELSE seen
    IN  [moved EXCEPT !.cur[a].destructed = TRUE]

\* destruct_suicides then destruct_touched_dead, over the changed accounts.
Destruct(st) ==
    LET gone(c) ==
          \/ /\ c.destructed
             /\ ~Cancun \/ (c.acct # NoAccount /\ c.acct.inc = st.inc)
          \/ c.touched /\ IsDead(c.acct)
    IN  [st EXCEPT !.cur = [a \in Addr |->
            IF st.cur[a] # Absent /\ gone(st.cur[a])
            THEN [st.cur[a] EXCEPT !.acct = NoAccount]
            ELSE st.cur[a]]]

-----------------------------------------------------------------------------
(* Relaxed merge: make original and current balance match the block state. *)

\* Faulty variant: forgets the lower bound that the debits recorded.
CanFixAnyBalance(st, a, actual, relaxed) ==
    LET o == st.orig[a]
    IN  /\ ~IsDead(o.acct)
        /\ ~IsDead(actual)
        /\ o.acct.code = actual.code
        /\ o.acct.inc = actual.inc
        /\ o.acct.nonce = actual.nonce
        /\ relaxed
        /\ ~o.exact
        /\ st.cur[a] # Absent => RecentAccount(st, a) # NoAccount

CanFix(st, a, actual, relaxed) ==
    LET o == st.orig[a]
    IN  /\ ~IsDead(o.acct)
        /\ ~IsDead(actual)
        /\ o.acct.code = actual.code
        /\ o.acct.inc = actual.inc
        /\ o.acct.nonce = actual.nonce
        /\ relaxed
        /\ ~o.exact
        /\ actual.balance >= o.min
        /\ st.cur[a] # Absent => RecentAccount(st, a) # NoAccount

\* try_fix_account_mismatch: the original takes the actual balance and must
\* match it from now on, and the current one moves by the same amount.
FixOriginal(o, actual) ==
    [o EXCEPT !.acct = [o.acct EXCEPT !.balance = actual.balance], !.exact = TRUE]

\* Faulty variant: leaves the current balance where the speculation put it.
FixCurrentNot(c, o, actual) == c

FixCurrent(c, o, actual) ==
    IF c = Absent THEN c
    ELSE [c EXCEPT !.acct = [c.acct EXCEPT
                                !.balance = @ + (actual.balance - o.acct.balance)]]
=============================================================================
