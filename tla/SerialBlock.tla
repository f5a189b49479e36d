---------------------------- MODULE SerialBlock -----------------------------
(***************************************************************************)
(* What executing a block promises: the transactions run one after the     *)
(* other, in block order, each on the world its predecessors left.  There  *)
(* is no speculation, cache, journal or incarnation check here: an account *)
(* has a record and a full storage, and a transaction is a function from   *)
(* world to world.  ExecuteBlock is shown to implement this specification. *)
(*                                                                         *)
(* A transaction is a record                                               *)
(*   from, nonce, value   as in Transaction                                *)
(*   to        the called address, or Absent for a contract creation       *)
(*   valid     it passes static_validate_transaction                       *)
(*   code      what the called contract (or the init code) does: a         *)
(*             sequence of operations on the contract's own storage and    *)
(*             balance                                                     *)
(***************************************************************************)
EXTENDS Integers, Sequences, SequencesExt

CONSTANTS Addr, Key, MaxWord, Cancun, NoAccount, Absent,
          Blocks,        \* the blocks considered
          Db,            \* the world before the block
          Fee,           \* gas fee a transaction pays to the beneficiary
          Beneficiary,   \* header.beneficiary
          System,        \* the system contract the block header writes to
          Recipient,     \* withdrawal / block reward recipient
          ContractAt(_, _) \* create_contract_address(sender, nonce)

VARIABLES block,    \* the transactions
          world,    \* [Addr -> [acct, storage]]
          outcome,  \* the receipts and errors so far
          stage     \* "header", "txs", "done", "failed"

serialVars == <<block, world, outcome, stage>>

ZeroSlots == [k \in Key |-> 0]
HeaderKey == CHOOSE k \in Key : TRUE
HeaderWord == 1

Dead(acct) ==
    acct = NoAccount \/ (acct.balance = 0 /\ acct.nonce = 0 /\ ~acct.code)
BalanceIn(w, a) == IF w[a].acct = NoAccount THEN 0 ELSE w[a].acct.balance
NonceIn(w, a) == IF w[a].acct = NoAccount THEN 0 ELSE w[a].acct.nonce
CodeIn(w, a) == w[a].acct # NoAccount /\ w[a].acct.code
Born(inc) == [balance |-> 0, nonce |-> 0, code |-> FALSE, inc |-> inc]

\* w with the account at a existing
With(w, a, inc) ==
    IF w[a].acct = NoAccount THEN [w EXCEPT ![a].acct = Born(inc)] ELSE w

Credit(w, a, v, inc) == [With(w, a, inc) EXCEPT ![a].acct.balance = @ + v]
Debit(w, a, v, inc) == [With(w, a, inc) EXCEPT ![a].acct.balance = @ - v]

-----------------------------------------------------------------------------
(* One operation of contract code.  r is the running call: the world, the  *)
(* accounts touched and marked for destruction, and whether it goes on.    *)

ContractOp(r, op, self, inc) ==
    LET w == r.w
        store(x) == [r EXCEPT !.w[self].storage[op.k] = x % (MaxWord + 1)]
    IN
    IF r.out # "running" THEN r ELSE
    CASE op.op = "sadd" -> store(w[self].storage[op.k] + op.n)
      [] op.op = "sbal" -> store(BalanceIn(w, op.a))
      [] op.op = "sdead" -> store(IF Dead(w[op.a].acct) THEN 1 ELSE 0)
      [] op.op = "pay" ->
            IF BalanceIn(w, self) < op.n THEN r
            ELSE [r EXCEPT !.w = Credit(Debit(w, self, op.n, inc), op.a, op.n, inc),
                           !.touched = @ \union {self, op.a}]
      [] op.op = "kill" ->
            LET bal == BalanceIn(w, self)
                moves == ~Cancun \/ op.a # self \/ w[self].acct.inc = inc
                paid == IF op.a = self THEN w ELSE Credit(w, op.a, bal, inc)
            IN  [r EXCEPT !.w = IF moves THEN Debit(paid, self, bal, inc) ELSE w,
                          !.touched = IF moves THEN @ \union {self, op.a} ELSE @,
                          !.dying = @ \union {self},
                          !.out = "ok"]
      [] op.op = "revert" -> [r EXCEPT !.out = "fail"]

\* The call or creation: frame r0 is what a failure falls back to.
Execute(w, tx, inc) ==
    LET self == IF tx.to = Absent THEN ContractAt(tx.from, tx.nonce) ELSE tx.to
        create == tx.to = Absent
        bumped == IF create THEN [w EXCEPT ![tx.from].acct.nonce = @ + 1] ELSE w
        base == [w |-> bumped, touched |-> {tx.from}, dying |-> {}, out |-> "fail"]
        born == IF create
                THEN [With(bumped, self, inc) EXCEPT
                         ![self].acct.inc = inc, ![self].acct.nonce = 1]
                ELSE bumped
        sent == Credit(Debit(born, tx.from, tx.value, inc), self, tx.value, inc)
        begin == [w |-> sent, touched |-> {tx.from, self}, dying |-> {},
                  out |-> "running"]
        runs == create \/ CodeIn(w, self)
        run == IF runs
               THEN FoldLeft(LAMBDA r, op : ContractOp(r, op, self, inc),
                             begin, tx.code)
               ELSE begin
        deployed == IF create /\ run.out = "running"
                    THEN [run EXCEPT !.w[self].acct.code = TRUE] ELSE run
    IN  IF \/ BalanceIn(w, tx.from) < tx.value
           \/ create /\ (NonceIn(bumped, self) # 0 \/ CodeIn(bumped, self))
           \/ run.out = "fail"
        THEN base
        ELSE [deployed EXCEPT !.out = "ok"]

Bury(w, dead) ==
    [a \in Addr |-> IF a \in dead
                    THEN [acct |-> NoAccount, storage |-> ZeroSlots]
                    ELSE w[a]]

\* The whole transaction: the new world and its outcome.
Transact(w, tx, inc) ==
    LET ok == /\ tx.valid
              /\ NonceIn(w, tx.from) = tx.nonce
              /\ BalanceIn(w, tx.from) >= Fee
        paid0 == Debit(w, tx.from, Fee, inc)
        paid == IF tx.to # Absent
                THEN [paid0 EXCEPT ![tx.from].acct.nonce = @ + 1] ELSE paid0
        r == Execute(paid, tx, inc)
        final == Credit(r.w, Beneficiary, Fee, inc)
        touched == r.touched \union {tx.from, Beneficiary}
        dead == {a \in touched : Dead(final[a].acct)}
                  \union {a \in r.dying : ~Cancun \/ final[a].acct.inc = inc}
    IN  IF ~ok THEN [w |-> w, out |-> "err"]
        ELSE [w |-> Bury(final, dead), out |-> r.out]

-----------------------------------------------------------------------------
HeaderWorld(w) ==
    IF w[System].acct = NoAccount THEN w
    ELSE [w EXCEPT ![System].storage[HeaderKey] = HeaderWord]

RewardWorld(w) == Credit(w, Recipient, 1, Len(block) + 1)

SerialInit ==
    /\ block \in Blocks
    /\ world = Db
    /\ outcome = <<>>
    /\ stage = "header"

SerialHeader ==
    /\ stage = "header"
    /\ world' = HeaderWorld(world)
    /\ stage' = "txs"
    /\ UNCHANGED <<block, outcome>>

SerialTransaction ==
    /\ stage = "txs"
    /\ Len(outcome) < Len(block)
    /\ LET i == Len(outcome) + 1
           r == Transact(world, block[i], i)
       IN  /\ world' = r.w
           /\ outcome' = Append(outcome, r.out)
    /\ UNCHANGED <<block, stage>>

SerialEnd ==
    /\ stage = "txs"
    /\ Len(outcome) = Len(block)
    /\ IF \E i \in 1 .. Len(block) : outcome[i] = "err"
       THEN stage' = "failed" /\ world' = world
       ELSE stage' = "done" /\ world' = RewardWorld(world)
    /\ UNCHANGED <<block, outcome>>

SerialNext == SerialHeader \/ SerialTransaction \/ SerialEnd

SerialSpec == SerialInit /\ [][SerialNext]_serialVars
=============================================================================
