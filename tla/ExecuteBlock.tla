---------------------------- MODULE ExecuteBlock ----------------------------
(***************************************************************************)
(* Optimistic parallel execution of a block                                *)
(* (category/execution/ethereum/execute_block.cpp and                      *)
(* execute_transaction.cpp over state2/block_state.cpp).  Each transaction *)
(* has a fiber.  It executes at once against whatever the block state      *)
(* holds, waits for the promise of its predecessor, and then either merges *)
(* what it did (everything it read is still so) or runs again and merges.  *)
(* Fibers interleave at every access to the block state, a database read   *)
(* happens between two accesses, and a merge takes one step per account.   *)
(*                                                                         *)
(* Transactions, contract code and the world before the block are those of *)
(* SerialBlock.  Not modelled here: gas metering and refunds, reserve      *)
(* balance, EIP-7702 authorizations, system transactions (their fiber has  *)
(* the same skeleton), the priorities of the fiber pool (any order).       *)
(***************************************************************************)
EXTENDS BlockState, FiniteSets

CONSTANTS Blocks,        \* the blocks considered: sequences of transactions
          MaxTxs,        \* no block is longer
          Db, Fee, Beneficiary, System, Recipient,  \* see SerialBlock
          ContractAt(_, _),
          Relaxed,       \* State's relaxed_validation; the code passes false
          MayLose        \* the database is a TrieRODb, whose version may be
                         \* overwritten while the block executes

\* An operation of contract code; which of k, a and n it uses depends on op.
Op == [op : {"sadd", "sbal", "sdead", "pay", "kill", "revert"},
       k : Key, a : Addr, n : Nat]

Transaction ==
    [from : Addr, nonce : Nat, value : Nat, to : Addr \union {Absent},
     valid : BOOLEAN, code : Seq(Op)]

Target(tx) == IF tx.to = Absent THEN ContractAt(tx.from, tx.nonce) ELSE tx.to

ASSUME BlocksAssumption ==
    /\ MaxTxs \in Nat
    /\ \A b \in Blocks :
         /\ b \in Seq(Transaction)
         /\ Len(b) \in 0 .. MaxTxs
         /\ \A i \in 1 .. Len(b) : Target(b[i]) \in Addr
ASSUME AddrAssumption == Absent \notin Addr /\ Absent \notin Key /\ Key # {}
ASSUME DbAssumption ==
    Db \in [Addr -> [acct : Account \union {NoAccount}, storage : [Key -> Word]]]
ASSUME RunAssumption ==
    /\ Fee \in Nat
    /\ {Beneficiary, System, Recipient} \subseteq Addr
    /\ {Relaxed, MayLose} \subseteq BOOLEAN

\* The world earlier blocks left: balances are unsigned, only an account with
\* code or a nonce has storage, an incarnation carries the number of the block
\* that created the account, and the header's system contract is deployed.
ASSUME WorldAssumption ==
    /\ \A a \in Addr :
         /\ Balance(Db[a].acct) >= 0
         /\ Vacant(Db[a].acct) => \A k \in Key : Db[a].storage[k] = 0
         /\ Db[a].acct # NoAccount => Db[a].acct.inc \notin 1 .. MaxTxs + 1
    /\ Db[System].acct # NoAccount => ~Vacant(Db[System].acct)

VARIABLES block,    \* the block being executed
          main,     \* the thread in execute_block
          lost,     \* the database version is gone: reads throw
          bs,       \* BlockState::state_
          promise,  \* the promises that are set; promises[0] is
          thrown,   \* the promises set with an exception
          pc,       \* where each fiber is; "none" before it is submitted
          ip,       \* its next step of execute_impl2
          st,       \* its State
          io,       \* its database read in flight
          todo,     \* the accounts it still has to merge
          result    \* results[i]

fiberVars == <<pc, ip, st, io, todo, result>>
vars == <<block, main, lost, bs, promise, thrown, fiberVars>>

Tx == 1 .. Len(block)

NoIo == [a |-> Absent, k |-> Absent, db |-> FALSE]

Init ==
    /\ block \in Blocks
    /\ main = "header"
    /\ lost = FALSE
    /\ bs = EmptyBlockState
    /\ promise = {0}
    /\ thrown = {}
    /\ pc = [i \in Tx |-> "none"]
    /\ ip = [i \in Tx |-> 1]
    /\ st = [i \in Tx |-> FreshState(i)]
    /\ io = [i \in Tx |-> NoIo]
    /\ todo = [i \in Tx |-> {}]
    /\ result = [i \in Tx |-> "none"]

-----------------------------------------------------------------------------
(* execute_impl2, step by step: 1 validate_transaction, 2 the irrevocable  *)
(* change and the beneficiary's access, 3 entering the call or creation,   *)
(* then one step per operation of the code, and leaving the frame.         *)

Validate(s, tx, first) ==
    LET s1 == IF first THEN SetOriginalNonce(s, tx.from, tx.nonce) ELSE s
        s2 == SetValidateExactBalance(s1, tx.from)
        sender == RecentAccount(s1, tx.from)
    IN  IF Nonce(sender) = tx.nonce /\ Balance(sender) >= Fee
        THEN s2 ELSE End(s2, "err")

Charge(s, tx) ==
    LET s1 == IF tx.to = Absent THEN s
              ELSE SetNonce(s, tx.from, Nonce(RecentAccount(s, tx.from)) + 1)
        s2 == SubtractFromBalance(s1, tx.from, Fee)
        s3 == Access(Access(s2, Beneficiary), tx.from)
    IN  IF tx.to = Absent THEN s3 ELSE Access(s3, tx.to)

\* pre_call: the frame is pushed before the balance check.
EnterCall(s, tx) ==
    LET s1 == RecordDebit(Push(s), tx.from, tx.value)
        s2 == Transfer(s1, tx.from, tx.to, tx.value)
    IN  IF ~CanDebit(s, tx.from, tx.value)
        THEN End(PopReject(s1), "fail")
        ELSE IF HasCode(RecentAccount(s2, tx.to)) THEN s2
        ELSE End(s2, "ok")

\* execute_create_message: balance, nonce, EIP-684 collision, then the frame.
EnterCreate(s, tx) ==
    LET new == Target(tx)
        s1 == RecordDebit(s, tx.from, tx.value)
        s2 == SetNonce(s1, tx.from, Nonce(RecentAccount(s1, tx.from)) + 1)
        s3 == Access(s2, new)
        s4 == SetNonce(CreateContract(Push(s3), new), new, 1)
    IN  IF ~CanDebit(s, tx.from, tx.value)
        THEN End(s2, "fail")
        ELSE IF ~Vacant(RecentAccount(s3, new))
        THEN End(s3, "fail")
        ELSE Transfer(s4, tx.from, new, tx.value)

\* One operation of the code that runs at self.
RunOp(s, op, self) ==
    CASE op.op = "sadd" ->
            SetStorage(s, self, op.k, Wrap(GetStorage(s, self, op.k) + op.n))
      [] op.op = "sbal" ->
            SetStorage(SetValidateExactBalance(s, op.a), self, op.k,
                       Wrap(Balance(RecentAccount(s, op.a))))
      [] op.op = "sdead" ->
            SetStorage(s, self, op.k,
                       IF IsDead(RecentAccount(s, op.a)) THEN 1 ELSE 0)
      [] op.op = "pay" ->
            LET s1 == RecordDebit(s, self, op.n)
            IN  IF CanDebit(s, self, op.n) THEN Transfer(s1, self, op.a, op.n)
                                           ELSE s1
      [] op.op = "kill" -> End(SelfDestruct(s, self, op.a), "ok")
      [] op.op = "revert" -> End(PopReject(s), "fail")

Leave(s, tx) ==
    End(IF tx.to = Absent THEN SetCode(s, Target(tx)) ELSE s, "ok")

LastStep(tx) == 4 + Len(tx.code)

StepOf(s, tx, n, first) ==
    CASE n = 1 -> Validate(s, tx, first)
      [] n = 2 -> Charge(s, tx)
      [] n = 3 -> IF tx.to = Absent THEN EnterCreate(s, tx) ELSE EnterCall(s, tx)
      [] n = LastStep(tx) -> Leave(s, tx)
      [] OTHER -> RunOp(s, tx.code[n - 3], Target(tx))

\* The accounts the step looks at.
AccountsOf(tx, n) ==
    CASE n = 1 -> {tx.from}
      [] n = 2 -> {tx.from, Beneficiary} \union ({tx.to} \ {Absent})
      [] n = 3 -> {tx.from, Target(tx)}
      [] n = LastStep(tx) -> {Target(tx)}
      [] OTHER -> {Target(tx)} \union
                  IF tx.code[n - 3].op \in {"sbal", "sdead", "pay", "kill"}
                  THEN {tx.code[n - 3].a} ELSE {}

\* The slots the step reads through to the block state, once its accounts
\* are loaded, with the incarnation it asks for.
SlotsOf(s, tx, n) ==
    IF /\ n \in 4 .. LastStep(tx) - 1
       /\ tx.code[n - 3].op \in {"sadd", "sbal", "sdead"}
    THEN LET k == tx.code[n - 3].k
         IN  IF \/ tx.code[n - 3].op = "sadd" /\ GetMisses(s, Target(tx), k)
                \/ SetMisses(s, Target(tx), k)
             THEN {k} ELSE {}
    ELSE {}

-----------------------------------------------------------------------------
Executing(i) ==
    /\ pc[i] \in {"spec", "retry"}
    /\ st[i].out = "running"
    /\ io[i] = NoIo

MissingAccounts(i) ==
    {a \in AccountsOf(block[i], ip[i]) : st[i].orig[a] = Absent}

\* BlockState::read_account: found, or on to the database.
FindAccount(i) ==
    /\ Executing(i)
    /\ \E a \in MissingAccounts(i) :
         IF bs[a] # Absent
         THEN st' = [st EXCEPT ![i] = Remember(@, a, bs[a].second)] /\ io' = io
         ELSE io' = [io EXCEPT ![i] = [a |-> a, k |-> Absent, db |-> TRUE]] /\ st' = st
    /\ UNCHANGED <<block, main, lost, bs, promise, thrown, pc, ip, todo, result>>

\* Faulty variant: does not leave the account in the block state.
LoadAccountUncached(i) ==
    LET a == io[i].a
    IN  /\ io[i] # NoIo
        /\ io[i].k = Absent
        /\ ~lost
        /\ st' = [st EXCEPT ![i] = Remember(@, a, Db[a].acct)]
        /\ io' = [io EXCEPT ![i] = NoIo]
        /\ UNCHANGED <<block, main, lost, bs, promise, thrown, pc, ip, todo, result>>

\* The account is back from the database: emplace, and use what is there.
LoadAccount(i) ==
    LET a == io[i].a
    IN  /\ io[i] # NoIo
        /\ io[i].k = Absent
        /\ ~lost
        /\ bs' = EmplaceAccount(bs, a, Db[a].acct)
        /\ st' = [st EXCEPT ![i] = Remember(@, a, bs'[a].second)]
        /\ io' = [io EXCEPT ![i] = NoIo]
        /\ UNCHANGED <<block, main, lost, promise, thrown, pc, ip, todo, result>>

IncarnationAt(i, a) == RecentAccount(st[i], a).inc

\* BlockState::read_storage, first section.
FindSlot(i) ==
    LET a == Target(block[i])
    IN  /\ Executing(i)
        /\ MissingAccounts(i) = {}
        /\ \E k \in SlotsOf(st[i], block[i], ip[i]) :
             LET f == FindStorage(bs, a, IncarnationAt(i, a), k)
             IN  IF f.done
                 THEN /\ st' = [st EXCEPT ![i] = RememberSlot(@, a, k, f.word)]
                      /\ io' = io
                 ELSE /\ io' = [io EXCEPT ![i] = [a |-> a, k |-> k, db |-> f.db]]
                      /\ st' = st
        /\ UNCHANGED <<block, main, lost, bs, promise, thrown, pc, ip, todo, result>>

\* BlockState::read_storage, second section: the word is back.
LoadSlot(i) ==
    LET a == io[i].a
        k == io[i].k
        inc == IncarnationAt(i, a)
        w == IF io[i].db THEN Db[a].storage[k] ELSE 0
    IN  /\ io[i] # NoIo
        /\ k # Absent
        /\ ~(io[i].db /\ lost)
        /\ bs' = EmplaceStorage(bs, a, inc, k, w)
        /\ st' = [st EXCEPT ![i] =
                    RememberSlot(@, a, k, EmplacedWord(bs', a, inc, k, w))]
        /\ io' = [io EXCEPT ![i] = NoIo]
        /\ UNCHANGED <<block, main, lost, promise, thrown, pc, ip, todo, result>>

\* TrieRODb::read_account, read_storage: the version no longer exists.
ReadThrows(i) ==
    /\ io[i] # NoIo
    /\ io[i].db
    /\ lost
    /\ st' = [st EXCEPT ![i] = End(@, "throw")]
    /\ io' = [io EXCEPT ![i] = NoIo]
    /\ UNCHANGED <<block, main, lost, bs, promise, thrown, pc, ip, todo, result>>

\* A step of the transaction that has all it reads.
Step(i) ==
    /\ Executing(i)
    /\ MissingAccounts(i) = {}
    /\ SlotsOf(st[i], block[i], ip[i]) = {}
    /\ st' = [st EXCEPT ![i] = StepOf(@, block[i], ip[i], pc[i] = "spec")]
    /\ ip' = [ip EXCEPT ![i] = @ + 1]
    /\ UNCHANGED <<block, main, lost, bs, promise, thrown, pc, io, todo, result>>

-----------------------------------------------------------------------------
(* ExecuteTransaction::operator() and the fiber around it.                 *)

\* The fiber starts.  A transaction that fails static validation only waits.
Begin(i) ==
    /\ pc[i] = "idle"
    /\ pc' = [pc EXCEPT ![i] = IF block[i].valid THEN "spec" ELSE "reject"]
    /\ UNCHANGED <<block, main, lost, bs, promise, thrown, ip, st, io, todo, result>>

\* Faulty variant: does not wait.
RejectStaticNow(i) ==
    /\ pc[i] = "reject"
    /\ result' = [result EXCEPT ![i] = "err"]
    /\ pc' = [pc EXCEPT ![i] = "exit"]
    /\ UNCHANGED <<block, main, lost, bs, promise, thrown, ip, st, io, todo>>

RejectStatic(i) ==
    /\ pc[i] = "reject"
    /\ i - 1 \in promise
    /\ result' = [result EXCEPT ![i] = "err"]
    /\ pc' = [pc EXCEPT ![i] = "exit"]
    /\ UNCHANGED <<block, main, lost, bs, promise, thrown, ip, st, io, todo>>

Finished(i, at) ==
    /\ pc[i] = at
    /\ st[i].out \in {"ok", "fail", "err"}

\* execute_final: refund (nothing is left of the gas here), reward, deaths.
ExecuteFinal(s, tx) ==
    Destruct(AddToBalance(AddToBalance(s, tx.from, 0), Beneficiary, Fee))

\* After can_merge: return the error, or finish the state and merge it.
Conclude(i, s) ==
    IF s.out = "err"
    THEN /\ result' = [result EXCEPT ![i] = "err"]
         /\ pc' = [pc EXCEPT ![i] = "exit"]
         /\ st' = [st EXCEPT ![i] = s]
         /\ todo' = todo
    ELSE LET final == ExecuteFinal(s, block[i])
         IN  /\ st' = [st EXCEPT ![i] = final]
             /\ todo' = [todo EXCEPT ![i] = WriteSet(final)]
             /\ pc' = [pc EXCEPT ![i] = "merge"]
             /\ result' = result

\* Faulty variant: merges without asking can_merge.
AcceptAnyway(i) ==
    /\ Finished(i, "spec")
    /\ i - 1 \in promise
    /\ Conclude(i, st[i])
    /\ UNCHANGED <<block, main, lost, bs, promise, thrown, ip, io>>

\* The predecessor's promise is set and the speculation is still right.
Accept(i) ==
    /\ Finished(i, "spec")
    /\ i - 1 \in promise
    /\ CanMerge(bs, st[i], Relaxed)
    /\ Conclude(i, Fixed(bs, st[i]))
    /\ UNCHANGED <<block, main, lost, bs, promise, thrown, ip, io>>

\* Faulty variant: starts over on the State of the speculation.
RetryStale(i) ==
    /\ Finished(i, "spec")
    /\ i - 1 \in promise
    /\ ~CanMerge(bs, st[i], Relaxed)
    /\ pc' = [pc EXCEPT ![i] = "retry"]
    /\ st' = [st EXCEPT ![i] = End([@ EXCEPT !.cur = FreshState(i).cur], "running")]
    /\ ip' = [ip EXCEPT ![i] = 1]
    /\ UNCHANGED <<block, main, lost, bs, promise, thrown, io, todo, result>>

\* ... or it is not: start over, with a fresh State.
Retry(i) ==
    /\ Finished(i, "spec")
    /\ i - 1 \in promise
    /\ ~CanMerge(bs, st[i], Relaxed)
    /\ pc' = [pc EXCEPT ![i] = "retry"]
    /\ st' = [st EXCEPT ![i] = FreshState(i)]
    /\ ip' = [ip EXCEPT ![i] = 1]
    /\ UNCHANGED <<block, main, lost, bs, promise, thrown, io, todo, result>>

\* The second execution is over; MONAD_ASSERT(can_merge(state)).
AcceptRetry(i) ==
    /\ Finished(i, "retry")
    /\ IF CanMerge(bs, st[i], Relaxed)
       THEN Conclude(i, Fixed(bs, st[i]))
       ELSE pc' = [pc EXCEPT ![i] = "abort"] /\ UNCHANGED <<st, todo, result>>
    /\ UNCHANGED <<block, main, lost, bs, promise, thrown, ip, io>>

\* BlockState::merge, one account (one accessor) at a time, in any order.
MergeOne(i) ==
    /\ pc[i] = "merge"
    /\ \E a \in todo[i] :
         /\ bs' = MergeAccount(bs, a, st[i].cur[a])
         /\ todo' = [todo EXCEPT ![i] = @ \ {a}]
    /\ UNCHANGED <<block, main, lost, promise, thrown, pc, ip, st, io, result>>

MergeDone(i) ==
    /\ pc[i] = "merge"
    /\ todo[i] = {}
    /\ result' = [result EXCEPT ![i] = st[i].out]
    /\ pc' = [pc EXCEPT ![i] = "exit"]
    /\ UNCHANGED <<block, main, lost, bs, promise, thrown, ip, st, io, todo>>

\* promises[i + 1].set_value(), the last thing the fiber does.
Publish(i) ==
    /\ pc[i] = "exit"
    /\ promise' = promise \union {i}
    /\ pc' = [pc EXCEPT ![i] = "done"]
    /\ UNCHANGED <<block, main, lost, bs, thrown, ip, st, io, todo, result>>

\* Faulty variant: swallows the exception.
CatchSilently(i) ==
    /\ pc[i] \in {"spec", "retry"}
    /\ st[i].out = "throw"
    /\ pc' = [pc EXCEPT ![i] = "done"]
    /\ UNCHANGED <<block, main, lost, bs, promise, thrown, ip, st, io, todo, result>>

\* catch (...): the exception of either execution goes into the promise, and
\* no promise is waited for.
Catch(i) ==
    /\ pc[i] \in {"spec", "retry"}
    /\ st[i].out = "throw"
    /\ promise' = promise \union {i}
    /\ thrown' = thrown \union {i}
    /\ pc' = [pc EXCEPT ![i] = "done"]
    /\ UNCHANGED <<block, main, lost, bs, ip, st, io, todo, result>>

-----------------------------------------------------------------------------
(* The calling thread.                                                     *)

HeaderKey == CHOOSE k \in Key : TRUE
HeaderWord == 1

\* A writer elsewhere overwrites the version the block is executed on.
LoseVersion ==
    /\ MayLose
    /\ ~lost
    /\ lost' = TRUE
    /\ UNCHANGED <<block, main, bs, promise, thrown, fiberVars>>

\* execute_block_header: a State of its own, merged before any fiber exists;
\* then the fibers are submitted to the pool.
Header ==
    LET b1 == EmplaceAccount(bs, System, Db[System].acct)
        s1 == Remember(FreshState(0), System, b1[System].second)
        inc == b1[System].second.inc
        b2 == EmplaceStorage(b1, System, inc, HeaderKey,
                             Db[System].storage[HeaderKey])
        s2 == SetStorage(s1, System, HeaderKey, HeaderWord)
    IN  /\ main = "header"
        /\ IF lost THEN main' = "thrown" /\ UNCHANGED <<bs, pc>>
           ELSE /\ main' = "wait"
                /\ pc' = [i \in Tx |-> "idle"]
                /\ bs' = IF b1[System].second = NoAccount THEN b1
                         ELSE MergeAccount(b2, System, s2.cur[System])
        /\ UNCHANGED <<block, lost, promise, thrown, ip, st, io, todo, result>>

\* Faulty variant: skips a result that is missing.
CollectSome ==
    /\ main = "wait"
    /\ Len(block) \in promise
    /\ main' = IF Len(block) \in thrown THEN "thrown"
               ELSE IF \A i \in Tx : result[i] # "err" THEN "epilogue" ELSE "failed"
    /\ UNCHANGED <<block, lost, bs, promise, thrown, fiberVars>>

\* promises[last].get_future().get(), then the loop over the results, which
\* stops at the first that is missing (an assertion) or an error.
Collect ==
    LET bad == {i \in Tx : result[i] \in {"none", "err"}}
        first == CHOOSE i \in bad : \A j \in bad : i <= j
    IN  /\ main = "wait"
        /\ Len(block) \in promise
        /\ main' = IF Len(block) \in thrown THEN "thrown"
                   ELSE IF bad = {} THEN "epilogue"
                   ELSE IF result[first] = "none" THEN "abort" ELSE "failed"
        /\ UNCHANGED <<block, lost, bs, promise, thrown, fiberVars>>

\* Withdrawals and block reward: the last State of the block.
Epilogue ==
    LET b1 == EmplaceAccount(bs, Recipient, Db[Recipient].acct)
        s1 == Remember(FreshState(Len(block) + 1), Recipient, b1[Recipient].second)
        s2 == Destruct(AddToBalance(s1, Recipient, 1))
    IN  /\ main = "epilogue"
        /\ IF bs[Recipient] = Absent /\ lost
           THEN bs' = bs /\ main' = "thrown"
           ELSE IF CanMerge(b1, s2, FALSE)
           THEN bs' = MergeAccount(b1, Recipient, s2.cur[Recipient]) /\ main' = "done"
           ELSE bs' = b1 /\ main' = "abort"
        /\ UNCHANGED <<block, lost, promise, thrown, fiberVars>>

-----------------------------------------------------------------------------
Fiber(i) ==
    \/ Begin(i) \/ FindAccount(i) \/ LoadAccount(i) \/ FindSlot(i) \/ LoadSlot(i)
    \/ ReadThrows(i) \/ Step(i) \/ RejectStatic(i) \/ Accept(i) \/ Retry(i) \/ AcceptRetry(i)
    \/ MergeOne(i) \/ MergeDone(i) \/ Publish(i) \/ Catch(i)

Next ==
    \/ LoseVersion \/ Header \/ Collect \/ Epilogue
    \/ \E i \in Tx : Fiber(i)

Spec == Init /\ [][Next]_vars

\* Fiber i has nothing to do: it has not been submitted, it is over, or it
\* waits on its predecessor's promise.  Otherwise Fiber(i) is enabled.
Blocked(i) ==
    \/ pc[i] \in {"none", "done", "abort"}
    \/ /\ pc[i] = "reject" \/ Finished(i, "spec")
       /\ i - 1 \notin promise

MainBlocked ==
    \/ main = "wait" /\ Len(block) \notin promise
    \/ main \in {"done", "failed", "thrown", "abort"}

Moves(i) ==
    \/ pc'[i] # pc[i]
    \/ ip'[i] # ip[i]
    \/ st'[i] # st[i]
    \/ io'[i] # io[i]
    \/ todo'[i] # todo[i]

\* Weak fairness of the calling thread and of every fiber (the pool's threads
\* run whatever is ready), with the enabling condition written out.
FairSpec ==
    /\ Spec
    /\ []<>MainBlocked \/ []<><<main' # main>>_vars
    /\ \A i \in 1 .. MaxTxs :
         []<>(i \notin Tx \/ Blocked(i)) \/ []<><<Moves(i)>>_vars

-----------------------------------------------------------------------------
(* The world the block state stands for: for an address nobody has read,   *)
(* the database; for a slot nobody has read, the database as long as the   *)
(* account is still the one of the database.                               *)

WorldAt(d, a) ==
    LET same == /\ d.first # NoAccount
                /\ d.second # NoAccount
                /\ d.first.inc = d.second.inc
        word(k) == IF d.storage[k] # Absent THEN d.storage[k].second
                   ELSE IF same THEN Db[a].storage[k] ELSE 0
    IN  IF d = Absent THEN Db[a]
        ELSE [acct |-> d.second,
              storage |-> [k \in Key |-> IF d.second = NoAccount THEN 0 ELSE word(k)]]

\* CommitBuilder::add_state_deltas and the upsert of its updates: what the
\* database holds at a after the delta d is committed.
Committed(d, a) ==
    LET changed == {k \in Key : /\ d.storage[k] # Absent
                                /\ d.storage[k].first # d.storage[k].second}
        reborn == d.first # NoAccount /\ d.first.inc # d.second.inc
        kept(k) == IF reborn THEN 0 ELSE Db[a].storage[k]
    IN  IF d = Absent THEN Db[a]
        ELSE IF d.second = NoAccount
        THEN [acct |-> NoAccount, storage |-> [k \in Key |-> 0]]
        ELSE IF d.first = d.second /\ changed = {} THEN Db[a]
        ELSE [acct |-> d.second,
              storage |-> [k \in Key |-> IF k \in changed THEN d.storage[k].second
                                                           ELSE kept(k)]]

\* The delta at a once the merge that holds it back, if any, is complete.
Settled(a) ==
    IF \E i \in Tx : a \in todo[i]
    THEN LET i == CHOOSE i \in Tx : a \in todo[i]
         IN  MergeAccount(bs, a, st[i].cur[a])[a]
    ELSE bs[a]

-----------------------------------------------------------------------------
(* Properties.                                                             *)

Pc == {"none", "idle", "spec", "reject", "retry", "merge", "exit", "done", "abort"}
Main == {"header", "wait", "epilogue", "done", "failed", "thrown", "abort"}

\* Every variable has the type of the C++ object it stands for.
TypeOK ==
    /\ block \in Blocks
    /\ main \in Main
    /\ lost \in BOOLEAN
    /\ bs \in [Addr -> Delta \union {Absent}]
    /\ promise \subseteq 0 .. Len(block)
    /\ thrown \subseteq promise
    /\ pc \in [Tx -> Pc]
    /\ ip \in [Tx -> Nat]
    /\ st \in [Tx -> State]
    /\ io \in [Tx -> [a : Addr \union {Absent}, k : Key \union {Absent}, db : BOOLEAN]]
    /\ todo \in [Tx -> SUBSET Addr]
    /\ result \in [Tx -> {"none", "ok", "fail", "err"}]

\* The accessor lookups of can_merge, merge and read_storage succeed (they are
\* MONAD_ASSERTs): the block state keeps an entry for every account a
\* transaction has read, has changed or still has to merge.
CachedReads ==
    \A i \in Tx : ReadSet(st[i]) \union WriteSet(st[i]) \union todo[i]
                    \subseteq {a \in Addr : bs[a] # Absent}

\* MONAD_ASSERT(block_state_.can_merge(state)) after the second execution:
\* what a transaction reads once its predecessor is done cannot change under
\* it, although later transactions keep filling the block state from the
\* database.
RetryNeverAborts == \A i \in Tx : pc[i] # "abort"

\* Transactions take effect one at a time and in block order: when one has
\* passed the wait on its predecessor's promise, all earlier ones are over.
\* An exception, which sets a promise out of turn, voids this.
Turn == {"retry", "merge", "exit", "done", "abort"}

InOrder ==
    thrown = {} => \A i, j \in Tx : i < j /\ pc[j] \in Turn => pc[i] = "done"

\* CommitBuilder writes to the database what the block state stands for: the
\* before-images that decide which updates are skipped, and whether an
\* account's old storage is dropped, are right whoever filled them in.
CommitIsWorld == \A a \in Addr : Committed(bs[a], a) = WorldAt(bs[a], a)

\* The balance assertions of subtract_from_balance and of
\* try_fix_account_mismatch hold, on right and wrong speculation alike: no
\* execution takes a balance below zero, nor does shifting it when merging.
Solvent ==
    \A i \in Tx : \A a \in WriteSet(st[i]) : Balance(st[i].cur[a].acct) >= 0

\* Every fiber comes to its end and the calling thread returns, unless it
\* throws or an assertion stops the process: nobody waits forever on a
\* promise. (An exception sets a promise out of turn, so a later transaction
\* can retry beside an earlier one's merge and fail its assertion.)
Terminates ==
    <>( \/ main \in {"done", "failed"} /\ \A i \in Tx : pc[i] = "done"
        \/ main \in {"thrown", "abort"}
        \/ \E i \in Tx : pc[i] = "abort")

\* MONAD_ASSERT(results[i].has_value()): once the last promise is set, every
\* transaction has left a result.
ResultsPresent == main # "abort"

\* "Call promise.set_value/set_exception the last thing, because this signals
\* that the transaction is finished": execute_block is left, and the block
\* state with it, only when no fiber works on it any more.
LeftAlone ==
    main \in {"done", "failed", "thrown"} =>
        \A i \in Tx : pc[i] \in {"none", "done"}
=============================================================================
