--------------------------- MODULE MCExecuteBlock ---------------------------
(***************************************************************************)
(* Instances of ExecuteBlock for TLC: two senders, a contract, a fresh     *)
(* address where contracts are created, and the beneficiary.               *)
(***************************************************************************)
EXTENDS ExecuteBlock, SequencesExt, TLC

CONSTANTS alice, bob, c, n, m, slot

Acct(bal, non, hasCode) ==
    [balance |-> bal, nonce |-> non, code |-> hasCode, inc |-> 0]
Zero == [x \in Key |-> 0]

MCDb == (alice :> [acct |-> Acct(3, 0, FALSE), storage |-> Zero])
     @@ (bob :> [acct |-> Acct(2, 0, FALSE), storage |-> Zero])
     @@ (c  :> [acct |-> Acct(1, 1, TRUE), storage |-> [x \in Key |-> 2]])
     @@ (n  :> [acct |-> NoAccount, storage |-> Zero])
     @@ (m  :> [acct |-> Acct(1, 0, FALSE), storage |-> Zero])

MCContractAt(from, nonce) == n

Call(from, nonce, to, value, code) ==
    [from |-> from, nonce |-> nonce, to |-> to, value |-> value,
     valid |-> TRUE, code |-> code]

Do(op, a, x) == [op |-> op, k |-> slot, a |-> a, n |-> x]
Sadd(x) == Do("sadd", c, x)
Sbal(a) == Do("sbal", a, 0)
Sdead(a) == Do("sdead", a, 0)
Pay(a, x) == Do("pay", a, x)
Kill(a) == Do("kill", a, 0)
Revert == Do("revert", c, 0)

\* Counters, transfers, contract payments, deaths, creations and collisions,
\* a revert after a read, an observed balance, an observed death, a nonce that
\* is right only after another transaction, and an invalid transaction.
Count1 == Call(alice, 0, c, 0, <<Sadd(1)>>)
Count2 == Call(bob, 0, c, 0, <<Sadd(2)>>)
Send1 == Call(alice, 0, bob, 1, <<>>)
Send2 == Call(bob, 0, alice, 2, <<>>)
Again == Call(alice, 1, c, 1, <<Sadd(1)>>)
PayOut == Call(bob, 0, c, 0, <<Pay(alice, 1)>>)
PayTwice == Call(alice, 0, c, 1, <<Pay(n, 1), Pay(bob, 1)>>)
KillC == Call(alice, 0, c, 0, <<Sadd(1), Kill(bob)>>)
Create1 == Call(alice, 0, Absent, 1, <<Sadd(1)>>)
Create2 == Call(bob, 0, Absent, 0, <<Sadd(2), Kill(n)>>)
CallN == Call(bob, 0, n, 1, <<Sadd(2)>>)
Look == Call(alice, 0, c, 0, <<Sbal(m)>>)
Probe == Call(bob, 0, c, 0, <<Sdead(n)>>)
Undo == Call(bob, 0, c, 1, <<Sadd(1), Revert>>)
Bad == [Call(alice, 0, bob, 0, <<>>) EXCEPT !.valid = FALSE]

AllTxs == {Count1, Count2, Send1, Send2, Again, PayOut, PayTwice, KillC, Create1,
           Create2, CallN, Look, Probe, Undo, Bad}

Pairs == {<<x, y>> : x \in AllTxs, y \in AllTxs}

Again2 == Call(bob, 1, c, 0, <<Pay(alice, 1), Sadd(1)>>)

\* Three transactions: chains of conflicts, a death or a creation in between,
\* an invalid one first, in the middle and last; and no transaction at all.
Triples == {<<Count1, Count2, Again>>, <<KillC, Count2, Again>>,
            <<Send2, Create1, Again2>>, <<Bad, Count1, Count2>>,
            <<Count2, Bad, Again2>>, <<Send1, Send2, Bad>>, <<>>}
PairsAndTriples == Pairs \union Triples

\* Blocks executed on a database version that may be lost.
SmallTxs == {Count1, Send2, Create1, Bad}
TwoCounts == {<<Count1, Count2>>}
SmallPairs == {<<x, y>> : x \in SmallTxs, y \in SmallTxs}
SmallBlocks ==
    SmallPairs \union {<<>>, <<Count1, Count2, Again>>, <<Count2, Bad, Again2>>}

Serial == INSTANCE SerialBlock WITH
    world <- [a \in Addr |-> WorldAt(Settled(a), a)],
    outcome <- LET Past(i) == pc[i] \in {"merge", "exit", "done"}
                   count == Cardinality({i \in Tx : Past(i)})
               IN  [i \in 1 .. count |->
                       IF pc[i] = "merge" THEN st[i].out ELSE result[i]],
    stage <- IF main = "wait" THEN "txs"
             ELSE IF main = "epilogue" THEN "txs" ELSE main

\* The parallel execution implements the serial one: what the block state
\* stands for changes only when a transaction is merged, in block order, and
\* then as if it had run alone on what its predecessors left; execute_block
\* returns the same receipts and errors.
ImplementsSerial == Serial!SerialSpec

\* The world and the outcomes after the first j transactions of the block, run
\* one after the other.
SerialPrefix(j) ==
    FoldLeft(LAMBDA r, i : LET t == Serial!Transact(r.w, block[i], i)
                           IN  [w |-> t.w, outs |-> Append(r.outs, t.out)],
             [w |-> Serial!HeaderWorld(Db), outs |-> <<>>],
             [i \in 1 .. j |-> i])

\* A block whose database version is lost on the way is never answered
\* wrongly: if execute_block returns receipts, the block state is that of the
\* serial execution; if it returns an error, the serial execution has one.
AnsweredIsSerial ==
    LET r == SerialPrefix(Len(block))
        failed == \E i \in Tx : r.outs[i] = "err"
    IN  /\ main = "done" =>
             /\ ~failed
             /\ Serial!RewardWorld(r.w) = [a \in Addr |-> WorldAt(bs[a], a)]
        /\ main = "failed" => failed
=============================================================================
