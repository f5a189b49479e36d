------------------------------ MODULE Runloop ------------------------------
(***************************************************************************)
(* The Monad run loop (cmd/monad/runloop_monad.cpp, started by             *)
(* cmd/monad/main.cpp) over TrieDb, its cache and the block hash chain.    *)
(* Consensus, a separate process, leaves block headers and two pointers in *)
(* the ledger directory: the finalized head and the proposed head.  The    *)
(* loop polls them, executes the blocks between the last block the         *)
(* database has finalized and the head, each on top of its parent's state, *)
(* and finalizes.  Both processes run freely, proposals fork, and the loop *)
(* may crash between any two of its writes to the database and start       *)
(* again from what the database holds.                                     *)
(*                                                                         *)
(* A block is a number and NoId is zero, the id of the genesis block; the  *)
(* hash of a block's Ethereum header is injective in its id.  What a block *)
(* does to the state is chosen once: nothing, reading, writing a slot, or  *)
(* deleting the account.  Executing the transactions is ExecuteBlock's     *)
(* concern and one step here.  Blocks that fail validation end the process *)
(* and are left out.                                                       *)
(***************************************************************************)
EXTENDS TrieDb, BlockHashChain

CONSTANTS Blocks,     \* all blocks consensus may ever produce
          Parent,     \* their parents: a tree with root NoId
          Programs,   \* functions from Blocks to what they do
          Delay,      \* a header carries the result of the block Delay before
          EndBlock,   \* end_block_num
          MaxCrashes

ASSUME LedgerAssumption ==
    /\ NoId = 0 /\ Blocks \subseteq Nat \ {0}
    /\ Parent \in [Blocks -> Blocks \union {NoId}]
    /\ \A b \in Blocks : Parent[b] < b
    /\ Programs \subseteq [Blocks -> {"none", "read", "write", "kill"}]
    /\ Delay \in 1 .. Window

VARIABLES finalized_head, proposed_head,  \* the ledger's pointers
          program,                        \* what each block does
          disk, trie, cache,              \* the database, TrieDb, its cache
          chain, buf,                     \* BlockHashChain
          pc, start_block,                \* the loop
          last_finalized, head_id,
          to_execute, to_finalize, block_cache,
          work,                           \* the block in propose_block
          crashes

ledger == <<finalized_head, proposed_head>>
lists == <<last_finalized, head_id, to_execute, to_finalize>>
vars == <<ledger, program, disk, trie, cache, chain, buf, pc, start_block, lists,
          block_cache, work, crashes>>

---------------------------------------------------------------------------
\* Blocks

Hash(b) == b + 1

Number[b \in Blocks \union {NoId}] == IF b = NoId THEN 0 ELSE Number[Parent[b]] + 1

\* The ancestors of b, oldest first, with numbers above n
Path[n \in 0 .. Cardinality(Blocks), b \in Blocks \union {NoId}] ==
    IF b = NoId \/ Number[b] <= n THEN <<>> ELSE Append(Path[n, Parent[b]], b)

Ancestor(b, n) == IF n = 0 THEN NoId ELSE Path[n - 1, b][1]

Extends(b, a) == Number[b] >= Number[a] /\ Ancestor(b, Number[a]) = a

GenesisState == [a \in Addr |-> [acct |-> NoAccount, slots |-> NoSlot]]

\* The state deltas of a block that found the accounts as reads says
Deltas(b, reads) ==
    LET acct(a) == reads[a].acct
        touched == IF program[b] = "none" THEN {} ELSE Addr
        live == [inc |-> Number[b], by |-> b]
    IN  [a \in touched |->
            CASE program[b] = "write" ->
                    [acct |-> IF acct(a) = NoAccount THEN live ELSE [acct(a) EXCEPT !.by = b],
                     slots |-> [k \in Key |-> b]]
              [] program[b] = "kill" -> [acct |-> NoAccount, slots |-> Nothing]
              [] OTHER -> [acct |-> acct(a),
                           slots |-> IF acct(a) = NoAccount THEN Nothing ELSE reads[a].slots]]

\* The state after a block, by the ledger alone
World[b \in Blocks \union {NoId}] ==
    IF b = NoId THEN GenesisState
    ELSE LET before == World[Parent[b]] IN ApplyDelta(before, Deltas(b, before))

---------------------------------------------------------------------------
\* for_each_header: the blocks in (start, EndBlock] from head down, reversed

\* Faulty variant: the block after start is left out.
HeadersAbove(head, start) ==
    SelectSeq(Path[start, head], LAMBDA b : Number[b] > start + 1 /\ Number[b] <= EndBlock)

\* Faulty variant: the block at start is visited again.
HeadersFrom(head, start) ==
    <<Ancestor(head, start)>> \o SelectSeq(Path[start, head], LAMBDA b : Number[b] <= EndBlock)

Headers(head, start) == SelectSeq(Path[start, head], LAMBDA b : Number[b] <= EndBlock)

HasExecuted(b) == b \in DOMAIN Root(disk, Number[b])

NotExecuted(path) == SelectSeq(path, LAMBDA b : ~HasExecuted(b))

\* The finalized blocks whose senders are loaded before the loop starts
Preload(head, n) ==
    {b \in Blocks : Extends(head, b) /\ Number[b] \in (IF n > 2 THEN n - 1 ELSE 1) .. n}

\* init_block_hash_buffer_from_triedb: the last Window blocks below start
CanInitBuffer(d, start) ==
    \A n \in (IF start < Window THEN 0 ELSE start - Window) .. start - 1 :
        NoId \in DOMAIN Root(d, n)

InitBuffer(d, start) ==
    LET first == IF start < Window THEN 0 ELSE start - Window
        filled[n \in Nat] ==
            IF n = first THEN FinalizedSet(EmptyBuffer, n, Root(d, n)[NoId].header)
            ELSE FinalizedSet(filled[n - 1], n, Root(d, n)[NoId].header)
    IN  filled[start - 1]

\* The condition of the while loop
Loop(finalized) == IF finalized < EndBlock THEN "poll" ELSE "done"

\* main, from opening the database to entering the loop
Boot(d) ==
    /\ disk' = d
    /\ trie' = NewTrieDb(d)
    /\ cache' = EmptyCache
    /\ chain' = <<>>
    /\ buf' = InitBuffer(d, d.finalized + 1)
    /\ start_block' = d.finalized + 1
    /\ last_finalized' = d.finalized
    /\ block_cache' = Preload(finalized_head, d.finalized)
    /\ pc' = Loop(d.finalized)
    /\ head_id' = NoId /\ to_execute' = <<>> /\ to_finalize' = <<>> /\ work' = Nothing

GenesisDisk ==
    [roots |-> (0 :> (NoId :> [state |-> GenesisState, header |-> Hash(NoId)])),
     finalized |-> 0, verified |-> NoVersion,
     voted |-> <<NoVersion, NoId>>, proposed |-> <<NoVersion, NoId>>]

Init ==
    /\ finalized_head = NoId /\ proposed_head = NoId
    /\ program \in Programs
    /\ disk = GenesisDisk
    /\ trie = NewTrieDb(disk)
    /\ cache = EmptyCache
    /\ chain = <<>> /\ buf = InitBuffer(disk, 1)
    /\ pc = Loop(0) /\ start_block = 1
    /\ last_finalized = 0 /\ head_id = NoId
    /\ to_execute = <<>> /\ to_finalize = <<>> /\ block_cache = {}
    /\ work = Nothing /\ crashes = 0

---------------------------------------------------------------------------
\* The loop reads the finalized head, and the proposed head if it is caught up.

\* Faulty variant: with nothing to execute the loop sleeps, though it could finalize.
DispatchExecution(exec, fin) == IF exec # <<>> THEN "execute" ELSE "poll"

Dispatch(exec, fin) ==
    IF exec # <<>> THEN "execute" ELSE IF fin # <<>> THEN "copy" ELSE "poll"

PollFinalizedHead ==
    /\ pc = "poll"
    /\ LET path == Headers(finalized_head, disk.finalized)
       IN  /\ to_finalize' = path
           /\ to_execute' = NotExecuted(path)
           /\ pc' = IF path = <<>> THEN "proposed" ELSE Dispatch(NotExecuted(path), path)
    /\ last_finalized' = disk.finalized
    /\ head_id' = finalized_head
    /\ UNCHANGED <<ledger, program, disk, trie, cache, chain, buf, start_block,
                   block_cache, work, crashes>>

\* Faulty variant: no canonical chain check.
AnyPath(path) == TRUE

\* A path that does not start on the finalized head is dropped.
Canonical(path) == path = <<>> \/ Parent[path[1]] = head_id

PollProposedHead ==
    /\ pc = "proposed"
    /\ LET path == Headers(proposed_head, last_finalized)
           todo == IF Canonical(path) THEN NotExecuted(path) ELSE <<>>
       IN  to_execute' = todo /\ pc' = Dispatch(todo, <<>>)
    /\ UNCHANGED <<ledger, program, disk, trie, cache, chain, buf, start_block,
                   last_finalized, head_id, to_finalize, block_cache, work, crashes>>

---------------------------------------------------------------------------
\* handle_to_execute and propose_block

\* The delayed result in b's header is that of its ancestor.
DelayedResult(b) ==
    IF Number[b] > Delay THEN {Number[b] - Delay} ELSE {}

CanExecute(b) ==
    LET p == FindChain(chain, buf, Parent[b])
        first == Number[b] = start_block
    IN  /\ CanGet(p, buf, Number[b] - 1)
        /\ \A n \in DelayedResult(b) :
              CanGet(p, buf, n) /\ ProposalGet(p, buf, n) = Hash(Ancestor(b, n))
        /\ b \notin block_cache
        /\ Number[b] > 1 => Parent[b] \in block_cache
        /\ Number[b] > 2 => Parent[Parent[b]] \in block_cache
        /\ CanSetBlockAndPrefix(trie, disk, Number[b] - 1, IF first THEN NoId ELSE Parent[b])

\* The start of handle_to_execute: a proposal is a vote for its parent.
UpdateVoted(d, b) == [d EXCEPT !.voted = <<Number[b] - 1, Parent[b]>>]

\* Up to the end of execute_block: the position is set and the state read
\* there.  The voted block is written to disk first.
Execute ==
    /\ pc = "execute"
    /\ LET b == Head(to_execute)
           id == IF Number[b] = start_block THEN NoId ELSE Parent[b]
           t == SetBlockAndPrefix(trie, disk, Number[b] - 1, id)
           c == CacheSetBlock(cache, Number[b] - 1, id)
           reads == [a \in Addr |->
                        LET acct == ReadAccount(t, c, a)
                        IN  [acct |-> acct,
                             slots |-> [k \in Key |-> IF acct = NoAccount THEN 0
                                                      ELSE ReadStorage(t, c, a, acct.inc, k)]]]
       IN  /\ CanExecute(b)
           /\ disk' = UpdateVoted(disk, b)
           /\ trie' = t /\ cache' = c
           /\ block_cache' = block_cache \union {b}
           /\ work' = [reads |-> reads, parent_hash |-> ReadEthHeader(t),
                       delta |-> Deltas(b, reads)]
    /\ pc' = "commit"
    /\ UNCHANGED <<ledger, program, chain, buf, start_block, lists, crashes>>

CanCommitBlock(b) ==
    /\ CanCommit(trie, Number[b], b)
    /\ CanUpdateProposalState(cache, Number[b], b)
    /\ CanPropose(chain, buf, Parent[b])

\* Db::commit and BlockHashChain::propose
Commit ==
    /\ pc = "commit"
    /\ LET b == Head(to_execute)
           t == CommitBlock(trie, disk, Number[b], b, work.delta, Hash(b))
       IN  /\ CanCommitBlock(b)
           /\ trie' = t
           /\ disk' = WriteRoot(disk, t)
           /\ cache' \in UpdateProposalState(cache, work.delta, Number[b], b)
           /\ chain' = ProposeHash(chain, buf, ReadEthHeader(t), Number[b], b, Parent[b])
    /\ work' = Nothing
    /\ pc' = "mark"
    /\ UNCHANGED <<ledger, program, buf, start_block, lists, block_cache, crashes>>

\* Db::update_proposed_metadata, and on to the next block
MarkProposed ==
    /\ pc = "mark"
    /\ LET b == Head(to_execute) IN disk' = [disk EXCEPT !.proposed = <<Number[b], b>>]
    /\ to_execute' = Tail(to_execute)
    /\ pc' = Dispatch(Tail(to_execute), to_finalize)
    /\ UNCHANGED <<ledger, program, trie, cache, chain, buf, start_block,
                   last_finalized, head_id, to_finalize, block_cache, work, crashes>>

---------------------------------------------------------------------------
\* Finalization of the head of to_finalize

CopyFinalized ==
    /\ pc = "copy"
    /\ LET b == Head(to_finalize)
           t == CopyToFinalized(trie, disk, Number[b], b)
       IN  /\ CanFinalize(trie, disk, Number[b], b)
           /\ trie' = t
           /\ disk' = WriteRoot(disk, t)
    /\ pc' = "finalize"
    /\ UNCHANGED <<ledger, program, cache, chain, buf, start_block, lists,
                   block_cache, work, crashes>>

\* Faulty variant: the finalized version moves to the last block of the list at once.
FinalizeAll ==
    /\ pc = "finalize"
    /\ LET b == Head(to_finalize)
       IN  /\ disk' = [disk EXCEPT !.finalized = Number[Last(to_finalize)]]
           /\ cache' \in OnFinalize(cache, Number[b], b)
           /\ buf' = FinalizeHash(chain, buf, b)
           /\ chain' = DropFinalized(chain, b)
    /\ pc' = "verify"
    /\ UNCHANGED <<ledger, program, trie, start_block, lists, block_cache, work, crashes>>

\* The finalized version moves, then the cache and the hash chain follow.
FinalizeVersion ==
    /\ pc = "finalize"
    /\ LET b == Head(to_finalize)
       IN  /\ CanFinalizeHash(chain, buf, b)
           /\ disk' = [disk EXCEPT !.finalized = Number[b]]
           /\ cache' \in OnFinalize(cache, Number[b], b)
           /\ buf' = FinalizeHash(chain, buf, b)
           /\ chain' = DropFinalized(chain, b)
    /\ pc' = "verify"
    /\ UNCHANGED <<ledger, program, trie, start_block, lists, block_cache, work, crashes>>

\* update_verified_block, and after the last block the pruning of block_cache
FinalizeVerified ==
    /\ pc = "verify"
    /\ LET b == Head(to_finalize)
           last == Tail(to_finalize) = <<>>
       IN  /\ \A n \in DelayedResult(b) : CanVerify(disk, n)
           /\ disk' = IF DelayedResult(b) = {} THEN disk
                      ELSE [disk EXCEPT !.verified = Number[b] - Delay]
           /\ block_cache' =
                {e \in block_cache : last /\ Number[b] > 1 => Number[e] >= Number[b] - 1}
           /\ pc' = IF last THEN Loop(Number[b]) ELSE "copy"
    /\ to_finalize' = Tail(to_finalize)
    /\ UNCHANGED <<ledger, program, trie, cache, chain, buf, start_block,
                   last_finalized, head_id, to_execute, work, crashes>>

---------------------------------------------------------------------------
\* Everything but the ledger and the disk is lost; main starts again.

Crash ==
    /\ pc \notin {"down", "done"}
    /\ crashes < MaxCrashes
    /\ crashes' = crashes + 1
    /\ pc' = "down"
    /\ trie' = NewTrieDb(disk) /\ cache' = EmptyCache /\ chain' = <<>> /\ buf' = EmptyBuffer
    /\ start_block' = 0 /\ last_finalized' = 0 /\ head_id' = NoId
    /\ to_execute' = <<>> /\ to_finalize' = <<>> /\ block_cache' = {} /\ work' = Nothing
    /\ UNCHANGED <<ledger, program, disk>>

Restart ==
    /\ pc = "down"
    /\ LET d == RewindToLatestFinalized(disk)
       IN  CanInitBuffer(d, d.finalized + 1) /\ Boot(d)
    /\ UNCHANGED <<ledger, program, crashes>>

\* Consensus, external: any proposal, even one on a fork that has lost; the
\* finalized head only moves to a descendant, possibly far ahead.
Propose(b) ==
    /\ b # proposed_head
    /\ proposed_head' = b
    /\ UNCHANGED <<finalized_head, program, disk, trie, cache, chain, buf, pc,
                   start_block, lists, block_cache, work, crashes>>

Decide(b) ==
    /\ b # finalized_head /\ Extends(b, finalized_head)
    /\ finalized_head' = b
    /\ UNCHANGED <<proposed_head, program, disk, trie, cache, chain, buf, pc,
                   start_block, lists, block_cache, work, crashes>>

Step ==
    \/ PollFinalizedHead \/ PollProposedHead
    \/ Execute \/ Commit \/ MarkProposed
    \/ CopyFinalized \/ FinalizeVersion \/ FinalizeVerified

Next ==
    \/ Step
    \/ Crash \/ Restart
    \/ \E b \in Blocks : Propose(b)
    \/ \E b \in Blocks : Decide(b)

Spec == Init /\ [][Next]_vars

\* The loop's thread keeps running, and the node is started again after a crash.
FairSpec == Spec /\ WF_vars(Step) /\ WF_vars(Restart)

---------------------------------------------------------------------------
\* Properties

\* The variables have their types: lists hold blocks, positions are versions
\* that exist, and the loop is at one of its control points.
TypeOK ==
    /\ {finalized_head, proposed_head, head_id} \subseteq Blocks \union {NoId}
    /\ program \in Programs
    /\ disk.finalized \in DOMAIN disk.roots
    /\ trie.number \in Nat /\ start_block \in Nat /\ last_finalized \in Nat
    /\ to_execute \in Seq(Blocks) /\ to_finalize \in Seq(Blocks)
    /\ block_cache \subseteq Blocks
    /\ pc \in {"poll", "proposed", "execute", "commit", "mark", "copy", "finalize",
               "verify", "down", "done"}
    /\ crashes \in 0 .. MaxCrashes

\* No assertion of the loop, of TrieDb, of its cache, of the block hash chain
\* or of start-up can fail, whatever consensus proposes and wherever the loop
\* crashed before: the parent's state is in the database, the parent and
\* grandparent are in block_cache, the delayed results match, a block is
\* executed once, and what is finalized has been executed and comes next.
AssertionsHold ==
    /\ pc = "execute" => CanExecute(Head(to_execute))
    /\ pc = "commit" => CanCommitBlock(Head(to_execute))
    /\ pc = "copy" => CanFinalize(trie, disk, Number[Head(to_finalize)], Head(to_finalize))
    /\ pc = "finalize" => CanFinalizeHash(chain, buf, Head(to_finalize))
    /\ pc = "verify" => \A n \in DelayedResult(Head(to_finalize)) : CanVerify(disk, n)
    /\ pc = "down" => LET d == RewindToLatestFinalized(disk)
                      IN  CanInitBuffer(d, d.finalized + 1)

\* A block is executed on exactly the state and header of its parent: however
\* the cache was truncated, finalized, cleared or filled from another fork,
\* the walk through proposals, the LRU caches and the trie answer as the
\* ledger alone would.
ReadsParentState ==
    pc = "commit" =>
        LET parent == Parent[Head(to_execute)]
        IN  work.reads = World[parent] /\ work.parent_hash = Hash(parent)

\* BLOCKHASH and the delayed results see the executing block's own ancestors,
\* across forks and while blocks are finalized under the proposals.
HashesAreAncestors ==
    pc = "execute" =>
        LET b == Head(to_execute)
            p == FindChain(chain, buf, Parent[b])
        IN  /\ p.n = Number[b]
            /\ \A n \in 0 .. Number[b] - 1 :
                  n + Window >= Number[b] => ProposalGet(p, buf, n) = Hash(Ancestor(b, n))

\* The finalized versions of the database are the ledger's finalized chain,
\* each with the state and header that chain gives it, crashes or not.
FinalizedHistory ==
    \A n \in 1 .. disk.finalized :
        LET b == Ancestor(finalized_head, n)
        IN  /\ n <= Number[finalized_head]
            /\ NoId \in DOMAIN Root(disk, n)
            /\ Root(disk, n)[NoId] = [state |-> World[b], header |-> Hash(b)]


\* The finalized version moves one block at a time and never back, and what
\* was finalized is not written again.
FinalizedIsFinal ==
    [][/\ disk'.finalized \in {disk.finalized, disk.finalized + 1}
       /\ \A n \in 0 .. disk.finalized :
             n \in DOMAIN disk'.roots /\ disk'.roots[n][NoId] = disk.roots[n][NoId]]_vars

\* Whatever consensus finalizes the database finalizes: however often it falls
\* behind, by crashes or by proposals it executes first, it catches up.
EventuallyFinalized ==
    []<>(disk.finalized = EndBlock \/ disk.finalized = Number[finalized_head])

\* A proposed head on top of the finalized head that consensus leaves alone is
\* eventually executed.
EventuallyExecuted ==
    \/ []<><<proposed_head' # proposed_head>>_proposed_head
    \/ []<>(~Extends(proposed_head, finalized_head) \/ HasExecuted(proposed_head))
=============================================================================
