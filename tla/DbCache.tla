------------------------------ MODULE DbCache ------------------------------
(***************************************************************************)
(* The multi-block cache of TrieDb                                         *)
(* (category/execution/ethereum/db/db_cache.hpp over                       *)
(* category/execution/monad/state2/proposal_state.hpp): the state deltas   *)
(* of the blocks executed since the last finalized one, linked by parent,  *)
(* and two LRU caches of the finalized state.  A read at a block walks its *)
(* ancestors' deltas and falls back on the LRU caches only if the walk     *)
(* reached the finalized block; a walk that had to stop early is           *)
(* "truncated" and must be answered by the trie.                           *)
(*                                                                         *)
(* A cache is a record, and each method of the code an operator on it.     *)
(***************************************************************************)
EXTENDS Naturals, FiniteSets, Functions, TLC

CONSTANTS Addr, Key,     \* addresses; slots of an account
          NoAccount,     \* std::nullopt for an account
          NoId,          \* bytes32_t{}: no block, "the finalized state"
          DepthLimit,    \* DEPTH_LIMIT (5): ancestors a read looks at
          MaxProposals   \* MAX_PROPOSAL_MAP_SIZE (100)

ASSUME DbCacheAssumption ==
    DepthLimit \in Nat \ {0} /\ MaxProposals \in Nat \ {0}

Nothing == <<>>  \* the empty map

\* The fields of Proposals, then the LRU caches accounts_ and storage_
EmptyCache ==
    [map |-> Nothing, block |-> 0, id |-> NoId,
     finalized_block |-> 0, finalized_id |-> NoId,
     accounts |-> Nothing, storage |-> Nothing]

---------------------------------------------------------------------------

\* Does the delta of one proposal settle the read, and with what?
DeltaHasAccount(delta, a) == a \in DOMAIN delta

Reborn(delta, a, inc) ==
    delta[a].acct = NoAccount \/ delta[a].acct.inc # inc

DeltaHasStorage(delta, a, inc, k) ==
    a \in DOMAIN delta /\ (Reborn(delta, a, inc) \/ k \in DOMAIN delta[a].slots)

DeltaStorage(delta, a, inc, k) ==
    IF Reborn(delta, a, inc) THEN 0 ELSE delta[a].slots[k]

\* Proposals::try_read: where the walk from the current block ends, given
\* the proposals whose delta answers the read.
Missed(truncated) == [found |-> FALSE, truncated |-> truncated, key |-> NoId]

TryRead(c, settling) ==
    LET walk[depth \in Nat, number \in Nat, id \in Nat] ==
            LET key == <<number, id>>
            IN  IF id = c.finalized_id THEN Missed(FALSE)
                ELSE IF key \notin DOMAIN c.map THEN Missed(TRUE)
                ELSE IF key \in settling
                THEN [found |-> TRUE, truncated |-> FALSE, key |-> key]
                ELSE IF depth = DepthLimit THEN Missed(TRUE)
                ELSE walk[depth + 1, c.map[key].parent_block, c.map[key].parent_id]
    IN  IF c.id = c.finalized_id \/ (c.block = c.finalized_block /\ c.id = NoId)
        THEN Missed(FALSE)
        ELSE IF c.block <= c.finalized_block
        THEN Missed(TRUE)
        ELSE walk[1, c.block, c.id]

\* DbCache::try_read_account and try_read_storage
TryReadAccount(c, a) ==
    LET res == TryRead(c, {key \in DOMAIN c.map : DeltaHasAccount(c.map[key].delta, a)})
    IN  IF res.found
        THEN [hit |-> TRUE, value |-> c.map[res.key].delta[a].acct]
        ELSE IF ~res.truncated /\ a \in DOMAIN c.accounts
        THEN [hit |-> TRUE, value |-> c.accounts[a]]
        ELSE [hit |-> FALSE, value |-> NoAccount]

TryReadStorage(c, a, inc, k) ==
    LET res == TryRead(c, {key \in DOMAIN c.map :
                               DeltaHasStorage(c.map[key].delta, a, inc, k)})
    IN  IF res.found
        THEN [hit |-> TRUE, value |-> DeltaStorage(c.map[res.key].delta, a, inc, k)]
        ELSE IF ~res.truncated /\ <<a, inc, k>> \in DOMAIN c.storage
        THEN [hit |-> TRUE, value |-> c.storage[<<a, inc, k>>]]
        ELSE [hit |-> FALSE, value |-> 0]

---------------------------------------------------------------------------

CacheSetBlock(c, number, id) == [c EXCEPT !.block = number, !.id = id]

Without(f, S) == Restrict(f, DOMAIN f \ S)

\* truncate_proposal_map erases the first entry, the order of ids being
\* arbitrary: any entry of the smallest block number.
Truncations(map) ==
    IF Cardinality(DOMAIN map) < MaxProposals
    THEN {map}
    ELSE {Without(map, {key}) :
            key \in {j \in DOMAIN map : \A i \in DOMAIN map : j[1] <= i[1]}}

\* Proposals::commit asserts that the key is new.
CanUpdateProposalState(c, number, id) ==
    \A map \in Truncations(c.map) : <<number, id>> \notin DOMAIN map

\* DbCache::update_proposal_state: the caches it may leave behind
UpdateProposalState(c, delta, number, id) ==
    {[c EXCEPT !.map = (<<number, id>> :>
                            [delta |-> delta, parent_block |-> c.block,
                             parent_id |-> c.id]) @@ map,
               !.block = number, !.id = id] : map \in Truncations(c.map)}

\* insert_in_lru_caches.  The caches are bounded (10'000'000 entries, more than
\* a block touches): inserting may evict any of the entries from before.
LruStorage(delta) ==
    LET live == {a \in DOMAIN delta : delta[a].acct # NoAccount}
        keys == UNION {{<<a, delta[a].acct.inc, k>> : k \in DOMAIN delta[a].slots} :
                         a \in live}
    IN  [key \in keys |-> delta[key[1]].slots[key[3]]]

LruAccounts(delta) == [a \in DOMAIN delta |-> delta[a].acct]

LruInserts(c, delta) ==
    LET accounts == LruAccounts(delta)
        storage == LruStorage(delta)
    IN  {[c EXCEPT !.accounts = accounts @@ Restrict(c.accounts, A),
                   !.storage = storage @@ Restrict(c.storage, S)] :
            A \in SUBSET (DOMAIN c.accounts \ DOMAIN accounts),
            S \in SUBSET (DOMAIN c.storage \ DOMAIN storage)}

\* Faulty variant: the LRU caches survive the finalization of a truncated proposal.
OnFinalizeKeepsLru(c, number, id) ==
    LET key == <<number, id>>
        moved == [c EXCEPT !.finalized_block = number, !.finalized_id = id]
        old == {j \in DOMAIN c.map : j[1] <= number}
    IN  IF key \in DOMAIN c.map
        THEN LruInserts([moved EXCEPT !.map = Without(c.map, old)], c.map[key].delta)
        ELSE {moved}

\* DbCache::on_finalize over Proposals::finalize.  Proposals up to the
\* finalized block go, unless the finalized one had been truncated: then the
\* map stays as it is and the LRU caches are cleared.
OnFinalize(c, number, id) ==
    LET key == <<number, id>>
        moved == [c EXCEPT !.finalized_block = number, !.finalized_id = id]
        old == {j \in DOMAIN c.map : j[1] <= number}
    IN  IF key \in DOMAIN c.map
        THEN LruInserts([moved EXCEPT !.map = Without(c.map, old)], c.map[key].delta)
        ELSE {[moved EXCEPT !.accounts = Nothing, !.storage = Nothing]}
=============================================================================
