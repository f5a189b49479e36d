------------------------------- MODULE TrieDb -------------------------------
(***************************************************************************)
(* TrieDb (category/execution/ethereum/db/trie_db.cpp) over the on-disk    *)
(* database (category/mpt/db.cpp).  Version n of the database is a trie    *)
(* with one subtrie per prefix: the finalized block n, and every proposal  *)
(* of number n executed so far.  TrieDb has a read position (a version's   *)
(* root and a prefix) that it caches across calls, commits a block as a    *)
(* copy of its parent's subtrie plus the block's changes, and finalizes a  *)
(* block by copying its subtrie to the finalized prefix.                   *)
(*                                                                         *)
(* Here disk is what survives a crash, t a TrieDb object and c its cache.  *)
(* A subtrie is the state of every account and the block's header.  The    *)
(* finalized prefix is NoId, the prefix of a proposal its block id.        *)
(***************************************************************************)
EXTENDS DbCache

NoVersion == 1000000  \* INVALID_BLOCK_NUM

Slots == [Key -> Nat]
NoSlot == [k \in Key |-> 0]

\* CommitBuilder::add_state_deltas and the upsert of what it builds: a deleted
\* account loses its storage, and so does one with another incarnation.
ApplyDelta(state, delta) ==
    [a \in Addr |->
        IF a \notin DOMAIN delta THEN state[a]
        ELSE IF delta[a].acct = NoAccount THEN [acct |-> NoAccount, slots |-> NoSlot]
        ELSE LET reborn == state[a].acct # NoAccount /\ state[a].acct.inc # delta[a].acct.inc
             IN  [acct |-> delta[a].acct,
                  slots |-> delta[a].slots @@ (IF reborn THEN NoSlot ELSE state[a].slots)]]

\* Db::load_root_for_version
Root(disk, number) ==
    IF number \in DOMAIN disk.roots THEN disk.roots[number] ELSE Nothing

MaxVersion(disk) == CHOOSE n \in DOMAIN disk.roots : \A i \in DOMAIN disk.roots : i <= n


\* UpdateAux::rewind_to_version, called on open with the latest finalized version
RewindToLatestFinalized(disk) ==
    IF MaxVersion(disk) = disk.finalized
    THEN disk
    ELSE [disk EXCEPT !.roots = Restrict(disk.roots, {n \in DOMAIN disk.roots : n <= disk.finalized}),
                      !.verified = NoVersion,
                      !.voted = <<NoVersion, NoId>>,
                      !.proposed = <<NoVersion, NoId>>]

\* TrieDb::TrieDb
NewTrieDb(disk) ==
    [number |-> disk.finalized, proposal_id |-> NoId, prefix |-> NoId,
     root |-> Root(disk, disk.finalized)]

---------------------------------------------------------------------------

ReadAccount(t, c, a) ==
    LET cached == TryReadAccount(c, a)
    IN  IF cached.hit THEN cached.value ELSE t.root[t.prefix].state[a].acct

\* The trie is not asked for an incarnation.
ReadStorage(t, c, a, inc, k) ==
    LET cached == TryReadStorage(c, a, inc, k)
    IN  IF cached.hit THEN cached.value ELSE t.root[t.prefix].state[a].slots[k]

ReadEthHeader(t) == t.root[t.prefix].header

---------------------------------------------------------------------------
\* TrieDb::set_block_and_prefix, and the assertion at its end

SetBlockAndPrefix(t, disk, number, id) ==
    [number |-> number, proposal_id |-> id, prefix |-> id,
     root |-> IF t.number # number THEN Root(disk, number) ELSE t.root]

CanSetBlockAndPrefix(t, disk, number, id) ==
    id \in DOMAIN SetBlockAndPrefix(t, disk, number, id).root

\* TrieDb::commit: the position it leaves.  The first upsert does not write
\* the root, the second, which adds the header, does.
CanCommit(t, number, id) ==
    id # NoId /\ (id # t.proposal_id => number # t.number)

CommitBlock(t, disk, number, id, delta, header) ==
    LET prefix == IF id # t.proposal_id THEN id ELSE t.prefix
        copied == IF id # t.proposal_id
                  THEN (id :> t.root[t.prefix]) @@ Root(disk, number)
                  ELSE t.root
        block == [state |-> ApplyDelta(copied[prefix].state, delta), header |-> header]
    IN  [number |-> number, proposal_id |-> id, prefix |-> prefix,
         root |-> (prefix :> block) @@ copied]

WriteRoot(disk, t) ==
    [disk EXCEPT !.roots = (t.number :> t.root) @@ disk.roots]

\* TrieDb::finalize: the copy to the finalized prefix.  It is written before
\* the finalized version moves.
FinalizeRoot(t, disk, number) == IF t.number = number THEN t.root ELSE Root(disk, number)

CanFinalize(t, disk, number, id) ==
    /\ number = disk.finalized + 1
    /\ id # NoId
    /\ id \in DOMAIN FinalizeRoot(t, disk, number)

\* Faulty variant: the subtrie of the read position is copied, not the block's.
CopyCurrentPrefix(t, disk, number, id) ==
    LET root == FinalizeRoot(t, disk, number)
    IN  [t EXCEPT !.number = number, !.prefix = NoId,
                  !.root = (NoId :> IF t.number = number THEN root[t.prefix] ELSE root[id]) @@ root]

CopyToFinalized(t, disk, number, id) ==
    LET root == FinalizeRoot(t, disk, number)
    IN  [t EXCEPT !.number = number, !.prefix = NoId, !.root = (NoId :> root[id]) @@ root]

\* TrieDb::update_verified_block and Db::update_verified_version
CanVerify(disk, number) ==
    /\ disk.verified = NoVersion \/ number > disk.verified
    /\ number <= MaxVersion(disk)
=============================================================================
