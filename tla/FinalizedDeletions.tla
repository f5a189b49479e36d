------------------------- MODULE FinalizedDeletions -------------------------
(***************************************************************************)
(* What a state sync server remembers of the accounts and slots deleted by *)
(* the last finalized blocks (statesync_server_context.cpp): a ring of     *)
(* entries, one per block, each a stretch of a second ring of deletions.   *)
(* The thread that finalizes writes whole blocks; a thread serving a       *)
(* request reads one entry at a time under the entry's mutex, which        *)
(* clearing it takes too, so both are single steps.                        *)
(***************************************************************************)
EXTENDS Integers, Sequences, SequencesExt

CONSTANTS
    MaxEntries,         \* MAX_ENTRIES
    MaxDeletions        \* MAX_DELETIONS

ASSUME RingSizes == MaxEntries \in Nat \ {0} /\ MaxDeletions \in Nat \ {0}

\* INVALID_BLOCK_NUM: above every block number.
InvalidBlock == 2 ^ 20

Cleared == [block_number |-> InvalidBlock, idx |-> 0, size |-> 0]

\* ok: no assertion of the class has failed.
EmptyRing ==
    [start |-> InvalidBlock, end |-> InvalidBlock,
     entries |-> [i \in 0 .. MaxEntries - 1 |-> Cleared],
     deletions |-> [i \in 0 .. MaxDeletions - 1 |-> <<>>],
     free_start |-> 0, free_end |-> MaxDeletions, ok |-> TRUE]

FreeDeletions(r) == r.free_end - r.free_start

\* FinalizedDeletions::set_entry
SetEntry(r, i, n, dels) ==
    LET at(k) == (r.free_start + k - 1) % MaxDeletions
    IN  [r EXCEPT
           !.ok = @ /\ r.entries[i].block_number = InvalidBlock,
           !.entries[i] = [block_number |-> n, idx |-> r.free_start,
                           size |-> Len(dels)],
           !.deletions = [s \in DOMAIN @ |->
               IF \E k \in DOMAIN dels : at(k) = s
               THEN dels[CHOOSE k \in DOMAIN dels : at(k) = s] ELSE @[s]],
           !.free_start = @ + Len(dels)]

\* FinalizedDeletions::clear_entry
ClearEntry(r, i) ==
    IF r.entries[i].block_number = InvalidBlock THEN r
    ELSE [r EXCEPT !.ok = @ /\ r.entries[i].block_number = r.start,
                   !.start = @ + 1,
                   !.free_end = @ + r.entries[i].size,
                   !.entries[i] = Cleared]

\* FinalizedDeletions::for_each: whether the block's entry is still there, and
\* what it holds.
Has(r, n) == r.entries[n % MaxEntries].block_number = n

ForEach(r, n) ==
    LET e == r.entries[n % MaxEntries]
    IN  [k \in 1 .. e.size |-> r.deletions[(e.idx + k - 1) % MaxDeletions]]

\* Faulty variant: overwrites deletions of blocks that are still listed.
NoRoom(r, need) == r

\* The loop of write that gives up the oldest blocks until there is room.
MakeRoom(r, need) ==
    FoldLeft(LAMBDA x, k :
                 IF FreeDeletions(x) >= need THEN x
                 ELSE ClearEntry([x EXCEPT !.ok = @ /\ x.start < x.end],
                                 x.start % MaxEntries),
             r, [k \in 1 .. MaxEntries |-> k])

\* FinalizedDeletions::write. A block with more deletions than the ring can
\* hold blows everything away, in the order of the indices.
Write(r, n, dels) ==
    LET i == n % MaxEntries
        ended == [r EXCEPT !.end = n,
                           !.ok = @ /\ (r.end = InvalidBlock \/ r.end + 1 = n)]
        started == IF ended.start = InvalidBlock
                   THEN [ended EXCEPT !.start = n] ELSE ended
        blown == FoldLeft(LAMBDA x, k : ClearEntry(x, k - 1), ended,
                          [k \in 1 .. MaxEntries |-> k])
    IN  IF Len(dels) > MaxDeletions
        THEN [blown EXCEPT !.start = InvalidBlock,
                           !.ok = @ /\ FreeDeletions(blown) = MaxDeletions]
        ELSE SetEntry(MakeRoom(ClearEntry(started, i), Len(dels)), i, n, dels)
=============================================================================
