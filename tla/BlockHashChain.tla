--------------------------- MODULE BlockHashChain ---------------------------
(***************************************************************************)
(* The hashes of the last N blocks on every fork                           *)
(* (category/execution/ethereum/block_hash_buffer.cpp).  The finalized     *)
(* buffer is a ring of N hashes.  A proposal keeps the hashes of its       *)
(* unfinalized ancestors and defers to the finalized buffer, which moves   *)
(* on under it, for the rest.                                              *)
(***************************************************************************)
EXTENDS Naturals, Sequences, SequencesExt

CONSTANT Window  \* BlockHashBuffer::N (256)

ASSUME WindowAssumption == Window \in Nat \ {0}

NoHash == 0

\* BlockHashBufferFinalized: slot n % N holds the hash of block n, for the N
\* blocks below n.
EmptyBuffer == [n |-> 0, b |-> [i \in 0 .. Window - 1 |-> NoHash]]

InWindow(buf, number) == number < buf.n /\ number + Window >= buf.n

FinalizedGet(buf, number) == buf.b[number % Window]

CanSet(buf, number) == buf.n = 0 \/ number = buf.n

FinalizedSet(buf, number, hash) ==
    [n |-> number + 1, b |-> [buf.b EXCEPT ![number % Window] = hash]]

\* BlockHashBufferProposal: deltas starts with the newest hash.  The finalized
\* buffer it defers to is passed in.
CanGet(p, buf, number) ==
    /\ InWindow(p, number)
    /\ p.n - number - 1 >= Len(p.deltas) => InWindow(buf, number)

ProposalGet(p, buf, number) ==
    IF p.n - number - 1 < Len(p.deltas)
    THEN p.deltas[p.n - number]
    ELSE FinalizedGet(buf, number)

OnFinalized(buf, hash) == [n |-> buf.n + 1, deltas |-> <<hash>>]

\* Its constructor asserts n > buf.n; resize cuts what has been finalized.
OnProposal(parent, buf, hash) ==
    [n |-> parent.n + 1,
     deltas |-> SubSeq(<<hash>> \o parent.deltas, 1, parent.n + 1 - buf.n)]

---------------------------------------------------------------------------
\* BlockHashChain: the finalized buffer and a deque of proposals

HasProposal(chain, id) == \E i \in DOMAIN chain : chain[i].id = id

ProposalOf(chain, id) ==
    chain[CHOOSE i \in DOMAIN chain :
            chain[i].id = id /\ \A j \in 1 .. i - 1 : chain[j].id # id]

\* find_chain, as a buffer without its finalized part
FindChain(chain, buf, id) ==
    IF HasProposal(chain, id) THEN ProposalOf(chain, id).buf
    ELSE [n |-> buf.n, deltas |-> <<>>]

CanPropose(chain, buf, parent_id) ==
    HasProposal(chain, parent_id) => ProposalOf(chain, parent_id).buf.n + 1 > buf.n

\* Faulty variant: every proposal starts from the finalized buffer.
ProposeOnFinalized(chain, buf, hash, number, id, parent_id) ==
    Append(chain, [number |-> number, id |-> id, parent_id |-> parent_id,
                   buf |-> OnFinalized(buf, hash)])

ProposeHash(chain, buf, hash, number, id, parent_id) ==
    Append(chain,
           [number |-> number, id |-> id, parent_id |-> parent_id,
            buf |-> IF HasProposal(chain, parent_id)
                    THEN OnProposal(ProposalOf(chain, parent_id).buf, buf, hash)
                    ELSE OnFinalized(buf, hash)])

\* BlockHashChain::finalize: the winner is there and is the next block.
CanFinalizeHash(chain, buf, id) ==
    /\ HasProposal(chain, id)
    /\ ProposalOf(chain, id).buf.n = buf.n + 1
    /\ CanGet(ProposalOf(chain, id).buf, buf, buf.n)
    /\ CanSet(buf, buf.n)

FinalizeHash(chain, buf, id) ==
    FinalizedSet(buf, buf.n, ProposalGet(ProposalOf(chain, id).buf, buf, buf.n))

DropFinalized(chain, id) ==
    SelectSeq(chain, LAMBDA p : p.number > ProposalOf(chain, id).number)
=============================================================================
