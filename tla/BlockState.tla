----------------------------- MODULE BlockState -----------------------------
(***************************************************************************)
(* The state all transactions of a block share                             *)
(* (category/execution/ethereum/state2/block_state.cpp): a concurrent map  *)
(* from address to a delta, the account before the block and now, and for  *)
(* each slot seen the word before the block and now.  The map is a cache   *)
(* of the database that readers fill in, and the place where finished      *)
(* transactions are merged.  One accessor section of the code, which holds *)
(* the lock of one address, is one operator here.                          *)
(***************************************************************************)
EXTENDS State3

\* StateDelta: the account and the slots before the block and now
Delta ==
    [first : Account \union {NoAccount}, second : Account \union {NoAccount},
     storage : [Key -> [first : Word, second : Word] \union {Absent}]]

ASSUME DeltaAssumption ==
    Absent \notin Delta /\ Absent \notin [first : Word, second : Word]

EmptyBlockState == [a \in Addr |-> Absent]

\* StateDeltas::emplace keeps an entry that another reader put there first.
EmplaceAccount(bs, a, acct) ==
    IF bs[a] # Absent
    THEN bs
    ELSE [bs EXCEPT ![a] = [first |-> acct, second |-> acct, storage |-> NoSlots]]

\* The account at a has the incarnation the reader's copy of it had.
Incarnate(bs, a, inc) == bs[a].second # NoAccount /\ bs[a].second.inc = inc

\* read_storage, first accessor section: done with a value, or whether the
\* database has to be asked.
FindStorage(bs, a, inc, k) ==
    IF ~Incarnate(bs, a, inc)
    THEN [done |-> TRUE, word |-> 0, db |-> FALSE]
    ELSE IF bs[a].storage[k] # Absent
    THEN [done |-> TRUE, word |-> bs[a].storage[k].second, db |-> FALSE]
    ELSE [done |-> FALSE, word |-> 0,
          db |-> bs[a].first # NoAccount /\ bs[a].first.inc = inc]

\* read_storage, second accessor section: w is what the database returned.
EmplaceStorage(bs, a, inc, k, w) ==
    IF Incarnate(bs, a, inc) /\ bs[a].storage[k] = Absent
    THEN [bs EXCEPT ![a].storage[k] = [first |-> w, second |-> w]]
    ELSE bs

EmplacedWord(bs, a, inc, k, w) ==
    IF Incarnate(bs, a, inc) /\ bs[a].storage[k] # Absent
    THEN bs[a].storage[k].second
    ELSE w

-----------------------------------------------------------------------------
\* can_merge for one address: the account matches or can be made to match,
\* and so does every slot read.
AccountMatches(bs, st, a, relaxed) ==
    \/ st.orig[a].acct = bs[a].second
    \/ CanFix(st, a, bs[a].second, relaxed)

StorageMatches(bs, st, a) ==
    \A k \in Key :
        LET v == st.orig[a].storage[k]
        IN  v # Absent =>
              v = IF bs[a].storage[k] # Absent THEN bs[a].storage[k].second
                                               ELSE 0

ReadSet(st) == {a \in Addr : st.orig[a] # Absent}

CanMerge(bs, st, relaxed) ==
    \A a \in ReadSet(st) :
        AccountMatches(bs, st, a, relaxed) /\ StorageMatches(bs, st, a)

\* The state can_merge leaves behind when it returns true.
Fixed(bs, st) ==
    LET fix(a) == /\ st.orig[a] # Absent
                  /\ st.orig[a].acct # bs[a].second
    IN  [st EXCEPT
            !.orig = [a \in Addr |-> IF fix(a)
                                     THEN FixOriginal(st.orig[a], bs[a].second)
                                     ELSE st.orig[a]],
            !.cur = [a \in Addr |-> IF fix(a)
                                    THEN FixCurrent(st.cur[a], st.orig[a], bs[a].second)
                                    ELSE st.cur[a]]]

WriteSet(st) == {a \in Addr : st.cur[a] # Absent}

\* Faulty variant: takes an absent slot for a word.
MergeEverySlot(bs, a, as) ==
    [bs EXCEPT ![a].second = as.acct,
               ![a].storage = [k \in Key |-> [first |-> 0, second |-> as.storage[k]]]]

\* Faulty variant: keeps the slots of an account that died.
MergeKeepsSlots(bs, a, as) ==
    LET merged(k) ==
          IF as.storage[k] = Absent THEN bs[a].storage[k]
          ELSE IF bs[a].storage[k] # Absent
               THEN [bs[a].storage[k] EXCEPT !.second = as.storage[k]]
               ELSE [first |-> 0, second |-> as.storage[k]]
    IN  [bs EXCEPT ![a].second = as.acct,
                   ![a].storage = [k \in Key |-> merged(k)]]

\* merge for one address.  A slot nobody read has no word before the block.
MergeAccount(bs, a, as) ==
    LET merged(k) ==
          IF as.storage[k] = Absent THEN bs[a].storage[k]
          ELSE IF bs[a].storage[k] # Absent
               THEN [bs[a].storage[k] EXCEPT !.second = as.storage[k]]
               ELSE [first |-> 0, second |-> as.storage[k]]
    IN  [bs EXCEPT
            ![a].second = as.acct,
            ![a].storage = IF as.acct # NoAccount
                           THEN [k \in Key |-> merged(k)]
                           ELSE NoSlots]
=============================================================================
