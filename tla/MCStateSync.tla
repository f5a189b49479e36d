---------------------------- MODULE MCStateSync ----------------------------
(***************************************************************************)
(* State sync of two prefixes on a short chain: blocks work on the account *)
(* of one prefix, the other is empty.                                      *)
(***************************************************************************)
EXTENDS StateSync

MCGenesis ==
    [a \in Addr |-> IF a \in Busy
                    THEN [NoAccount EXCEPT !.balance = 1, !.slot = 1]
                    ELSE NoAccount]
=============================================================================
