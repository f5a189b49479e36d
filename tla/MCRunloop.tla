----------------------------- MODULE MCRunloop -----------------------------
(***************************************************************************)
(* Small ledgers for the run loop: a chain of four blocks and forks off    *)
(* its first two.                                                          *)
(***************************************************************************)
EXTENDS Runloop

\*  0 - 1 - 3 - 5 - 6
\*   \   \- 4
\*    2
MCParent == <<0, 0, 1, 1, 3, 5>>

\* A deletion that a cleared cache must not forget; reads past two idle blocks
\* while forks write.
MCPrograms ==
    {<<"write", "write", "kill", "read", "none", "write">>,
     <<"write", "kill", "none", "write", "none", "read">>}

\* 0 - 1 - 3 - 4
\*  \- 2
ShortParent == <<0, 0, 1, 3>>
ShortPrograms == {<<"write", "read", "kill", "write">>}
=============================================================================
