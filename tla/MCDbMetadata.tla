---------------------------- MODULE MCDbMetadata ----------------------------
(***************************************************************************)
(* A database of two ring chunks with two entries each.                    *)
(***************************************************************************)
EXTENDS DbMetadata

\* Nothing but TimelinesWhole is claimed of a database that lost its roots.
Whole == ~torn
=============================================================================
