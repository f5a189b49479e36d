---------------------------- MODULE MCEventRing ----------------------------
(***************************************************************************)
(* TLC instance of EventRing: two recording threads, a reader, a ring of   *)
(* two descriptors and a payload buffer of eight units: both wrap.         *)
(***************************************************************************)
EXTENDS EventRing

(* Every property but the types is vacuous once a writer was overtaken,    *)
(* and stays so.                                                           *)
InTime == ~late
=============================================================================
