--------------------------- MODULE MCEventStream ---------------------------
(***************************************************************************)
(* Small instances of EventStream for TLC.  One tab is enough: tabs do not *)
(* act on each other.                                                      *)
(***************************************************************************)
EXTENDS EventStream
============================================================================
