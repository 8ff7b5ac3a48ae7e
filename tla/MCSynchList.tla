---------------------------- MODULE MCSynchList ----------------------------
(* SynchList for TLC.                                                      *)
EXTENDS SynchList
=============================================================================
