----------------------------- MODULE MCSaveNewAsset -----------------------------
(***************************************************************************)
(* The instance of SaveNewAsset for TLC: two runs that save to one output  *)
(* path, as when a command is started twice or retried after a kill.       *)
(***************************************************************************)
EXTENDS SaveNewAsset

CONSTANTS s1, s2, p1

SamePath == [s \in Saver |-> p1]
================================================================================
