----------------------------- MODULE MCSaveCommands -----------------------------
(***************************************************************************)
(* The instance of SaveCommands for TLC: one run of any command, against   *)
(* other programs that save the source asset anew and use the output path. *)
(***************************************************************************)
EXTENDS SaveCommands

CONSTANTS s1, p1

OnePath == [s \in Saver |-> p1]
================================================================================
