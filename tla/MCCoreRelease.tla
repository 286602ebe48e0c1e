------------------------------ MODULE MCCoreRelease ------------------------------
(***************************************************************************)
(* CoreRelease for TLC.  Commands meet in what prepare retains and publish *)
(* publishes.  Two of these two meet each other; guard and smoke, which    *)
(* only read, meet the prepare that makes what they read (somebody else's  *)
(* publication is a fault); check and invariant read neither and run       *)
(* beside one another.                                                     *)
(***************************************************************************)
EXTENDS CoreRelease

Pairs ==
  {{"prepare", other} : other \in {"prepare", "publish", "guard", "smoke"}}
    \union {{"publish"}, {"check", "invariant"}}

MCInit == CoreInit /\ {job[p].command : p \in Job} \in Pairs

MCSpec == MCInit /\ [][CoreNext]_coreVars
================================================================================
