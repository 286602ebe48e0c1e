----------------------------- MODULE MCRunLifecycle -----------------------------
(***************************************************************************)
(* Instances of RunLifecycle for TLC.                                      *)
(***************************************************************************)
EXTENDS RunLifecycle

Lines == {<<>>} \union {<<k>> : k \in LineKinds \union {"oversized"}}
         \union {<<"ready", k>> : k \in LineKinds \union {"oversized"}}
         \union {<<"refused", k>> : k \in {"ready", "malformed"}}

\* Up to two complete lines, an oversized one only as the last, and a rest that is
\* empty or one of two kinds.
MCChunks == [lines : Lines, tail : {"none", "ready", "malformed"}]
================================================================================
