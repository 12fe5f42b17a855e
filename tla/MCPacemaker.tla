---------------------------- MODULE MCPacemaker ----------------------------
(***************************************************************************)
(* Instances of Pacemaker.  Replica 4 is silent: it never votes.           *)
(***************************************************************************)
EXTENDS Pacemaker

MCQuorums == {{1, 2, 3}}

\* The view duration and the rotation do not depend on each other, so the
\* times vary with one rotation only.
MCElapsed == [r \in Rotations |-> IF r = "fixed" THEN {0, 2} ELSE {1}]
=============================================================================
