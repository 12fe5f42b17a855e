----------------------------- MODULE MCHotStuff -----------------------------
(***************************************************************************)
(* Instances of HotStuff whose replicas are numbered from 1, as in the     *)
(* code, for the leader rotations that compute with the numbers.           *)
(***************************************************************************)
EXTENDS HotStuff

\* roundRobin.GetLeader: chooseRoundRobin.
RoundRobin == [v \in 1..(MaxView + 1) |-> {(v % N) + 1}]

\* A rotation that makes replica 1 the leader of view 3 alone.
ForkerLeadsOnce == [v \in 1..(MaxView + 1) |-> IF v = 3 THEN {1} ELSE {2}]
=============================================================================
