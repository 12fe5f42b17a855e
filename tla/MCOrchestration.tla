-------------------------- MODULE MCOrchestration --------------------------
(***************************************************************************)
(* Instances of Orchestration: no host configured, one of two, both with   *)
(* fewer replicas and clients than asked for, and a configuration for more *)
(* replicas than there are.                                                *)
(***************************************************************************)
EXTENDS Orchestration, TLC

CONSTANTS h1, h2

MCConfigs == {[h \in {} |-> [replicas |-> 0, clients |-> 0]],
              [h \in {h1} |-> [replicas |-> 1, clients |-> 0]],
              (h1 :> [replicas |-> 1, clients |-> 0]) @@ (h2 :> [replicas |-> 1, clients |-> 1]),
              [h \in {h2} |-> [replicas |-> 4, clients |-> 1]]}

MCByzantine == [fork |-> 2, silence |-> 1]
=============================================================================
