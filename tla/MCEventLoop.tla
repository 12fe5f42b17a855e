---------------------------- MODULE MCEventLoop ----------------------------
(* A proposal and two votes for its block, which may come before it. *)
EXTENDS EventLoop

MCEvent == {"proposal", "vote1", "vote2"}

MCTypes == {"ProposeMsg", "VoteMsg"}

MCTypeOf == [e \in MCEvent |-> IF e = "proposal" THEN "ProposeMsg" ELSE "VoteMsg"]

MCAwaits == [e \in MCEvent |-> IF e = "proposal" THEN {} ELSE {"ProposeMsg"}]
=============================================================================
