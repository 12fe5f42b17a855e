----------------------------- MODULE MCCommands -----------------------------
(***************************************************************************)
(* Two replicas that take turns.  A client is only stopped while it waits  *)
(* to push into a full channel, the case in which stopping is hard, and    *)
(* while the replicas have all its commands and no proposal is open.       *)
(***************************************************************************)
EXTENDS Commands

MCReplica == {1, 2}

RoundRobin == [r \in MCReplica |-> 3 - r]

StopWhenFull ==
    \A c \in Client :
        cancelled'[c] # cancelled[c] =>
            sender[c] = "pushing" /\ Len(pendingCmds[c]) = MaxConcurrent
            /\ proposal = {} /\ \A r \in Replica : ~Arrives(r, c) /\ adding[r][c] = 0
=============================================================================
