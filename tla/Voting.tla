------------------------------- MODULE Voting -------------------------------
(***************************************************************************)
(* What the replicas promise each other, without messages, handlers or     *)
(* stored certificates: in which views they sign votes and timeouts, and   *)
(* what lets them enter a view.  HotStuff implements it.                   *)
(***************************************************************************)
EXTENDS Integers

CONSTANTS
    Replica,
    Block,          \* pairs of a view and a proposer
    Genesis,        \* the block that needs no votes
    View,           \* the views that a replica can enter
    Quorum          \* the sets of replicas that are enough

VARIABLES
    view,           \* the view of each replica
    votes,          \* who has voted for which block
    timedOut        \* who has timed out in which view

abstractVars == <<view, votes, timedOut>>

BlockView(b) == b[1]

\* A view has ended when a quorum voted for one of its blocks or timed out in
\* it; that before the first has.
Ended(v) ==
    \/ v = 0
    \/ \E b \in Block \ {Genesis} :
         BlockView(b) = v /\ \E Q \in Quorum : \A r \in Q : <<r, b>> \in votes
    \/ \E Q \in Quorum : \A r \in Q : <<r, v>> \in timedOut

Start ==
    /\ view = [r \in Replica |-> 1]
    /\ votes = {}
    /\ timedOut = {}

\* A replica votes in a view after all those it has signed for.
SignVote(r, b) ==
    /\ \A c \in Block : <<r, c>> \in votes => BlockView(c) < BlockView(b)
    /\ \A v \in View : <<r, v>> \in timedOut => v < BlockView(b)
    /\ votes' = votes \cup {<<r, b>>}
    /\ UNCHANGED <<view, timedOut>>

\* A replica gives up the view that it is in, and no other.
SignTimeout(r) ==
    /\ timedOut' = timedOut \cup {<<r, view[r]>>}
    /\ UNCHANGED <<view, votes>>

\* A replica enters the view after one that has ended, and never goes back.
Enter(r, v) ==
    /\ v > view[r]
    /\ Ended(v - 1)
    /\ view' = [view EXCEPT ![r] = v]
    /\ UNCHANGED <<votes, timedOut>>

Step ==
    \E r \in Replica :
        \/ \E b \in Block : SignVote(r, b)
        \/ SignTimeout(r)
        \/ \E v \in View : Enter(r, v)

Promise == Start /\ [][Step]_abstractVars
=============================================================================
