--------------------------- MODULE MCHotStuffFixed ---------------------------
(***************************************************************************)
(* Instances of HotStuff whose leaders do not depend on the view.          *)
(***************************************************************************)
EXTENDS HotStuff

CONSTANTS r1, r2, r3, r4

\* fixed.GetLeader
Fixed == [v \in 1..(MaxView + 1) |-> {r1}]

\* Replica r4 gets none of the proposals before the last.
LateReplica ==
    \A m \in net \ net' :
        m.to = r4 => m.type = "propose" /\ BView(m.b) = MaxView
=============================================================================
