--------------------------- MODULE MCSkippedViews ---------------------------
(***************************************************************************)
(* An instance of HotStuff with four replicas in round-robin order, in     *)
(* which messages around three view changes are lost and the blocks that a *)
(* replica missed cannot be fetched:                                       *)
(*   view 1   replica 2 gets a QC for its block b, nobody hears of it;     *)
(*   view 2   replica 3 gets a QC for its block w, which does not extend   *)
(*            b, and nobody hears of it;                                   *)
(*   views 3, 4, 5   replicas 1, 2 and 4 extend b, and replica 2 commits   *)
(*            b by the QCs of views 1, 3 and 4; replica 3 hears nothing;   *)
(*   views 6, 7, 8   replicas 1, 3 and 4 extend w.                         *)
(***************************************************************************)
EXTENDS HotStuff

RoundRobin == [v \in 1..(MaxView + 1) |-> {(v % N) + 1}]

\* The timers that expire, in order.
Expirations ==
    << <<1, 1>>, <<3, 1>>, <<4, 1>>,
       <<1, 2>>, <<2, 2>>, <<4, 2>>,
       <<1, 5>>, <<4, 5>>, <<3, 5>> >>

\* The messages that are not lost.
Arriving ==
    {m \in net :
        \/ /\ m.type = "propose"
           /\ \/ BView(m.b) = 1
              \/ BView(m.b) \in {3, 4} /\ m.to # 3
              \/ BView(m.b) \in {2, 6, 7, 8} /\ m.to # 2
        \/ m.type = "vote"
        \/ /\ m.type = "newview"
           /\ <<m.to, m.si>> \notin {<<3, QCInfo(<<1, 2>>)>>, <<4, QCInfo(<<2, 3>>)>>}
        \/ /\ m.type = "timeout"
           /\ m.to # (IF m.t.view = 2 THEN 3 ELSE 2)}

\* A timer expires when nothing else is left to do; no block is fetched.
Schedule ==
    /\ net \ net' \subseteq Arriving
    /\ timedOut' # timedOut =>
         /\ Arriving = {} /\ verifying = {}
         /\ timedOut' = timedOut \cup {Expirations[Cardinality(timedOut) + 1]}
    /\ \A r \in Replica : \A b \in stored'[r] \ stored[r] :
         b \in blocks => Running("OnPropose") /\ b = calls[1].b
=============================================================================
