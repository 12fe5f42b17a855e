----------------------------- MODULE MCMetrics -----------------------------
(* For the protocol's loop a proposal and two votes for its block, which   *)
(* may come before it; for the metrics of a replica a commit of two        *)
(* commands and a view change by a timeout, for those of a client three    *)
(* latencies.                                                              *)
EXTENDS Metrics

MCTypeOf ==
    [proposal |-> "ProposeMsg", vote1 |-> "VoteMsg", vote2 |-> "VoteMsg",
     commit |-> "CommitEvent", view |-> "ViewChangeEvent",
     latency1 |-> "LatencyMeasurementEvent", latency2 |-> "LatencyMeasurementEvent",
     latency3 |-> "LatencyMeasurementEvent"]

MCEvent == DOMAIN MCTypeOf

MCTypes == {MCTypeOf[e] : e \in MCEvent}

MCAwaits == [e \in MCEvent |-> IF MCTypeOf[e] = "VoteMsg" THEN {"ProposeMsg"} ELSE {}]

MCValue ==
    [proposal |-> 0, vote1 |-> 0, vote2 |-> 0,
     commit |-> 2, view |-> 1, latency1 |-> 3, latency2 |-> 6, latency3 |-> 12]
=============================================================================
