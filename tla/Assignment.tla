----------------------------- MODULE Assignment -----------------------------
(***************************************************************************)
(* assignReplicasAndClients: how an experiment spreads replicas and        *)
(* clients over its hosts.  order is the order in which the loop visits    *)
(* the hosts, cfg the function HostConfigs, from some hosts to records     *)
(* [replicas, clients].                                                    *)
(***************************************************************************)
EXTENDS Integers, Sequences, FiniteSets, Functions

CONSTANTS
    Hosts,         \* the hosts with a worker
    NumReplicas,
    NumClients,
    Byzantine      \* the number of replicas asked for with each strategy

ASSUME AssignmentAssumption ==
    /\ IsFiniteSet(Hosts)
    /\ NumReplicas \in Nat /\ NumClients \in Nat
    /\ \A s \in DOMAIN Byzantine : s # "" /\ Byzantine[s] \in Nat

NumHosts == Cardinality(Hosts)

\* A counter of a loop over the hosts, after each of them.
Totals(counts) ==
    LET sum[i \in 0..NumHosts] == IF i = 0 THEN 0 ELSE sum[i - 1] + counts[i]
    IN  sum

\* What a count that is asked for leaves when the hosts with a configuration
\* have what it gives them, and the number of the other hosts.  When there
\* are none, what is left is given to nobody.
Configured(given, order) ==
    [i \in 1..NumHosts |-> IF order[i] \in DOMAIN given THEN given[order[i]] ELSE 0]
Remaining(asked, given, order) == asked - Totals(Configured(given, order))[NumHosts]
AutoConfig(given) == NumHosts - Cardinality(DOMAIN given)

ReplicasGiven(cfg) == [h \in DOMAIN cfg |-> cfg[h].replicas]
ClientsGiven(cfg) == [h \in DOMAIN cfg |-> cfg[h].clients]

\* The check that not more is configured than asked for.
Valid(cfg, order) ==
    /\ Remaining(NumReplicas, ReplicasGiven(cfg), order) >= 0
    /\ Remaining(NumClients, ClientsGiven(cfg), order) >= 0

\* The hosts without a configuration that the loop visits before the i-th.
AutoBefore(given, order, i) ==
    Cardinality({j \in 1..(i - 1) : order[j] \notin DOMAIN given})

\* A bug that gives the remainder to one host more.
ShareOne(asked, given, order, i) ==
    LET rest == Remaining(asked, given, order)
        auto == AutoConfig(given)
    IN  IF order[i] \in DOMAIN given THEN given[order[i]]
        ELSE (rest \div auto)
             + (IF AutoBefore(given, order, i) <= rest % auto THEN 1 ELSE 0)

\* The number given to the i-th host: its own, or an equal share, and one
\* more while there is a remainder.  The shares are only computed when some
\* host has no configuration.
Share(asked, given, order, i) ==
    LET rest == Remaining(asked, given, order)
        auto == AutoConfig(given)
    IN  IF order[i] \in DOMAIN given THEN given[order[i]]
        ELSE (rest \div auto)
             + (IF AutoBefore(given, order, i) < rest % auto THEN 1 ELSE 0)

\* The IDs of a host, which are counted on from one host to the next.
Block(shares, i) == (Totals(shares)[i - 1] + 1)..Totals(shares)[i]

\* A map from each host to the IDs it is given.
Spread(asked, given, order) ==
    LET shares == [i \in 1..NumHosts |-> Share(asked, given, order, i)]
        place(h) == CHOOSE i \in 1..NumHosts : order[i] = h
    IN  [h \in Hosts |-> Block(shares, place(h))]

HostsToReplicas(cfg, order) == Spread(NumReplicas, ReplicasGiven(cfg), order)
HostsToClients(cfg, order) == Spread(NumClients, ClientsGiven(cfg), order)

\* The strategies whose count is above 0 when a replica is assigned, which is
\* the id-th to be.  Each of them is counted down for the replica, which gets
\* the one seen last.
StrategiesOf(id) == {s \in DOMAIN Byzantine : Byzantine[s] >= id}
=============================================================================
