----------------------------- MODULE Pacemaker -----------------------------
(***************************************************************************)
(* The synchronizer of one replica with its two helpers: the view duration *)
(* it sets its timers with and the leader rotation it asks who leads.      *)
(* Other replicas appear through the certificates and proposals that       *)
(* arrive.  HotStuff.tla models how these come about.                      *)
(***************************************************************************)
EXTENDS ViewDuration, LeaderRotation

CONSTANTS
    Rotation,    \* the configured leader rotations
    Quorums,     \* the sets of replicas whose votes make a certificate
    Elapsed,     \* with each rotation, the times a certificate may take after
                 \* the start of the view
    Authors,     \* those whose blocks are certified when a rotation that
                 \* depends on what a replica has seen is past its start-up
    MaxView,     \* bound: the last view
    MaxFailed    \* bound: the views that leave no block in the chain

ASSUME PacemakerAssumption ==
    /\ Rotation \subseteq Rotations
    /\ \A Q \in Quorums : Q \subseteq IDs /\ Cardinality(Q) = QuorumSize
    /\ \A r \in Rotation : Elapsed[r] \subseteq Nat
    /\ Authors \subseteq IDs
    /\ MaxView \in Nat \ {0} /\ MaxFailed \in Nat

VARIABLES
    rotation,   \* the leader rotation of the replica
    view,       \* currentView
    chain,      \* the certified blocks that the replica knows, in order
    head,       \* CommittedBlock: its place in the chain
    rep,        \* the reputations of the replicas, in units of 1/(2N)
    dur,        \* the state of viewDuration
    leader,     \* the last answer of GetLeader, or Panicked
    timedOut,   \* lastTimeout is one of the current view
    proposed,   \* a proposal of the current view was handled
    failed,     \* the number of views that left no block in the chain
    samples,    \* observed: the measurements taken
    steady      \* observed: no timeout has scaled the mean of the samples

vars == <<rotation, view, chain, head, rep, dur, leader, timedOut, proposed,
          failed, samples, steady>>

Init ==
    /\ rotation \in Rotation
    /\ view = 1
    /\ chain = <<>>
    /\ head = 0
    /\ rep = [id \in IDs |-> id * RepUnit]
    /\ dur = NewViewDuration
    /\ leader \in GetLeader(rotation, 1, <<>>, 0, rep)
    /\ timedOut = FALSE
    /\ proposed = FALSE
    /\ failed = 0
    /\ samples = <<>>
    /\ steady = TRUE

Running == leader # Panicked

\* The answers of GetLeader for view v with chain c, committed block h and
\* reputations r.
Answers(v, c, h, r) == GetLeader(rotation, v, c, h, r)

\* The replicas that may have proposed the certified block of view v: past
\* the start-up, replicas need not agree on who leads.
Proposers(v) ==
    LET own == Answers(v, chain, head, rep)
    IN  IF own = {ChooseRoundRobin(v)} \/ rotation = "fixed" THEN own
        ELSE Authors

\* duration.ViewSucceeded, when time x has passed since the view started.
Succeeded(x) == ViewSucceeded(dur, x)
Sampled(x) ==
    IF Succeeded(x).count > dur.count THEN Append(samples, x) ELSE samples

\* The part of AdvanceView that enters the next view, with chain c, committed
\* block h and reputations r; p is whether its proposal was handled before.
EnterView(c, h, r, p) ==
    /\ view < MaxView
    /\ view' = view + 1
    /\ timedOut' = FALSE
    /\ proposed' = p
    /\ leader' \in Answers(view + 1, c, h, r)
    /\ rep' = RepAfter(rotation, view + 1, c, h, r)

\* AdvanceView with the QC of the current view, made from votes or brought by
\* a new-view message.  UpdateHighQC takes the QC if its block is found.
AdvanceByQC(voters, x) ==
    /\ Running
    /\ dur' = ViewStarted(Succeeded(x))
    /\ samples' = Sampled(x)
    /\ \/ /\ \E p \in Proposers(view) :
                chain' = Append(chain, [view |-> view, proposer |-> p,
                                        voters |-> voters])
          /\ UNCHANGED failed
       \/ /\ failed < MaxFailed
          /\ failed' = failed + 1
          /\ UNCHANGED chain
    /\ EnterView(chain', head, rep, FALSE)
    /\ UNCHANGED <<rotation, head, steady>>

\* AdvanceView with the TC of the current view.
AdvanceByTC ==
    /\ Running
    /\ failed < MaxFailed
    /\ failed' = failed + 1
    /\ dur' = ViewStarted(dur)
    /\ EnterView(chain, head, rep, FALSE)
    /\ UNCHANGED <<rotation, chain, head, samples, steady>>

\* onLocalTimeout.  The timer may expire at any time; a second timeout of the
\* view is only sent again.  Bound: while MaxFailed is not reached.
OnLocalTimeout ==
    /\ Running
    /\ ~timedOut
    /\ failed < MaxFailed
    /\ timedOut' = TRUE
    /\ dur' = ViewTimeout(dur)
    /\ steady' = (steady /\ samples = <<>>)
    /\ UNCHANGED <<rotation, view, chain, head, rep, leader, proposed, failed,
                   samples>>

\* CommitRule: the block three certificates below the one handled, unless it
\* is already executed.
CommittedIn(c) == IF Len(c) - 2 > head THEN Len(c) - 2 ELSE head

\* OnPropose asks GetLeader for the leader of the block's view v.  If that is
\* not the proposer, it asks again for its message; if the block is voted
\* for, it asks again where to send the vote.  It asks only once if the
\* VoteRule or the acceptor refuses the block or lastVote forbids the vote.
\* Only a block that is not refused is followed by the CommitRule.  If
\* the first answer is a panic, nothing but the deferred AdvanceView follows.
Asked(answer, v, c) ==
    LET once  == RepAfter(rotation, v, chain, head, rep)
        twice == RepAfter(rotation, v, chain, head, once)
    IN  IF answer = Panicked
        THEN {[head |-> head, rep |-> rep]}
        ELSE
        {[head |-> head, rep |-> once], [head |-> head, rep |-> twice],
         [head |-> CommittedIn(c), rep |-> IF timedOut THEN once ELSE twice]}

\* OnPropose with a block of the current view.  The deferred AdvanceView has
\* the QC of an earlier view: it measures and does nothing else.
OnPropose(x) ==
    /\ Running
    /\ ~proposed
    /\ proposed' = TRUE
    /\ dur' = Succeeded(x)
    /\ samples' = Sampled(x)
    /\ leader' \in Answers(view, chain, head, rep)
    /\ \E after \in Asked(leader', view, chain) :
        head' = after.head /\ rep' = after.rep
    /\ UNCHANGED <<rotation, view, chain, timedOut, failed, steady>>

\* OnPropose with a block of the next view, which carries the QC of the
\* current one.  GetLeader is asked before the QC is known, and again by the
\* deferred AdvanceView, after it is.
OnProposeNext(voters, x) ==
    /\ Running
    /\ dur' = ViewStarted(Succeeded(x))
    /\ samples' = Sampled(x)
    /\ \E p \in Proposers(view) :
        chain' = Append(chain, [view |-> view, proposer |-> p,
                                voters |-> voters])
    /\ \E answer \in Answers(view + 1, chain, head, rep) :
        \E after \in Asked(answer, view + 1, chain') :
            head' = after.head /\ EnterView(chain', after.head, after.rep, TRUE)
    /\ UNCHANGED <<rotation, failed, steady>>

Next ==
    \/ \E voters \in Quorums, x \in Elapsed[rotation] : AdvanceByQC(voters, x)
    \/ AdvanceByTC
    \/ OnLocalTimeout
    \/ \E x \in Elapsed[rotation] : OnPropose(x)
    \/ \E voters \in Quorums, x \in Elapsed[rotation] : OnProposeNext(voters, x)

Spec == Init /\ [][Next]_vars

-----------------------------------------------------------------------------
\* The state keeps its types; in particular every answer of GetLeader is the
\* ID of a replica of the configuration.
TypeOK ==
    /\ rotation \in Rotation
    /\ view \in 1..MaxView
    /\ head \in 0..Len(chain)
    /\ leader \in IDs \cup {Panicked}
    /\ \A i \in DOMAIN chain :
        /\ chain[i].view \in 1..(view - 1)
        /\ chain[i].proposer \in IDs
        /\ chain[i].voters \in Quorums
    /\ \A id \in IDs : rep[id] \in Nat
    /\ timedOut \in BOOLEAN /\ proposed \in BOOLEAN /\ steady \in BOOLEAN
    /\ failed \in 0..MaxFailed
    /\ dur.mean \in Nat /\ dur.count \in 0..MaxMeasured

\* Duration takes the square root of a number that is not negative, whatever
\* timeouts scaled the mean between the measurements.  As the comment in
\* ViewSucceeded promises, at least Limit measurements contribute to it once
\* there are as many, and it is divided by their number or by one less.  As long
\* as no timeout scales the mean, the estimate does not run away: the mean is at
\* most the longest measurement, and so is the mean of the squares, though
\* ViewSucceeded averages a measurement against a mean that it has lowered.
EstimateBounded ==
    /\ SumOfSquares(dur) >= 0
    /\ dur.count > 1 =>
        /\ Contributed(dur) >= (IF dur.count < Limit THEN dur.count ELSE Limit)
        /\ Contributed(dur) - Divisor(dur) \in {0, 1}
    /\ steady /\ samples # <<>> =>
        \E i \in 1..Len(samples) :
            /\ dur.mean <= samples[i] * Scale
            /\ SumOfSquares(dur) <=
                 Contributed(dur) * ((samples[i] * Scale) * (samples[i] * Scale))

\* The sum of f[i] over the samples.
SumOver(f) == FoldLeft(LAMBDA a, b : a + b, 0, f)

\* Up to Limit measurements, ViewSucceeded computes the arithmetic mean and the
\* sum of the squares of the differences from it.  After that each measurement
\* takes the place of a part of the mean twice, once when one is thrown away and
\* once in Welford's step: the mean falls below all measurements, yet never below
\* Limit / (2 Limit - 1) of the shortest.
MeanOfSamples ==
    LET n == Len(samples)
    IN  steady =>
        /\ n \in 1..Limit =>
             /\ dur.mean * n = SumOver(samples) * Scale
             /\ SumOfSquares(dur) =
                  SumOver([i \in 1..n |-> (samples[i] * Scale - dur.mean)
                                          * (samples[i] * Scale - dur.mean)])
        /\ n > Limit =>
             \E i \in 1..n : dur.mean * (2 * Limit - 1) >= Limit * samples[i] * Scale

\* When the start-up is over and the QC of the last view is known, carousel
\* and repBased name a replica that voted for the parent of the committed
\* block, never one that was silent.
VotersLead ==
    [][view' # view /\ leader' # Panicked /\ HighQCView(chain') = view
       /\ \/ rotation = "carousel" /\ view' > CarouselStartup
          \/ rotation = "repbased" /\ RepStarted(view')
       => leader' \in Participants(chain', head')]_vars

\* The start-up of carousel lasts, in the words of carousel.go, "so that
\* 'particpants' is not empty": GetLeader does not panic.
NoPanic == Running
=============================================================================
