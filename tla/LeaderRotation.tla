--------------------------- MODULE LeaderRotation ---------------------------
(***************************************************************************)
(* The four leader rotations.  Replicas are numbered from 1.  The chain is *)
(* the sequence of certified blocks, without genesis; a block is a record  *)
(* [view, proposer, voters], where the voters signed its certificate.      *)
(* head is the place of the committed block in the chain, 0 for genesis.   *)
(* A rotation gives the set of its possible answers: the replicas it may   *)
(* draw, or Panicked.                                                      *)
(***************************************************************************)
EXTENDS Integers, Sequences, FiniteSets, Functions, SequencesExt

CONSTANTS
    N,                \* the number of replicas
    CarouselStartup,  \* the views in which carousel is round-robin: 10
    RepStartup        \* the views in which repBased is: N + 10

ASSUME NAssumption == N \in Nat \ {0}
ASSUME StartupAssumption == CarouselStartup \in Nat /\ RepStartup \in Nat

IDs == 1..N

\* NumFaulty and QuorumSize
F == (N - 1) \div 3
QuorumSize == N - F

\* GetLeader panics.
Panicked == -1

\* HighQC().View()
HighQCView(chain) == IF chain = <<>> THEN 0 ELSE Last(chain).view

\* commit_head.QuorumCert().Signature().Participants(): a block carries the
\* certificate of its parent.  The one of genesis has no signature, and
\* genesis itself has an empty one: asking them for participants panics.
Participants(chain, head) == IF head <= 1 THEN {} ELSE chain[head - 1].voters

\* A bug that numbers the replicas from 0.
ChooseFromZero(view) == view % N

\* chooseRoundRobin, and the same formula in carousel and repBased.
ChooseRoundRobin(view) == (view % N) + 1

\* getActiveID: ForEach visits the participants in any order.
ActiveIDs(participants) == SetToSeqs(participants)

\* remove: the caller ignores the shortened list that is returned.
RemoveIndex(active, i) == [active EXCEPT ![i] = Last(active)]

\* The inner loop of RemoveActive.  It changes an entry only after reading
\* it, so each entry is compared as it was before the loop.
RemoveID(active, id) ==
    [i \in DOMAIN active |->
        IF active[i] = id THEN RemoveIndex(active, i)[i] ELSE active[i]]

\* RemoveActive: its outer loop has taken the first k IDs of last.
RemoveActive(active, last) ==
    LET after[k \in 0..Len(last)] ==
            IF k = 0 THEN active ELSE RemoveID(after[k - 1], last[k])
    IN  after[Len(last)]

\* The proposers of the last F blocks up to the committed one, if all are found.
LastAuthors(chain, head) ==
    [i \in 1..(IF head < F THEN head ELSE F) |->
        chain[head + 1 - i].proposer]

\* A bug that lets every replica be drawn.
CarouselDrawAny(chain, head) == IDs

\* The candidates of which carousel draws one.
CarouselDraw(chain, head) ==
    UNION {Range(RemoveActive(active, LastAuthors(chain, head))) :
               active \in ActiveIDs(Participants(chain, head))}

\* The loop that collects the last authors ignores that Get did not find the
\* parent of a block, and goes on with it if it still lacks an author.
MayLackParent == F >= 2

\* carousel.GetLeader
Carousel(view, chain, head) ==
    IF view <= CarouselStartup THEN {ChooseRoundRobin(view)}
    ELSE IF Participants(chain, head) = {} THEN {Panicked}
    ELSE IF HighQCView(chain) # view - 1 THEN {ChooseRoundRobin(view)}
    ELSE CarouselDraw(chain, head) \cup (IF MayLackParent THEN {Panicked} ELSE {})

\* repBased.GetLeader: one call adds (numVotes - frac) / frac to the
\* reputation of each voter, where frac is 2N/3 and the leader counts as one
\* vote more.  Reputations are counted in units of 1/(2N).
RepUnit == 2 * N
Reputation(voters) == 3 * (1 + Cardinality(voters)) - 2 * N

UpdateRep(rep, voters) ==
    [id \in IDs |-> rep[id] + IF id \in voters THEN Reputation(voters) ELSE 0]

\* A choice's weight is ten times the reputation, rounded down.
Weight(rep, id) == (rep[id] * 10) \div RepUnit

\* The call passes the start-up.
RepStarted(view) == view > RepStartup

\* The chooser draws among the voters with a weight, once updated.
RepBased(view, chain, head, rep) ==
    IF ~RepStarted(view) THEN {ChooseRoundRobin(view)}
    ELSE LET voters == Participants(chain, head)
             drawn == {id \in voters : Weight(UpdateRep(rep, voters), id) > 0}
         IN  IF drawn = {} THEN {Panicked} ELSE drawn

\* The rotations that can be configured, and their GetLeader.  The fixed
\* leader is replica 1.
Rotations == {"fixed", "roundrobin", "carousel", "repbased"}

GetLeader(rotation, view, chain, head, rep) ==
    CASE rotation = "fixed"      -> {1}
      [] rotation = "roundrobin" -> {ChooseRoundRobin(view)}
      [] rotation = "carousel"   -> Carousel(view, chain, head)
      [] rotation = "repbased"   -> RepBased(view, chain, head, rep)

\* What a call of GetLeader leaves of the reputations.
RepAfter(rotation, view, chain, head, rep) ==
    IF rotation = "repbased" /\ RepStarted(view)
    THEN UpdateRep(rep, Participants(chain, head)) ELSE rep
=============================================================================
