\* Commands may be missing and proposals refused; the timers expire in every
\* view.
SPECIFICATION FairSpec
CONSTANTS
    Replica = {1, 2}
    MaxView = 2
    MaxTimeouts = 4
    Leader <- RoundRobin
    Impatient = {1, 2}
    Resending = {}
    Forking = {}
    CommandReady = {TRUE, FALSE}
    Accepts = {TRUE, FALSE}
    Rules = {"chained", "simple"}
INVARIANT CertificatesBacked
PROPERTY ImplementsVoting
PROPERTY OneProposalPerView
PROPERTY ViewsAdvance
\* After the last view the bounded system stops.
CHECK_DEADLOCK FALSE
