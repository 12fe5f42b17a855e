------------------------------- MODULE Client -------------------------------
(***************************************************************************)
(* The client: sendCommands and handleCommands, two goroutines that share  *)
(* the channel pendingCmds and highestCommitted.  The rate limiter only    *)
(* delays and is left out.                                                 *)
(***************************************************************************)
EXTENDS ExecCalls

CONSTANTS
    MaxConcurrent,      \* the capacity of pendingCmds
    NumData             \* how many commands the input of a client holds

ASSUME ClientAssumption == MaxConcurrent \in Nat \ {0} /\ NumData \in Nat

VARIABLES
    lastCommand,        \* sendCommands: 0 for MaxUint64
    sender,             \* where sendCommands stands
    pendingCmds,        \* Client.pendingCmds: the commands' own numbers
    awaited,            \* handleCommands: the command it waits for, or 0
    handling,           \* handleCommands has not returned
    highestCommitted,   \* Client.highestCommitted
    cancelled,          \* Stop was called
    acked,              \* handleCommands: those counted as executed
    failed              \* those that got an error

senderVars == <<lastCommand, sender>>
handlerVars == <<awaited, handling, highestCommitted, acked, failed>>
clientVars == <<senderVars, handlerVars, pendingCmds, cancelled, replyVars>>

ClientTypeOK ==
    /\ lastCommand \in [Client -> 0..MaxNumber]
    /\ sender \in [Client -> {"loop", "pushing", "done"}]
    /\ pendingCmds \in [Client -> Seq(Numbers)]
    /\ \A c \in Client : Len(pendingCmds[c]) <= MaxConcurrent
    /\ awaited \in [Client -> 0..MaxNumber]
    /\ handling \in [Client -> BOOLEAN]
    /\ highestCommitted \in [Client -> 1..(MaxNumber + 1)]
    /\ cancelled \in [Client -> BOOLEAN]
    /\ acked \in [Client -> SUBSET Numbers]
    /\ failed \in [Client -> SUBSET Numbers]

ClientInit ==
    /\ lastCommand = [c \in Client |-> 0]
    /\ sender = [c \in Client |-> "loop"]
    /\ pendingCmds = [c \in Client |-> <<>>]
    /\ awaited = [c \in Client |-> 0]
    /\ handling = [c \in Client |-> TRUE]
    /\ highestCommitted = [c \in Client |-> 1]
    /\ cancelled = [c \in Client |-> FALSE]
    /\ acked = [c \in Client |-> {}]
    /\ failed = [c \in Client |-> {}]

NumFaulty == (Cardinality(Replica) - 1) \div 3

ShouldStopEarly(c) == lastCommand[c] # 0 /\ lastCommand[c] <= highestCommitted[c] + 1

\* The last command of the input has been answered.
ShouldStop(c) == lastCommand[c] # 0 /\ lastCommand[c] <= highestCommitted[c]

\* The loop of sendCommands up to the send to pendingCmds: stop, or read a
\* command and call ExecCommand.
SendCommand(c) ==
    /\ sender[c] = "loop"
    /\ \/ /\ cancelled[c] \/ ShouldStop(c)
          /\ sender' = [sender EXCEPT ![c] = "done"]
          /\ UNCHANGED <<num, lastCommand>>
       \/ /\ ~cancelled[c]
          /\ ~ShouldStop(c)
          /\ num[c] <= MaxNumber
          /\ lastCommand' = [lastCommand EXCEPT ![c] =
                               IF num[c] > NumData /\ @ = 0 THEN num[c] ELSE @]
          /\ num' = [num EXCEPT ![c] = @ + 1]
          /\ sender' = [sender EXCEPT ![c] = "pushing"]
    /\ UNCHANGED <<handlerVars, pendingCmds, cancelled, replyVars>>

CanPushLate(c) == Len(pendingCmds[c]) <= MaxConcurrent

CanPush(c) == Len(pendingCmds[c]) < MaxConcurrent

\* The pending command is given to the handler; the channel may be full.
PushPending(c) ==
    /\ sender[c] = "pushing"
    /\ CanPush(c)
    /\ pendingCmds' = [pendingCmds EXCEPT ![c] = Append(@, num[c] - 1)]
    /\ sender' = [sender EXCEPT ![c] = "loop"]
    /\ UNCHANGED <<num, lastCommand, handlerVars, cancelled, replyVars>>

TakePendingAhead(c) ==
    /\ handling[c]
    /\ \/ /\ pendingCmds[c] # <<>>
          /\ awaited' = [awaited EXCEPT ![c] = Head(pendingCmds[c])]
          /\ pendingCmds' = [pendingCmds EXCEPT ![c] = Tail(@)]
          /\ UNCHANGED handling
       \/ /\ cancelled[c]
          /\ handling' = [handling EXCEPT ![c] = FALSE]
          /\ UNCHANGED <<awaited, pendingCmds>>
    /\ UNCHANGED <<num, senderVars, highestCommitted, cancelled, acked, failed, replyVars>>

\* The select of handleCommands.
TakePending(c) ==
    /\ handling[c]
    /\ awaited[c] = 0
    /\ \/ /\ pendingCmds[c] # <<>>
          /\ awaited' = [awaited EXCEPT ![c] = Head(pendingCmds[c])]
          /\ pendingCmds' = [pendingCmds EXCEPT ![c] = Tail(@)]
          /\ UNCHANGED handling
       \/ /\ cancelled[c]
          /\ handling' = [handling EXCEPT ![c] = FALSE]
          /\ UNCHANGED <<awaited, pendingCmds>>
    /\ UNCHANGED <<num, senderVars, highestCommitted, cancelled, acked, failed, replyVars>>

ExecCommandQFAny(replicas) == Cardinality(replicas) >= NumFaulty

ExecCommandQF(replicas) == Cardinality(replicas) >= NumFaulty + 1

\* The promise is kept, broken since too many replicas refused, or broken by
\* the context; a command that got an error is answered all the same.
GetPromise(c) ==
    /\ awaited[c] # 0
    /\ LET n == awaited[c]
           answers == replied[<<c, n>>]
       IN  /\ \/ /\ ExecCommandQF(answers)
                 /\ acked' = [acked EXCEPT ![c] = @ \cup {n}]
                 /\ UNCHANGED failed
              \/ /\ ~ExecCommandQF(answers)
                 /\ answers \cup refused[<<c, n>>] = Replica
                 /\ failed' = [failed EXCEPT ![c] = @ \cup {n}]
                 /\ UNCHANGED acked
              \/ /\ cancelled[c]
                 /\ UNCHANGED <<acked, failed>>
           /\ highestCommitted' = [highestCommitted EXCEPT ![c] =
                                     IF n + 1 > @ THEN n + 1 ELSE @]
    /\ awaited' = [awaited EXCEPT ![c] = 0]
    /\ UNCHANGED <<num, senderVars, handling, pendingCmds, cancelled, replyVars>>

\* Stop cancels the context and does not wait.
StopClient(c) ==
    /\ ~cancelled[c]
    /\ cancelled' = [cancelled EXCEPT ![c] = TRUE]
    /\ UNCHANGED <<num, senderVars, handlerVars, pendingCmds, replyVars>>

SenderStep(c) == SendCommand(c) \/ PushPending(c)

HandlerStep(c) == TakePending(c) \/ GetPromise(c)
=============================================================================
