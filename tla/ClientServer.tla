---------------------------- MODULE ClientServer ----------------------------
(***************************************************************************)
(* The clientSrv of each replica: a goroutine per call of ExecCommand puts *)
(* the command into the cmdCache and waits until the event loop, in Exec   *)
(* or Fork, sends it an answer.                                            *)
(***************************************************************************)
EXTENDS CmdCache

VARIABLES
    delivered,      \* how many commands of a client a replica was given
    adding,         \* the command between awaitingCmds and addCommand, or 0
    awaitingCmds,   \* clientSrv.awaitingCmds
    todo,           \* the Exec and Fork calls that are left, with the rest of
                    \* the batch of each
    hash            \* clientSrv.hash: the commands written to it

serverVars == <<delivered, adding, awaitingCmds, todo, hash>>

Tasks == [op : {"Exec", "Fork"}, cmds : Seq(Command) \ {<<>>}]

ServerTypeOK ==
    /\ delivered \in [Replica -> [Client -> 0..MaxNumber]]
    /\ adding \in [Replica -> [Client -> 0..MaxNumber]]
    /\ awaitingCmds \in [Replica -> SUBSET Command]
    /\ todo \in [Replica -> Seq(Tasks)]
    /\ hash \in [Replica -> Seq(Command)]

ServerInit ==
    /\ delivered = [r \in Replica |-> [c \in Client |-> 0]]
    /\ adding = [r \in Replica |-> [c \in Client |-> 0]]
    /\ awaitingCmds = [r \in Replica |-> {}]
    /\ todo = [r \in Replica |-> <<>>]
    /\ hash = [r \in Replica |-> <<>>]

\* The next call of the stream can start: Release follows addCommand.
Arrives(r, c) == adding[r][c] = 0 /\ delivered[r][c] + 1 < num[c]

\* ExecCommand, up to addCommand: the caller is registered.
ExecCommand(r, c) ==
    /\ Arrives(r, c)
    /\ LET n == delivered[r][c] + 1
       IN  /\ delivered' = [delivered EXCEPT ![r][c] = n]
           /\ adding' = [adding EXCEPT ![r][c] = n]
           /\ awaitingCmds' = [awaitingCmds EXCEPT ![r] = @ \cup {<<c, n>>}]
    /\ UNCHANGED <<cacheVars, num, replyVars, todo, hash>>

\* ExecCommand, from addCommand to the receive from its channel.
ExecCommandAdds(r, c) ==
    /\ adding[r][c] # 0
    /\ AddCommand(r, <<c, adding[r][c]>>)
    /\ adding' = [adding EXCEPT ![r][c] = 0]
    /\ UNCHANGED <<num, replyVars, delivered, awaitingCmds, todo, hash>>

\* The goroutine of the call is in the receive.
Receives(r, cmd) == adding[r][cmd[1]] # cmd[2]

\* Exec or Fork, for one command: an answer is sent to the waiting call, if
\* there is one, which takes until it receives.
RunTask(r) ==
    /\ todo[r] # <<>>
    /\ LET task == Head(todo[r])
           cmd == Head(task.cmds)
           waits == cmd \in awaitingCmds[r]
       IN  /\ waits => Receives(r, cmd)
           /\ \/ /\ task.op = "Exec"
                 /\ hash' = [hash EXCEPT ![r] = Append(@, cmd)]
                 /\ replied' = IF waits THEN [replied EXCEPT ![cmd] = @ \cup {r}]
                                        ELSE replied
                 /\ UNCHANGED refused
              \/ /\ task.op = "Fork"
                 /\ refused' = IF waits THEN [refused EXCEPT ![cmd] = @ \cup {r}]
                                        ELSE refused
                 /\ UNCHANGED <<hash, replied>>
           /\ awaitingCmds' = [awaitingCmds EXCEPT ![r] = @ \ {cmd}]
           /\ todo' = [todo EXCEPT ![r] =
                         IF Len(task.cmds) = 1 THEN Tail(@)
                         ELSE [@ EXCEPT ![1].cmds = Tail(task.cmds)]]
    /\ UNCHANGED <<cacheVars, num, delivered, adding>>
=============================================================================
