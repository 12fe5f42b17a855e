------------------------------ MODULE ExecCalls ------------------------------
(***************************************************************************)
(* The quorum call ExecCommand between the clients and the replicas, as    *)
(* client.go and clientsrv.go use it: a command is the pair of its client  *)
(* and its sequence number; every replica gets the commands of a client in *)
(* the order they were sent; the promise of a call collects the replies.   *)
(***************************************************************************)
EXTENDS Integers, FiniteSets, Sequences

CONSTANTS
    Replica,
    Client,
    MaxNumber       \* bound: the last sequence number of a client

ASSUME CallsAssumption == IsFiniteSet(Replica) /\ MaxNumber \in Nat

Numbers == 1..MaxNumber

Command == Client \X Numbers

VARIABLES
    num,            \* sendCommands: the next sequence number
    replied,        \* the replicas that executed the command, per command
    refused         \* the replicas that replied with an error

replyVars == <<replied, refused>>

CallsTypeOK ==
    /\ num \in [Client -> 1..(MaxNumber + 1)]
    /\ replied \in [Command -> SUBSET Replica]
    /\ refused \in [Command -> SUBSET Replica]

CallsInit ==
    /\ num = [c \in Client |-> 1]
    /\ replied = [cmd \in Command |-> {}]
    /\ refused = [cmd \in Command |-> {}]
=============================================================================
