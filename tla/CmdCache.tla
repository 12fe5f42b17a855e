------------------------------ MODULE CmdCache ------------------------------
(***************************************************************************)
(* The cmdCache of each replica: the commands of clients that wait to be   *)
(* proposed, a batch at a time (a batch is a sequence of commands).  Get   *)
(* runs in the event loop beside the goroutines that call addCommand.      *)
(***************************************************************************)
EXTENDS ExecCalls

CONSTANT BatchSize

ASSUME CacheAssumption == BatchSize \in Nat \ {0}

VARIABLES
    cache,          \* cmdCache.cache
    serialNumbers,  \* cmdCache.serialNumbers, 0 where absent
    getter          \* where the running Get stands: none runs, it is about
                    \* to take the mutex ("lock"), it has released it to wait
                    \* ("unlocked"), or it is in the select ("waiting")

cacheVars == <<cache, serialNumbers, getter>>

CacheTypeOK ==
    /\ cache \in [Replica -> Seq(Command)]
    /\ serialNumbers \in [Replica -> [Client -> 0..MaxNumber]]
    /\ getter \in [Replica -> {"none", "lock", "unlocked", "waiting"}]

CacheInit ==
    /\ cache = [r \in Replica |-> <<>>]
    /\ serialNumbers = [r \in Replica |-> [c \in Client |-> 0]]
    /\ getter = [r \in Replica |-> "none"]

TooOldOnce(serials, cmd) == serials[cmd[1]] > cmd[2]

\* A command is too old when one with its serial number was proposed.
TooOld(serials, cmd) == serials[cmd[1]] >= cmd[2]

\* Which of the first n commands the loop of Get puts into the batch.
Fresh(serials, cmds) ==
    LET batch[n \in 0..Len(cmds)] ==
            IF n = 0 THEN <<>>
            ELSE IF TooOld(serials, cmds[n]) THEN batch[n - 1]
            ELSE Append(batch[n - 1], cmds[n])
    IN  batch

\* addCommand: the command is queued, and a Get in the select is woken when a
\* batch is full; nobody is woken between its Unlock and its select.
AddCommand(r, cmd) ==
    IF TooOld(serialNumbers[r], cmd)
    THEN UNCHANGED cacheVars
    ELSE /\ cache' = [cache EXCEPT ![r] = Append(@, cmd)]
         /\ getter' = [getter EXCEPT ![r] =
              IF @ = "waiting" /\ Len(cache'[r]) >= BatchSize THEN "lock" ELSE @]
         /\ UNCHANGED serialNumbers

MustWaitMore(cmds) == Len(cmds) <= BatchSize + 1

\* The waiting loop of Get: the cache must hold more than a batch.
MustWait(cmds) == Len(cmds) <= BatchSize

\* How many commands Get takes: those that are too old, up to a full batch.
TakenLength(r) ==
    LET full == {n \in 0..Len(cache[r]) :
                   Len(Fresh(serialNumbers[r], cache[r])[n]) = BatchSize}
    IN  IF full = {} THEN Len(cache[r])
        ELSE CHOOSE n \in full : \A k \in full : n <= k

Taken(r) == Fresh(serialNumbers[r], cache[r])[TakenLength(r)]

\* Get with the mutex, as far as the wait: too little is there, or nothing but
\* old commands, which are thrown away.
GetWaits(r) ==
    /\ getter[r] = "lock"
    /\ MustWait(cache[r]) \/ Taken(r) = <<>>
    /\ getter' = [getter EXCEPT ![r] = "unlocked"]
    /\ cache' = IF MustWait(cache[r]) THEN cache ELSE [cache EXCEPT ![r] = <<>>]
    /\ UNCHANGED serialNumbers

\* Get reaches the select.
GetSelects(r) ==
    /\ getter[r] = "unlocked"
    /\ getter' = [getter EXCEPT ![r] = "waiting"]
    /\ UNCHANGED <<cache, serialNumbers>>

\* Get returns a batch.
GetReturns(r) ==
    /\ getter[r] = "lock"
    /\ ~MustWait(cache[r])
    /\ Taken(r) # <<>>
    /\ getter' = [getter EXCEPT ![r] = "none"]
    /\ cache' = [cache EXCEPT ![r] = SubSeq(@, TakenLength(r) + 1, Len(@))]
    /\ UNCHANGED serialNumbers

\* Get returns nothing: the context of the view is done.
GetCancelled(r) ==
    /\ getter[r] = "waiting"
    /\ getter' = [getter EXCEPT ![r] = "none"]
    /\ UNCHANGED <<cache, serialNumbers>>

\* Accept: no command of the batch is too old.
Accept(serials, batch) ==
    \A i \in DOMAIN batch : ~TooOld(serials, batch[i])

\* Proposed: the serial numbers after the batch.
Proposed(serials, batch) ==
    [c \in Client |->
        LET numbers == {serials[c]} \cup
                       {batch[i][2] : i \in {j \in DOMAIN batch : batch[j][1] = c}}
        IN  CHOOSE n \in numbers : \A k \in numbers : n >= k]
=============================================================================
