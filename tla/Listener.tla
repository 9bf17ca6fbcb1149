------------------------------ MODULE Listener ------------------------------
(***************************************************************************)
(* How a client waits for the inclusion of an operation of its account:    *)
(* UserOperationEventListener, a promise settled by a query, an event or a *)
(* time-out, whichever is first; and getUserOpReceipt, which polls.        *)
(***************************************************************************)
EXTENDS Account

CONSTANT MaxBlocks

VARIABLES height,   \* the latest block
          event,    \* event[o]: the UserOperationEvent of o, in block 0 while there is none
          lsn,      \* lsn[o]: what the listener for o awaits
          since,    \* since[o]: the block at which the listener subscribed
          timer,    \* timer[o]: whether its time-out is still to come
          promise,  \* promise[o]: how the promise was settled
          poll,     \* poll[o]: what getUserOpReceipt for o awaits
          expired   \* expired[o]: whether the poll's end time has passed

chainVars == <<height, event>>
lsnVars == <<lsn, since, timer, promise>>
pollVars == <<poll, expired>>
listenerVars == <<height, event, lsn, since, timer, promise, poll, expired>>

Event == [block : 0 .. MaxBlocks, success : BOOLEAN, reason : BOOLEAN]
Mined(o) == event[o].block > 0

ListenerTypeOK ==
  /\ height \in 0 .. MaxBlocks
  /\ event \in [Op -> Event]
  /\ lsn \in [Op -> {"idle", "query", "register", "event", "receipt", "reason", "done", "lost"}]
  /\ since \in [Op -> 0 .. MaxBlocks]
  /\ timer \in [Op -> BOOLEAN]
  /\ promise \in [Op -> {"pending", "receipt", "failed", "reverted", "timeout"}]
  /\ poll \in [Op -> {"off", "ask", "sleep", "found", "null", "error"}]
  /\ expired \in [Op -> BOOLEAN]

ListenerInit ==
  /\ height = 0
  /\ event = [o \in Op |-> [block |-> 0, success |-> FALSE, reason |-> FALSE]]
  /\ lsn = [o \in Op |-> "idle"]
  /\ since = [o \in Op |-> 0]
  /\ timer = [o \in Op |-> FALSE]
  /\ promise = [o \in Op |-> "pending"]
  /\ poll = [o \in Op |-> "off"]
  /\ expired = [o \in Op |-> FALSE]

-----------------------------------------------------------------------------
\* A promise is settled once; settling it again has no effect.
Settle(o, how) == promise' = IF promise[o] = "pending" THEN [promise EXCEPT ![o] = how]
                                                       ELSE promise
Await(o, from, to) == lsn[o] = from /\ lsn' = [lsn EXCEPT ![o] = to]

\* constructor and start(): the time-out runs, and a query in 100 ms
\* (a mutant of it: no time-out is set)
StartUntimed(o) == /\ Await(o, "idle", "query")
                   /\ UNCHANGED <<chainVars, since, timer, promise, pollVars>>
Start(o) == /\ Await(o, "idle", "query")
            /\ timer' = [timer EXCEPT ![o] = TRUE]
            /\ UNCHANGED <<chainVars, since, promise, pollVars>>

\* queryFilter(filter, 'latest') reads the latest block and no earlier one
Query(o) == /\ Await(o, "query",
                     IF Mined(o) /\ event[o].block = height THEN "receipt" ELSE "register")
            /\ UNCHANGED <<chainVars, since, timer, promise, pollVars>>

\* once(filter): events of later blocks
Register(o) == /\ Await(o, "register", "event")
               /\ since' = [since EXCEPT ![o] = height]
               /\ UNCHANGED <<chainVars, timer, promise, pollVars>>

Notify(o) == /\ event[o].block > since[o]
             /\ Await(o, "event", "receipt")
             /\ UNCHANGED <<chainVars, since, timer, promise, pollVars>>

\* listenerCallback after getTransactionReceipt: the receipt settles the
\* promise, unless the operation failed and the reason is to be looked up
\* (a mutant of it: whether it failed is not looked at)
GotAnyReceipt(o) == /\ Await(o, "receipt", "done")
                    /\ Settle(o, "receipt")
                    /\ UNCHANGED <<chainVars, since, timer, pollVars>>
GotReceipt(o) == /\ Await(o, "receipt", IF event[o].success THEN "done" ELSE "reason")
                 /\ IF event[o].success THEN Settle(o, "receipt") ELSE UNCHANGED promise
                 /\ UNCHANGED <<chainVars, since, timer, pollVars>>

\* extractFailureReason: a revert reason rejects the promise, and the resolve
\* that follows comes too late; without one it resolves with status 0
GotReason(o) == /\ Await(o, "reason", "done")
                /\ Settle(o, IF event[o].reason THEN "reverted" ELSE "failed")
                /\ UNCHANGED <<chainVars, since, timer, pollVars>>

\* the node rejects a request of the listener: nobody handles the exception
Lost(o) == /\ lsn[o] \in {"query", "receipt", "reason"}
           /\ Await(o, lsn[o], "lost")
           /\ UNCHANGED <<chainVars, since, timer, promise, pollVars>>

\* The time-out is never cleared.  Its stop() names another event than once()
\* registered, so the subscription stays.
TimeOut(o) == /\ timer[o]
              /\ timer' = [timer EXCEPT ![o] = FALSE]
              /\ Settle(o, "timeout")
              /\ UNCHANGED <<chainVars, lsn, since, pollVars>>

ListenerStep(o) == \/ Query(o) \/ Register(o) \/ Notify(o) \/ GotReceipt(o)
                   \/ GotReason(o) \/ Lost(o) \/ TimeOut(o)

-----------------------------------------------------------------------------
\* getUserOpReceipt: asks for the event in all blocks, sleeps, and gives up
\* when it wakes after the end time
Polled(o, from, to) == poll[o] = from /\ poll' = [poll EXCEPT ![o] = to]
Poll(o) == Polled(o, "off", "ask") /\ UNCHANGED <<chainVars, lsnVars, expired>>
PollAnswer(o) == /\ Polled(o, "ask", IF Mined(o) THEN "found" ELSE "sleep")
                 /\ UNCHANGED <<chainVars, lsnVars, expired>>
PollError(o) == Polled(o, "ask", "error") /\ UNCHANGED <<chainVars, lsnVars, expired>>
PollWake(o) == /\ Polled(o, "sleep", IF expired[o] THEN "null" ELSE "ask")
               /\ UNCHANGED <<chainVars, lsnVars, expired>>
PollExpire(o) == /\ poll[o] \in {"ask", "sleep"}
                 /\ ~expired[o]
                 /\ expired' = [expired EXCEPT ![o] = TRUE]
                 /\ UNCHANGED <<chainVars, lsnVars, poll>>

PollStep(o) == PollAnswer(o) \/ PollError(o) \/ PollWake(o) \/ PollExpire(o)

-----------------------------------------------------------------------------
\* What a promise says of the operation is what the chain says, whichever of
\* query, event and time-out came first, and no listener that is through leaves
\* it open (UserOperationEventListener.ts:30-97).
SettledByChain ==
  \A o \in Op :
    /\ lsn[o] = "done" \/ (lsn[o] # "idle" /\ ~timer[o]) => promise[o] # "pending"
    /\ promise[o] = "receipt" => Mined(o) /\ event[o].success
    /\ promise[o] = "failed" => Mined(o) /\ ~event[o].success /\ ~event[o].reason
    /\ promise[o] = "reverted" => Mined(o) /\ ~event[o].success /\ event[o].reason
    /\ poll[o] = "found" => Mined(o)
=============================================================================
