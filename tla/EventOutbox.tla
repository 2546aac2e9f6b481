----------------------------- MODULE EventOutbox -----------------------------
(***************************************************************************)
(* The outbox of admin-service: an event is inserted by the transaction    *)
(* that causes it, the worker of some process claims it, publishes it to   *)
(* RabbitMQ and marks its row, and the consumer of some process tells the  *)
(* clients.  Every process runs a worker and a consumer.  A statement is   *)
(* one step; between two of them a process may stop, its connection close, *)
(* or the two minutes of a lock pass.                                      *)
(***************************************************************************)
EXTENDS Integers, FiniteSets

CONSTANTS
    Event,       \* rows of event_outbox, of a type some queue is bound to
    Process,     \* processes of admin-service
    MaxFaults    \* bound on the faults of a behaviour

ASSUME OutboxAssumption == MaxFaults \in Nat /\ "none" \notin Event

VARIABLES
    status,    \* event_outbox.status, "none" before the insert
    lock,      \* locked_at: "none", "fresh" or more than two minutes "old"
    due,       \* available_at <= NOW()
    pc,        \* where the tick of a process is
    at,        \* the row the tick is at
    batch,     \* the rows a tick has claimed and still has to do
    buffer,    \* messages of a channel not yet with the broker
    queue,     \* messages of the consumer's queue, unacknowledged ones too
    delivered, \* deliveredEventIds
    told,      \* events that have been emitted to the clients
    sends,     \* how often an event has been handed to a channel
    lost,      \* events of which a closing channel has dropped a message
    disturbed, \* events whose lock has run out
    faults     \* the faults so far

row    == <<status, lock, due>>
tick   == <<pc, at, batch>>
wire   == <<buffer, queue, lost>>
client == <<delivered, told>>
vars   == <<row, tick, wire, client, sends, disturbed, faults>>

Fault == faults < MaxFaults /\ faults' = faults + 1
NoRow == [e \in Event |-> 0]

-----------------------------------------------------------------------------
(* The rows                                                                *)

\* A transaction commits with its event, which may be for later.
enqueueOutboxEvent(e) ==
    /\ status[e] = "none"
    /\ status' = [status EXCEPT ![e] = "pending"]
    /\ due' \in {[due EXCEPT ![e] = b] : b \in BOOLEAN}
    /\ UNCHANGED <<lock, tick, wire, client, sends, disturbed, faults>>

becomesDue(e) ==
    /\ status[e] = "pending" /\ ~due[e]
    /\ due' = [due EXCEPT ![e] = TRUE]
    /\ UNCHANGED <<status, lock, tick, wire, client, sends, disturbed, faults>>

\* A tick that will still come to the row.
Held(e) == \E w \in Process : pc[w] # "stuck" /\ e \in batch[w]

\* Two minutes pass, whether the worker of the row is gone or, which counts as a
\* fault, slow.
lockLapses(e) ==
    /\ lock[e] = "fresh"
    /\ IF Held(e) THEN Fault ELSE UNCHANGED faults
    /\ lock' = [lock EXCEPT ![e] = "old"]
    /\ disturbed' = disturbed \cup {e}
    /\ UNCHANGED <<status, due, tick, wire, client, sends>>

\* Faults: a lock never runs out; a lock is not looked at.
NeverTakenOver(e) == lock[e] = "none"
NotLocked(e) == TRUE
Unlocked(e) == lock[e] # "fresh"

Ready(e) == status[e] = "pending" /\ due[e] /\ Unlocked(e)

-----------------------------------------------------------------------------
(* The tick of a worker                                                    *)

lockReadyOutboxEvents(w) ==
    /\ pc[w] = "idle" /\ \E e \in Event : Ready(e)
    /\ lock' = [e \in Event |-> IF Ready(e) THEN "fresh" ELSE lock[e]]
    /\ batch' = [batch EXCEPT ![w] = {e \in Event : Ready(e)}]
    /\ pc' = [pc EXCEPT ![w] = "next"]
    /\ UNCHANGED <<status, due, at, wire, client, sends, disturbed, faults>>

\* The channel takes the message, and has room for another or waits until its
\* buffer has drained.
publishes(w, e) ==
    /\ pc[w] = "next" /\ e \in batch[w]
    /\ at' = [at EXCEPT ![w] = e]
    /\ pc' \in {[pc EXCEPT ![w] = p] : p \in {"sent", "draining"}}
    /\ buffer' = [buffer EXCEPT ![w][e] = @ + 1]
    /\ sends' = [sends EXCEPT ![e] = @ + 1]
    /\ UNCHANGED <<row, batch, queue, lost, client, disturbed, faults>>

\* RabbitMQ cannot be reached, or the channel is closed.
publishThrows(w, e) ==
    /\ pc[w] = "next" /\ e \in batch[w]
    /\ at' = [at EXCEPT ![w] = e]
    /\ pc' = [pc EXCEPT ![w] = "failed"]
    /\ UNCHANGED <<row, batch, wire, client, sends, disturbed, faults>>

drains(w) ==
    /\ pc[w] = "draining" /\ buffer[w] = NoRow
    /\ pc' = [pc EXCEPT ![w] = "sent"]
    /\ UNCHANGED <<row, at, batch, wire, client, sends, disturbed, faults>>

\* By its id, whatever the row has become since it was claimed; the loop goes on
\* with the next row, or the tick ends.
markOutboxPublished(w) ==
    /\ pc[w] = "sent"
    /\ status' = [status EXCEPT ![at[w]] = "published"]
    /\ lock' = [lock EXCEPT ![at[w]] = "none"]
    /\ batch' = [batch EXCEPT ![w] = @ \ {at[w]}]
    /\ pc' = [pc EXCEPT ![w] = IF batch[w] \subseteq {at[w]} THEN "idle" ELSE "next"]
    /\ at' = [at EXCEPT ![w] = "none"]
    /\ UNCHANGED <<due, wire, client, sends, disturbed, faults>>

\* The statement fails, and the row is to be marked for a retry.
markFails(w) ==
    /\ pc[w] = "sent" /\ Fault
    /\ pc' = [pc EXCEPT ![w] = "failed"]
    /\ UNCHANGED <<row, at, batch, wire, client, sends, disturbed>>

\* PostgreSQL refuses the statement, whose $2 is a VARCHAR where it is assigned to
\* the status and a text where it is compared with 'dead'.  The refusal is thrown
\* out of the loop: no row is ever in retry or dead, and this one and the rest of
\* the batch stay pending and are left to their locks.
markOutboxRetry(w) ==
    /\ pc[w] = "failed"
    /\ pc' = [pc EXCEPT ![w] = "idle"]
    /\ at' = [at EXCEPT ![w] = "none"]
    /\ batch' = [batch EXCEPT ![w] = {}]
    /\ UNCHANGED <<row, wire, client, sends, disturbed, faults>>

-----------------------------------------------------------------------------
(* RabbitMQ, and the processes                                             *)

reachesBroker(w, e) ==
    /\ buffer[w][e] > 0
    /\ buffer' = [buffer EXCEPT ![w][e] = @ - 1]
    /\ queue' = [queue EXCEPT ![e] = @ + 1]
    /\ UNCHANGED <<row, tick, client, lost, sends, disturbed, faults>>

Drops(w) ==
    /\ buffer' = [buffer EXCEPT ![w] = NoRow]
    /\ lost' = lost \cup {e \in Event : buffer[w][e] > 0}

\* The next event opens another channel; a tick that waits for the drain of the
\* closed one waits for ever, and keeps the ticks after it from running.
connectionCloses(w) ==
    /\ pc[w] = "draining" \/ buffer[w] # NoRow
    /\ Fault /\ Drops(w)
    /\ pc' = [pc EXCEPT ![w] = IF @ = "draining" THEN "stuck" ELSE @]
    /\ UNCHANGED <<row, at, batch, queue, client, sends, disturbed>>

processStops(w) ==
    /\ pc[w] # "down" /\ Fault
    /\ Drops(w)
    /\ pc' = [pc EXCEPT ![w] = "down"]
    /\ at' = [at EXCEPT ![w] = "none"]
    /\ batch' = [batch EXCEPT ![w] = {}]
    /\ delivered' = [delivered EXCEPT ![w] = {}]
    /\ UNCHANGED <<row, queue, told, sends, disturbed>>

processStarts(w) ==
    /\ pc[w] = "down"
    /\ pc' = [pc EXCEPT ![w] = "idle"]
    /\ UNCHANGED <<row, at, batch, wire, client, sends, disturbed, faults>>

-----------------------------------------------------------------------------
(* handleMessage of a consumer                                             *)

\* The message is emitted unless this process has done so, and acknowledged;
\* the acknowledgement is lost if the connection closes.
handleMessage(w, e) ==
    /\ pc[w] # "down" /\ queue[e] > 0
    /\ told' = IF e \in delivered[w] THEN told ELSE told \cup {e}
    /\ delivered' = [delivered EXCEPT ![w] = @ \cup {e}]
    /\ \/ queue' = [queue EXCEPT ![e] = @ - 1] /\ UNCHANGED faults
       \/ Fault /\ UNCHANGED queue
    /\ UNCHANGED <<row, tick, buffer, lost, sends, disturbed>>

\* Fault: an event that could not be emitted stays in deliveredEventIds.
Remembered(w, e) == delivered[w] \cup {e}
Forgotten(w, e) == delivered[w] \ {e}

\* The emission throws, and the message goes back to the queue.
emissionThrows(w, e) ==
    /\ pc[w] # "down" /\ queue[e] > 0 /\ e \notin delivered[w] /\ Fault
    /\ delivered' = [delivered EXCEPT ![w] = Forgotten(w, e)]
    /\ UNCHANGED <<row, tick, wire, told, sends, disturbed>>

-----------------------------------------------------------------------------

Init ==
    /\ status = [e \in Event |-> "none"]
    /\ lock = [e \in Event |-> "none"] /\ due = [e \in Event |-> FALSE]
    /\ pc = [w \in Process |-> "idle"] /\ at = [w \in Process |-> "none"]
    /\ batch = [w \in Process |-> {}]
    /\ buffer = [w \in Process |-> NoRow] /\ queue = NoRow /\ lost = {}
    /\ delivered = [w \in Process |-> {}] /\ told = {}
    /\ sends = NoRow /\ disturbed = {} /\ faults = 0

Works(w) ==
    \/ \E e \in Event : publishes(w, e) \/ publishThrows(w, e)
    \/ drains(w) \/ markOutboxPublished(w) \/ markOutboxRetry(w)

Fails(w) ==
    \/ markFails(w) \/ connectionCloses(w) \/ processStops(w)
    \/ \E e \in Event : emissionThrows(w, e)

Next ==
    \/ \E e \in Event : enqueueOutboxEvent(e) \/ becomesDue(e) \/ lockLapses(e)
    \/ \E w \in Process :
         \/ lockReadyOutboxEvents(w) \/ Works(w) \/ Fails(w) \/ processStarts(w)
         \/ \E e \in Event : reachesBroker(w, e) \/ handleMessage(w, e)

Spec == Init /\ [][Next]_vars

\* The interval of the worker, the subscription of the consumer, the restart
\* policy of the deployment, and time.
Fairness ==
    /\ \A e \in Event : WF_vars(becomesDue(e)) /\ WF_vars(lockLapses(e))
    /\ \A w \in Process :
         /\ WF_vars(lockReadyOutboxEvents(w)) /\ WF_vars(Works(w)) /\ WF_vars(processStarts(w))
         /\ \A e \in Event : WF_vars(reachesBroker(w, e))
    /\ \A e \in Event : WF_vars(\E w \in Process : handleMessage(w, e))

FairSpec == Spec /\ Fairness

-----------------------------------------------------------------------------
(* Properties                                                              *)

\* Every variable has its type.
TypeOK ==
    /\ status \in [Event -> {"none", "pending", "published"}]
    /\ lock \in [Event -> {"none", "fresh", "old"}] /\ due \in [Event -> BOOLEAN]
    /\ sends \in [Event -> Nat] /\ queue \in [Event -> Nat]
    /\ pc \in [Process -> {"idle", "next", "draining", "sent", "failed", "stuck", "down"}]
    /\ at \in [Process -> Event \cup {"none"}]
    /\ batch \in [Process -> SUBSET Event] /\ buffer \in [Process -> [Event -> Nat]]
    /\ delivered \in [Process -> SUBSET Event] /\ told \subseteq Event
    /\ lost \subseteq Event /\ disturbed \subseteq Event
    /\ faults \in 0..MaxFaults

\* With several workers on one table, an event whose lock has not run out is sent
\* once at the most, and exactly once if its row is published.
SentOnceUndisturbed ==
    \A e \in Event \ disturbed :
        /\ sends[e] <= 1
        /\ status[e] = "published" => sends[e] = 1

\* An event that is published, or that a channel has taken, is told to the clients
\* or still on its way, unless a channel has closed with it: a late mark by id
\* says nothing that is not so, and no consumer acknowledges a message of which
\* the clients have not heard.
OnItsWay ==
    \A e \in Event : status[e] = "published" \/ sends[e] > 0 =>
        \/ e \in told \/ e \in lost
        \/ queue[e] > 0 \/ \E w \in Process : buffer[w][e] > 0

\* Once publishing no longer throws, every row ends published, and for good, if
\* there is ever again a process whose tick does not wait for the drain of a
\* closed channel: although no failed row can be marked for a retry, the lapse of
\* its lock gives it, and those that were claimed with it, to another tick.
EveryRowEnds ==
    /\ <>[][\A w \in Process, e \in Event : ~publishThrows(w, e)]_vars
    /\ []<>\E w \in Process : pc[w] # "stuck"
    => \A e \in Event : <>[](status[e] \in {"none", "published"})

\* A message the broker has is told to the clients.
ClientsAreTold == \A e \in Event : (queue[e] > 0) ~> (e \in told)
=============================================================================
