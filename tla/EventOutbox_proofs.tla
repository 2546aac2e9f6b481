-------------------------- MODULE EventOutbox_proofs -------------------------
(***************************************************************************)
(* Proofs about EventOutbox, for any number of events, processes and       *)
(* faults.                                                                 *)
(*                                                                         *)
(* A row is marked by its id, by whoever once claimed it.  What makes that *)
(* safe for a row whose lock has not run out is that it is then in one     *)
(* batch only, and not sent before the tick of that batch is at it; CalmInv*)
(* says so.  What holds for every row is weaker: a tick that is to mark a  *)
(* row has sent it (TickInv).                                              *)
(***************************************************************************)
EXTENDS EventOutbox, TLAPS

AtWork == {"draining", "sent", "stuck"}

TickInv(w) ==
    /\ pc[w] \in {"idle", "next", "down"} => at[w] = "none"
    /\ pc[w] \in {"idle", "down"} => batch[w] = {}
    /\ pc[w] \in AtWork \cup {"failed"} => at[w] \in batch[w]
    /\ pc[w] \in AtWork => sends[at[w]] > 0

CalmInv(e) ==
    /\ lock[e] # "old"
    /\ status[e] = "none" => sends[e] = 0 /\ lock[e] = "none"
    /\ lock[e] = "fresh" => status[e] = "pending"
    /\ lock[e] = "none" /\ status[e] = "pending" => sends[e] = 0
    /\ \A w \in Process : e \in batch[w] =>
         /\ lock[e] = "fresh"
         /\ (pc[w] \in AtWork \cup {"failed"} /\ at[w] = e) \/ sends[e] = 0
         /\ \A v \in Process : e \in batch[v] => v = w

Heard == \A w \in Process : delivered[w] \subseteq told

OutboxInv ==
    /\ \A w \in Process : TickInv(w)
    /\ \A e \in Event \ disturbed : CalmInv(e)
    /\ Heard
    /\ SentOnceUndisturbed /\ OnItsWay

-----------------------------------------------------------------------------

(***************************************************************************)
(* The bound on the faults holds.                                          *)
(***************************************************************************)
LEMMA FaultType == ASSUME TypeOK, Fault PROVE faults' \in 0 .. MaxFaults
BY OutboxAssumption DEF TypeOK, Fault

(***************************************************************************)
(* Every step keeps every variable well typed.                             *)
(***************************************************************************)
LEMMA TypeStep ==
    ASSUME TypeOK, \A v \in Process : TickInv(v), Next PROVE TypeOK'
<1>1. ASSUME NEW e \in Event, enqueueOutboxEvent(e) PROVE TypeOK'
  BY <1>1 DEF TypeOK, enqueueOutboxEvent, tick, wire, client
<1>2. ASSUME NEW e \in Event, becomesDue(e) PROVE TypeOK'
  BY <1>2 DEF TypeOK, becomesDue, tick, wire, client
<1>3. ASSUME NEW e \in Event, lockLapses(e) PROVE TypeOK'
  BY <1>3, FaultType DEF TypeOK, lockLapses, Held, tick, wire, client
<1>4. ASSUME NEW w \in Process, lockReadyOutboxEvents(w) PROVE TypeOK'
  BY <1>4 DEF TypeOK, lockReadyOutboxEvents, Ready, Unlocked, wire, client
<1>5. ASSUME NEW w \in Process, NEW e \in Event, publishes(w, e) PROVE TypeOK'
  <2>1. /\ at' \in [Process -> Event \cup {"none"}]
        /\ pc' \in [Process -> {"idle", "next", "draining", "sent", "failed", "stuck", "down"}]
    BY <1>5 DEF TypeOK, publishes
  <2>2. buffer' \in [Process -> [Event -> Nat]] /\ sends' \in [Event -> Nat]
    BY <1>5 DEF TypeOK, publishes
  <2>3. QED
    BY <1>5, <2>1, <2>2 DEF TypeOK, publishes, row, client
<1>6. ASSUME NEW w \in Process, NEW e \in Event, publishThrows(w, e) PROVE TypeOK'
  BY <1>6 DEF TypeOK, publishThrows, row, wire, client
<1>7. ASSUME NEW w \in Process, drains(w) PROVE TypeOK'
  BY <1>7 DEF TypeOK, drains, NoRow, row, wire, client
<1>8. ASSUME NEW w \in Process, markOutboxPublished(w) PROVE TypeOK'
  BY <1>8 DEF TypeOK, markOutboxPublished, wire, client
<1>9. ASSUME NEW w \in Process, markOutboxRetry(w) PROVE TypeOK'
  BY <1>9
     DEF TypeOK, markOutboxRetry, row, wire, client
<1>10. ASSUME NEW w \in Process, markFails(w) PROVE TypeOK'
  <2>1. disturbed' \subseteq Event /\ faults' \in 0 .. MaxFaults
    BY <1>10, FaultType DEF TypeOK, TickInv, AtWork, markFails
  <2>2. pc' = [pc EXCEPT ![w] = "failed"] /\ UNCHANGED <<row, at, batch, wire, client, sends>>
    BY <1>10 DEF markFails
  <2>3. QED
    BY <2>1, <2>2 DEF TypeOK, row, wire, client
<1>11. ASSUME NEW w \in Process, connectionCloses(w) PROVE TypeOK'
  BY <1>11, FaultType DEF TypeOK, connectionCloses, Drops, NoRow, row, client
<1>12. ASSUME NEW w \in Process, processStops(w) PROVE TypeOK'
  BY <1>12, FaultType DEF TypeOK, processStops, Drops, NoRow, row
<1>13. ASSUME NEW w \in Process, processStarts(w) PROVE TypeOK'
  BY <1>13 DEF TypeOK, processStarts, row, wire, client
<1>14. ASSUME NEW w \in Process, NEW e \in Event, reachesBroker(w, e) PROVE TypeOK'
  BY <1>14 DEF TypeOK, reachesBroker, row, tick, client
<1>15. ASSUME NEW w \in Process, NEW e \in Event, handleMessage(w, e) PROVE TypeOK'
  <2>1. told' \subseteq Event /\ delivered' \in [Process -> SUBSET Event]
    BY <1>15 DEF TypeOK, handleMessage
  <2>2. queue' \in [Event -> Nat] /\ faults' \in 0 .. MaxFaults
    <3>1. Fault \/ UNCHANGED faults
      BY <1>15 DEF handleMessage
    <3>2. queue[e] \in Nat /\ queue[e] > 0 /\ (queue' = queue \/ queue' = [queue EXCEPT ![e] = @ - 1])
      BY <1>15 DEF TypeOK, handleMessage
    <3>3. QED
      BY <3>1, <3>2, FaultType DEF TypeOK
  <2>3. UNCHANGED <<row, tick, buffer, lost, sends, disturbed>>
    BY <1>15 DEF handleMessage
  <2>4. QED
    BY <2>1, <2>2, <2>3 DEF TypeOK, row, tick
<1>16. ASSUME NEW w \in Process, NEW e \in Event, emissionThrows(w, e) PROVE TypeOK'
  BY <1>16, FaultType DEF TypeOK, emissionThrows, Forgotten, row, tick, wire
<1>17. QED
  BY <1>1, <1>2, <1>3, <1>4, <1>5, <1>6, <1>7, <1>8, <1>9, <1>10,
     <1>11, <1>12, <1>13, <1>14, <1>15, <1>16 DEF Next, Works, Fails

(***************************************************************************)
(* A tick stays at a row of its batch, sent before it is marked.           *)
(***************************************************************************)
LEMMA TickStep ==
    ASSUME TypeOK, \A v \in Process : TickInv(v), Next
      PROVE \A v \in Process : TickInv(v)'
<1>1. ASSUME NEW e \in Event, enqueueOutboxEvent(e) PROVE \A v \in Process : TickInv(v)'
  BY <1>1 DEF TypeOK, TickInv, AtWork, enqueueOutboxEvent, tick, wire, client
<1>2. ASSUME NEW e \in Event, becomesDue(e) PROVE \A v \in Process : TickInv(v)'
  BY <1>2 DEF TypeOK, TickInv, AtWork, becomesDue, tick, wire, client
<1>3. ASSUME NEW e \in Event, lockLapses(e) PROVE \A v \in Process : TickInv(v)'
  BY <1>3 DEF TypeOK, TickInv, AtWork, lockLapses, Held, Fault, tick, wire, client
<1>4. ASSUME NEW w \in Process, lockReadyOutboxEvents(w)
      PROVE \A v \in Process : TickInv(v)'
  BY <1>4 DEF TypeOK, TickInv, AtWork, lockReadyOutboxEvents, Ready, Unlocked, wire,
         client
<1>5. ASSUME NEW w \in Process, NEW e \in Event, publishes(w, e)
      PROVE \A v \in Process : TickInv(v)'
  BY <1>5 DEF TypeOK, TickInv, AtWork, publishes, row, client
<1>6. ASSUME NEW w \in Process, NEW e \in Event, publishThrows(w, e)
      PROVE \A v \in Process : TickInv(v)'
  BY <1>6 DEF TypeOK, TickInv, AtWork, publishThrows, row, wire, client
<1>7. ASSUME NEW w \in Process, drains(w) PROVE \A v \in Process : TickInv(v)'
  BY <1>7 DEF TypeOK, TickInv, AtWork, drains, NoRow, row, wire, client
<1>8. ASSUME NEW w \in Process, markOutboxPublished(w)
      PROVE \A v \in Process : TickInv(v)'
  BY <1>8 DEF TypeOK, TickInv, AtWork, markOutboxPublished, wire, client
<1>9. ASSUME NEW w \in Process, markOutboxRetry(w) PROVE \A v \in Process : TickInv(v)'
  BY <1>9 DEF TypeOK, TickInv, AtWork, markOutboxRetry, row, wire, client
<1>10. ASSUME NEW w \in Process, markFails(w) PROVE \A v \in Process : TickInv(v)'
  BY <1>10 DEF TypeOK, TickInv, AtWork, markFails, Fault, row, wire, client
<1>11. ASSUME NEW w \in Process, connectionCloses(w)
      PROVE \A v \in Process : TickInv(v)'
  BY <1>11
     DEF TypeOK, TickInv, AtWork, connectionCloses, Fault, Drops, NoRow, row, client
<1>12. ASSUME NEW w \in Process, processStops(w) PROVE \A v \in Process : TickInv(v)'
  BY <1>12 DEF TypeOK, TickInv, AtWork, processStops, Fault, Drops, NoRow, row
<1>13. ASSUME NEW w \in Process, processStarts(w) PROVE \A v \in Process : TickInv(v)'
  BY <1>13 DEF TypeOK, TickInv, AtWork, processStarts, row, wire, client
<1>14. ASSUME NEW w \in Process, NEW e \in Event, reachesBroker(w, e)
      PROVE \A v \in Process : TickInv(v)'
  BY <1>14 DEF TypeOK, TickInv, AtWork, reachesBroker, row, tick, client
<1>15. ASSUME NEW w \in Process, NEW e \in Event, handleMessage(w, e)
      PROVE \A v \in Process : TickInv(v)'
  BY <1>15 DEF TypeOK, TickInv, AtWork, handleMessage, Fault, row, tick
<1>16. ASSUME NEW w \in Process, NEW e \in Event, emissionThrows(w, e)
      PROVE \A v \in Process : TickInv(v)'
  BY <1>16
     DEF TypeOK, TickInv, AtWork, emissionThrows, Fault, Forgotten, row, tick, wire
<1>17. QED
  BY <1>1, <1>2, <1>3, <1>4, <1>5, <1>6, <1>7, <1>8, <1>9, <1>10,
     <1>11, <1>12, <1>13, <1>14, <1>15, <1>16 DEF Next, Works, Fails

(***************************************************************************)
(* A row whose lock has not run out stays in one batch.                    *)
(***************************************************************************)
LEMMA CalmStep ==
    ASSUME TypeOK, \A v \in Process : TickInv(v), \A f \in Event \ disturbed : CalmInv(f),
           SentOnceUndisturbed, Next PROVE \A f \in Event \ disturbed' : CalmInv(f)'
<1>1. ASSUME NEW e \in Event, enqueueOutboxEvent(e)
      PROVE \A f \in Event \ disturbed' : CalmInv(f)'
  BY <1>1 DEF TypeOK, TickInv, AtWork, CalmInv, SentOnceUndisturbed, enqueueOutboxEvent,
         tick, wire, client
<1>2. ASSUME NEW e \in Event, becomesDue(e)
      PROVE \A f \in Event \ disturbed' : CalmInv(f)'
  BY <1>2 DEF TypeOK, TickInv, AtWork, CalmInv, SentOnceUndisturbed, becomesDue, tick,
         wire, client
<1>3. ASSUME NEW e \in Event, lockLapses(e)
      PROVE \A f \in Event \ disturbed' : CalmInv(f)'
  BY <1>3 DEF TypeOK, TickInv, AtWork, CalmInv, SentOnceUndisturbed, lockLapses, Held,
         Fault, tick, wire, client
<1>4. ASSUME NEW w \in Process, lockReadyOutboxEvents(w)
      PROVE \A f \in Event \ disturbed' : CalmInv(f)'
  BY <1>4 DEF TypeOK, TickInv, AtWork, CalmInv, SentOnceUndisturbed,
         lockReadyOutboxEvents, Ready, Unlocked, wire, client
<1>5. ASSUME NEW w \in Process, NEW e \in Event, publishes(w, e)
      PROVE \A f \in Event \ disturbed' : CalmInv(f)'
  BY <1>5 DEF TypeOK, TickInv, AtWork, CalmInv, SentOnceUndisturbed, publishes, row,
         client
<1>6. ASSUME NEW w \in Process, NEW e \in Event, publishThrows(w, e)
      PROVE \A f \in Event \ disturbed' : CalmInv(f)'
  BY <1>6 DEF TypeOK, TickInv, AtWork, CalmInv, SentOnceUndisturbed, publishThrows, row,
         wire, client
<1>7. ASSUME NEW w \in Process, drains(w)
      PROVE \A f \in Event \ disturbed' : CalmInv(f)'
  BY <1>7 DEF TypeOK, TickInv, AtWork, CalmInv, SentOnceUndisturbed, drains, NoRow, row,
         wire, client
<1>8. ASSUME NEW w \in Process, markOutboxPublished(w)
      PROVE \A f \in Event \ disturbed' : CalmInv(f)'
  BY <1>8
     DEF TypeOK, TickInv, AtWork, CalmInv, SentOnceUndisturbed, markOutboxPublished, wire, client
<1>9. ASSUME NEW w \in Process, markOutboxRetry(w)
      PROVE \A f \in Event \ disturbed' : CalmInv(f)'
  BY <1>9 DEF TypeOK, TickInv, AtWork, CalmInv, SentOnceUndisturbed, markOutboxRetry,
         row, wire, client
<1>10. ASSUME NEW w \in Process, markFails(w)
      PROVE \A f \in Event \ disturbed' : CalmInv(f)'
  BY <1>10 DEF TypeOK, TickInv, AtWork, CalmInv, SentOnceUndisturbed, markFails, Fault,
         row, wire, client
<1>11. ASSUME NEW w \in Process, connectionCloses(w)
      PROVE \A f \in Event \ disturbed' : CalmInv(f)'
  BY <1>11 DEF TypeOK, TickInv, AtWork, CalmInv, SentOnceUndisturbed, connectionCloses,
         Fault, Drops, NoRow, row, client
<1>12. ASSUME NEW w \in Process, processStops(w)
      PROVE \A f \in Event \ disturbed' : CalmInv(f)'
  BY <1>12
     DEF TypeOK, TickInv, AtWork, CalmInv, SentOnceUndisturbed, processStops, Fault,
         Drops, NoRow, row
<1>13. ASSUME NEW w \in Process, processStarts(w)
      PROVE \A f \in Event \ disturbed' : CalmInv(f)'
  BY <1>13
     DEF TypeOK, TickInv, AtWork, CalmInv, SentOnceUndisturbed, processStarts, row,
         wire, client
<1>14. ASSUME NEW w \in Process, NEW e \in Event, reachesBroker(w, e)
      PROVE \A f \in Event \ disturbed' : CalmInv(f)'
  BY <1>14
     DEF TypeOK, TickInv, AtWork, CalmInv, SentOnceUndisturbed, reachesBroker, row,
         tick, client
<1>15. ASSUME NEW w \in Process, NEW e \in Event, handleMessage(w, e)
      PROVE \A f \in Event \ disturbed' : CalmInv(f)'
  BY <1>15 DEF TypeOK, TickInv, AtWork, CalmInv, SentOnceUndisturbed, handleMessage,
         Fault, row, tick
<1>16. ASSUME NEW w \in Process, NEW e \in Event, emissionThrows(w, e)
      PROVE \A f \in Event \ disturbed' : CalmInv(f)'
  BY <1>16 DEF TypeOK, TickInv, AtWork, CalmInv, SentOnceUndisturbed, emissionThrows,
         Fault, Forgotten, row, tick, wire
<1>17. QED
  BY <1>1, <1>2, <1>3, <1>4, <1>5, <1>6, <1>7, <1>8, <1>9, <1>10,
     <1>11, <1>12, <1>13, <1>14, <1>15, <1>16 DEF Next, Works, Fails

(***************************************************************************)
(* An undisturbed event is not sent twice.                                 *)
(***************************************************************************)
LEMMA SentOnceStep ==
    ASSUME TypeOK, \A v \in Process : TickInv(v), \A f \in Event \ disturbed : CalmInv(f),
           SentOnceUndisturbed, Next PROVE SentOnceUndisturbed'
<1>1. ASSUME NEW e \in Event, enqueueOutboxEvent(e) PROVE SentOnceUndisturbed'
  BY <1>1 DEF TypeOK, TickInv, AtWork, CalmInv, SentOnceUndisturbed, enqueueOutboxEvent,
         tick, wire, client
<1>2. ASSUME NEW e \in Event, becomesDue(e) PROVE SentOnceUndisturbed'
  BY <1>2 DEF TypeOK, TickInv, AtWork, CalmInv, SentOnceUndisturbed, becomesDue, tick,
         wire, client
<1>3. ASSUME NEW e \in Event, lockLapses(e) PROVE SentOnceUndisturbed'
  BY <1>3 DEF TypeOK, TickInv, AtWork, CalmInv, SentOnceUndisturbed, lockLapses, Held,
         Fault, tick, wire, client
<1>4. ASSUME NEW w \in Process, lockReadyOutboxEvents(w) PROVE SentOnceUndisturbed'
  BY <1>4 DEF TypeOK, TickInv, AtWork, CalmInv, SentOnceUndisturbed,
         lockReadyOutboxEvents, Ready, Unlocked, wire, client
<1>5. ASSUME NEW w \in Process, NEW e \in Event, publishes(w, e)
      PROVE SentOnceUndisturbed'
  <2>1. e \in disturbed \/ (sends[e] = 0 /\ status[e] \in {"pending", "retry"})
    BY <1>5 DEF TypeOK, CalmInv, AtWork, publishes
  <2>2. UNCHANGED <<status, disturbed>> /\ sends' = [sends EXCEPT ![e] = @ + 1]
    BY <1>5 DEF publishes, row
  <2>3. QED
    BY <2>1, <2>2 DEF TypeOK, SentOnceUndisturbed
<1>6. ASSUME NEW w \in Process, NEW e \in Event, publishThrows(w, e)
      PROVE SentOnceUndisturbed'
  BY <1>6 DEF TypeOK, TickInv, AtWork, CalmInv, SentOnceUndisturbed, publishThrows, row,
         wire, client
<1>7. ASSUME NEW w \in Process, drains(w) PROVE SentOnceUndisturbed'
  BY <1>7 DEF TypeOK, TickInv, AtWork, CalmInv, SentOnceUndisturbed, drains, NoRow, row,
         wire, client
<1>8. ASSUME NEW w \in Process, markOutboxPublished(w) PROVE SentOnceUndisturbed'
  BY <1>8
     DEF TypeOK, TickInv, AtWork, CalmInv, SentOnceUndisturbed, markOutboxPublished, wire, client
<1>9. ASSUME NEW w \in Process, markOutboxRetry(w) PROVE SentOnceUndisturbed'
  BY <1>9 DEF TypeOK, TickInv, AtWork, CalmInv, SentOnceUndisturbed, markOutboxRetry, row, wire, client
<1>10. ASSUME NEW w \in Process, markFails(w) PROVE SentOnceUndisturbed'
  BY <1>10 DEF TypeOK, TickInv, AtWork, CalmInv, SentOnceUndisturbed, markFails, Fault,
         row, wire, client
<1>11. ASSUME NEW w \in Process, connectionCloses(w) PROVE SentOnceUndisturbed'
  BY <1>11 DEF TypeOK, TickInv, AtWork, CalmInv, SentOnceUndisturbed, connectionCloses,
         Fault, Drops, NoRow, row, client
<1>12. ASSUME NEW w \in Process, processStops(w) PROVE SentOnceUndisturbed'
  BY <1>12
     DEF TypeOK, TickInv, AtWork, CalmInv, SentOnceUndisturbed, processStops, Fault,
         Drops, NoRow, row
<1>13. ASSUME NEW w \in Process, processStarts(w) PROVE SentOnceUndisturbed'
  BY <1>13
     DEF TypeOK, TickInv, AtWork, CalmInv, SentOnceUndisturbed, processStarts, row,
         wire, client
<1>14. ASSUME NEW w \in Process, NEW e \in Event, reachesBroker(w, e)
      PROVE SentOnceUndisturbed'
  BY <1>14
     DEF TypeOK, TickInv, AtWork, CalmInv, SentOnceUndisturbed, reachesBroker, row,
         tick, client
<1>15. ASSUME NEW w \in Process, NEW e \in Event, handleMessage(w, e)
      PROVE SentOnceUndisturbed'
  BY <1>15 DEF TypeOK, TickInv, AtWork, CalmInv, SentOnceUndisturbed, handleMessage,
         Fault, row, tick
<1>16. ASSUME NEW w \in Process, NEW e \in Event, emissionThrows(w, e)
      PROVE SentOnceUndisturbed'
  BY <1>16 DEF TypeOK, TickInv, AtWork, CalmInv, SentOnceUndisturbed, emissionThrows,
         Fault, Forgotten, row, tick, wire
<1>17. QED
  BY <1>1, <1>2, <1>3, <1>4, <1>5, <1>6, <1>7, <1>8, <1>9, <1>10,
     <1>11, <1>12, <1>13, <1>14, <1>15, <1>16 DEF Next, Works, Fails

(***************************************************************************)
(* What a process remembers, the clients have heard.                       *)
(***************************************************************************)
LEMMA HeardStep ==
    ASSUME TypeOK, Heard, Next PROVE Heard'
<1>1. ASSUME NEW e \in Event, enqueueOutboxEvent(e) PROVE Heard'
  BY <1>1 DEF TypeOK, Heard, enqueueOutboxEvent, tick, wire, client
<1>2. ASSUME NEW e \in Event, becomesDue(e) PROVE Heard'
  BY <1>2 DEF TypeOK, Heard, becomesDue, tick, wire, client
<1>3. ASSUME NEW e \in Event, lockLapses(e) PROVE Heard'
  BY <1>3 DEF TypeOK, Heard, lockLapses, Held, Fault, tick, wire, client
<1>4. ASSUME NEW w \in Process, lockReadyOutboxEvents(w) PROVE Heard'
  BY <1>4 DEF TypeOK, Heard, lockReadyOutboxEvents, Ready, Unlocked, wire, client
<1>5. ASSUME NEW w \in Process, NEW e \in Event, publishes(w, e) PROVE Heard'
  BY <1>5 DEF TypeOK, Heard, publishes, row, client
<1>6. ASSUME NEW w \in Process, NEW e \in Event, publishThrows(w, e) PROVE Heard'
  BY <1>6 DEF TypeOK, Heard, publishThrows, row, wire, client
<1>7. ASSUME NEW w \in Process, drains(w) PROVE Heard'
  BY <1>7 DEF TypeOK, Heard, drains, NoRow, row, wire, client
<1>8. ASSUME NEW w \in Process, markOutboxPublished(w) PROVE Heard'
  BY <1>8 DEF TypeOK, Heard, markOutboxPublished, wire, client
<1>9. ASSUME NEW w \in Process, markOutboxRetry(w) PROVE Heard'
  BY <1>9 DEF TypeOK, Heard, markOutboxRetry, row, wire, client
<1>10. ASSUME NEW w \in Process, markFails(w) PROVE Heard'
  BY <1>10 DEF TypeOK, Heard, markFails, Fault, row, wire, client
<1>11. ASSUME NEW w \in Process, connectionCloses(w) PROVE Heard'
  BY <1>11 DEF TypeOK, Heard, connectionCloses, Fault, Drops, NoRow, row, client
<1>12. ASSUME NEW w \in Process, processStops(w) PROVE Heard'
  BY <1>12 DEF TypeOK, Heard, processStops, Fault, Drops, NoRow, row
<1>13. ASSUME NEW w \in Process, processStarts(w) PROVE Heard'
  BY <1>13 DEF TypeOK, Heard, processStarts, row, wire, client
<1>14. ASSUME NEW w \in Process, NEW e \in Event, reachesBroker(w, e) PROVE Heard'
  BY <1>14 DEF TypeOK, Heard, reachesBroker, row, tick, client
<1>15. ASSUME NEW w \in Process, NEW e \in Event, handleMessage(w, e) PROVE Heard'
  BY <1>15 DEF TypeOK, Heard, handleMessage, Fault, row, tick
<1>16. ASSUME NEW w \in Process, NEW e \in Event, emissionThrows(w, e) PROVE Heard'
  BY <1>16 DEF TypeOK, Heard, emissionThrows, Fault, Forgotten, row, tick, wire
<1>17. QED
  BY <1>1, <1>2, <1>3, <1>4, <1>5, <1>6, <1>7, <1>8, <1>9, <1>10,
     <1>11, <1>12, <1>13, <1>14, <1>15, <1>16 DEF Next, Works, Fails

(***************************************************************************)
(* No message is lost but with its channel.                                *)
(***************************************************************************)
LEMMA WayStep ==
    ASSUME TypeOK, \A v \in Process : TickInv(v), Heard, OnItsWay, Next
      PROVE OnItsWay'
<1>1. ASSUME NEW e \in Event, enqueueOutboxEvent(e) PROVE OnItsWay'
  BY <1>1 DEF TypeOK, Heard, OnItsWay, enqueueOutboxEvent, tick, wire, client
<1>2. ASSUME NEW e \in Event, becomesDue(e) PROVE OnItsWay'
  BY <1>2 DEF TypeOK, Heard, OnItsWay, becomesDue, tick, wire, client
<1>3. ASSUME NEW e \in Event, lockLapses(e) PROVE OnItsWay'
  BY <1>3 DEF TypeOK, Heard, OnItsWay, lockLapses, Held, Fault, tick, wire, client
<1>4. ASSUME NEW w \in Process, lockReadyOutboxEvents(w) PROVE OnItsWay'
  BY <1>4 DEF TypeOK, Heard, OnItsWay, lockReadyOutboxEvents, Ready, Unlocked, wire,
         client
<1>5. ASSUME NEW w \in Process, NEW e \in Event, publishes(w, e) PROVE OnItsWay'
  BY <1>5 DEF TypeOK, Heard, OnItsWay, publishes, row, client
<1>6. ASSUME NEW w \in Process, NEW e \in Event, publishThrows(w, e) PROVE OnItsWay'
  BY <1>6 DEF TypeOK, Heard, OnItsWay, publishThrows, row, wire, client
<1>7. ASSUME NEW w \in Process, drains(w) PROVE OnItsWay'
  BY <1>7 DEF TypeOK, Heard, OnItsWay, drains, NoRow, row, wire, client
<1>8. ASSUME NEW w \in Process, markOutboxPublished(w) PROVE OnItsWay'
  BY <1>8 DEF TypeOK, TickInv, AtWork, Heard, OnItsWay, markOutboxPublished,
         wire, client
<1>9. ASSUME NEW w \in Process, markOutboxRetry(w) PROVE OnItsWay'
  BY <1>9 DEF TypeOK, Heard, OnItsWay, markOutboxRetry, row, wire, client
<1>10. ASSUME NEW w \in Process, markFails(w) PROVE OnItsWay'
  BY <1>10 DEF TypeOK, Heard, OnItsWay, markFails, Fault, row, wire, client
<1>11. ASSUME NEW w \in Process, connectionCloses(w) PROVE OnItsWay'
  BY <1>11
     DEF TypeOK, Heard, OnItsWay, connectionCloses, Fault, Drops, NoRow, row, client
<1>12. ASSUME NEW w \in Process, processStops(w) PROVE OnItsWay'
  BY <1>12 DEF TypeOK, Heard, OnItsWay, processStops, Fault, Drops, NoRow, row
<1>13. ASSUME NEW w \in Process, processStarts(w) PROVE OnItsWay'
  BY <1>13 DEF TypeOK, Heard, OnItsWay, processStarts, row, wire, client
<1>14. ASSUME NEW w \in Process, NEW e \in Event, reachesBroker(w, e) PROVE OnItsWay'
  BY <1>14 DEF TypeOK, Heard, OnItsWay, reachesBroker, row, tick, client
<1>15. ASSUME NEW w \in Process, NEW e \in Event, handleMessage(w, e) PROVE OnItsWay'
  BY <1>15 DEF TypeOK, Heard, OnItsWay, handleMessage, Fault, row, tick
<1>16. ASSUME NEW w \in Process, NEW e \in Event, emissionThrows(w, e) PROVE OnItsWay'
  BY <1>16
     DEF TypeOK, Heard, OnItsWay, emissionThrows, Fault, Forgotten, row, tick, wire
<1>17. QED
  BY <1>1, <1>2, <1>3, <1>4, <1>5, <1>6, <1>7, <1>8, <1>9, <1>10,
     <1>11, <1>12, <1>13, <1>14, <1>15, <1>16 DEF Next, Works, Fails

-----------------------------------------------------------------------------

(***************************************************************************)
(* OutboxInv is inductive.                                                 *)
(***************************************************************************)
LEMMA InvInit == Init => TypeOK /\ OutboxInv
BY OutboxAssumption DEF Init, TypeOK, NoRow, OutboxInv, TickInv, AtWork, CalmInv, Heard,
   SentOnceUndisturbed, OnItsWay

(***************************************************************************)
(* Every step keeps it, as does a stutter.                                 *)
(***************************************************************************)
LEMMA InvNext == TypeOK /\ OutboxInv /\ [Next]_vars => TypeOK' /\ OutboxInv'
<1> SUFFICES ASSUME TypeOK, OutboxInv, [Next]_vars PROVE TypeOK' /\ OutboxInv'
  OBVIOUS
<1>1. CASE Next
  <2>1. TypeOK'
    BY <1>1, TypeStep DEF OutboxInv
  <2>2. (\A w \in Process : TickInv(w)') /\ Heard'
    BY <1>1, TickStep, HeardStep DEF OutboxInv
  <2>3. (\A e \in Event \ disturbed' : CalmInv(e)') /\ SentOnceUndisturbed'
    BY <1>1, CalmStep, SentOnceStep DEF OutboxInv
  <2>4. OnItsWay'
    BY <1>1, WayStep DEF OutboxInv
  <2>5. QED
    BY <2>1, <2>2, <2>3, <2>4 DEF OutboxInv
<1>2. CASE UNCHANGED vars
  BY <1>2 DEF vars, row, tick, wire, client, TypeOK, OutboxInv, TickInv, CalmInv, Heard,
     SentOnceUndisturbed, OnItsWay
<1>3. QED
  BY <1>1, <1>2

(***************************************************************************)
(* Every reachable state satisfies it.                                     *)
(***************************************************************************)
LEMMA OutboxSafe == Spec => [](TypeOK /\ OutboxInv)
BY InvInit, InvNext, PTL DEF Spec

(***************************************************************************)
(* Every variable has its type in every behaviour.                         *)
(***************************************************************************)
THEOREM TypeCorrect == Spec => []TypeOK
BY OutboxSafe, PTL

(***************************************************************************)
(* Any number of workers on the table send an event once, as long as its   *)
(* lock has not run out.                                                   *)
(***************************************************************************)
THEOREM SentOnce == Spec => []SentOnceUndisturbed
<1>1. OutboxInv => SentOnceUndisturbed
  BY DEF OutboxInv
<1>2. QED
  BY OutboxSafe, <1>1, PTL

(***************************************************************************)
(* No row is published of which no channel has taken the event, and no     *)
(* consumer acknowledges a message the clients have not heard: what is     *)
(* lost is lost with the channel of a publisher.                           *)
(***************************************************************************)
THEOREM SentIsOnItsWay == Spec => []OnItsWay
<1>1. OutboxInv => OnItsWay
  BY DEF OutboxInv
<1>2. QED
  BY OutboxSafe, <1>1, PTL
=============================================================================
