------------------------ MODULE NotificationsProofs ------------------------
(***************************************************************************)
(* Theorems about Notifications for every value of its constants: what the *)
(* outbox records of a delivery is what happened to it, posts are bounded, *)
(* and the events about an incident tell its story.                        *)
(***************************************************************************)
EXTENDS Notifications, FiniteSetTheorems, TLAPS

(* An event that is not there yet has no deliveries, and nothing was       *)
(* posted for it.                                                          *)
Unwritten ==
    \A x \in Slots : event[x[1]] = NoEvent =>
        delivery[x] = NoDelivery /\ received[x] = 0

(* What the dispatcher has in hand: a row leased to it, or one that was    *)
(* deleted under it, with attempts left.                                   *)
Busy == {"post", "answer", "finish"}
InHand ==
    /\ dispatcher.pc \notin Busy => dispatcher.outcome = "none"
    /\ dispatcher.pc \in Busy =>
          /\ dispatcher.of \in Slots
          /\ event[dispatcher.of[1]] # NoEvent
          /\ dispatcher.tries < Len(RETRY_SECONDS)
          /\ \/ /\ delivery[dispatcher.of].state = "LEASED"
                /\ delivery[dispatcher.of].tries = dispatcher.tries
             \/ delivery[dispatcher.of] = NoDelivery

(* What may be posted again has attempts left.                             *)
TriesLeft ==
    \A x \in Slots : delivery[x].state \in Waiting \cup {"LEASED"} =>
        delivery[x].tries < Len(RETRY_SECONDS)

(* The attempts counted in the row, and the restarts, account for the      *)
(* posts; but for the one under way.                                       *)
PostsCounted ==
    /\ \A x \in Slots :
          /\ delivery[x].state \in Waiting =>
                received[x] <= delivery[x].tries + restarts
          /\ delivery[x].state = "LEASED" =>
                received[x] <= delivery[x].tries + 1 + restarts
    /\ dispatcher.pc = "post" =>
          received[dispatcher.of] <= dispatcher.tries + restarts
    /\ dispatcher.pc = "answer" \/ dispatcher.outcome \in {"ok", "later"} =>
          received[dispatcher.of] > 0

DeliveryInv ==
    /\ TypeOK /\ Unwritten /\ InHand /\ TriesLeft /\ PostsCounted
    /\ SucceededMeansReceived /\ PostsBounded
(* An incident that is not there yet has no events and no reporters.       *)
Unheard ==
    \A i \in Incidents : incident[i] = NoIncident =>
        /\ \A e \in Events : event[e].incident # i
        /\ \A r \in Reporters : reporter[r].incident # i

(* OpenedOnce, without the numbers.                                        *)
Opened(e, i) == event[e] = [type |-> "incident.opened", incident |-> i]
Opening(r, i) == reporter[r] = [type |-> "incident.opened", incident |-> i]
OneOpening ==
    \A i \in Incidents :
        /\ \A e, f \in Events : Opened(e, i) /\ Opened(f, i) => e = f
        /\ \A r, s \in Reporters : Opening(r, i) /\ Opening(s, i) => r = s
        /\ \A e \in Events, r \in Reporters : ~(Opened(e, i) /\ Opening(r, i))

(* Events are inserted one after the other.                                *)
EventsInOrder ==
    \A e, f \in Events : event[f] # NoEvent /\ e < f => event[e] # NoEvent

(* Finitely many coroutines are between their two jobs, whatever set they  *)
(* are taken from.                                                         *)
ReportersFinite == IsFiniteSet(Emitting)

(* The state of the incident has been said last, or is about to be said.   *)
Says(i, types) ==
    \/ \E r \in Reporters : reporter[r].incident = i /\ reporter[r].type \in types
    \/ /\ \A r \in Reporters : reporter[r].incident # i
       /\ \E e \in About(i, types) : \A f \in About(i, IncidentTypes) : f <= e
LastWordComing ==
    restarts = 0 /\ ~crossed =>
        /\ \A r, s \in Emitting : r = s
        /\ \A i \in Incidents :
              /\ incident[i].state = "OPEN" =>
                    Says(i, {"incident.opened", "incident.updated"})
              /\ incident[i].state = "RESOLVED" => Says(i, {"incident.resolved"})

IncidentInv ==
    /\ TypeOK /\ Unheard /\ OneOpening /\ EventsInOrder /\ ReportersFinite
    /\ OccurrencesAnnounced /\ LastWordComing
-----------------------------------------------------------------------------
(* The rows of the four tables, named.                                     *)
IncidentRow == [kind : Kinds \cup {"none"}, count : Nat,
                state : {"ABSENT", "OPEN", "RESOLVED", "CLOSED"}]
Report      == [type : IncidentTypes \cup {"none"}, incident : Incidents \cup {0}]
EventRow    == [type : EventTypes \cup {"none"}, incident : Incidents \cup {0}]
DeliveryRow == [state : {"ABSENT", "LEASED", "SUCCEEDED", "FAILED"} \cup Waiting,
                tries : Nat, due : Nat]
Dispatcher  == [pc : {"off", "poll", "post", "answer", "finish"},
                of : Slots \cup {<<>>}, tries : Nat,
                outcome : {"none", "ok", "later", "error"}]

LEMMA RowTypes ==
    /\ NoIncident \in IncidentRow /\ Idle \in Report
    /\ NoEvent \in EventRow /\ NoDelivery \in DeliveryRow
BY DEF IncidentRow, Report, EventRow, DeliveryRow, NoIncident, Idle, NoEvent,
   NoDelivery

(* A job that counts an occurrence or changes the state of an incident     *)
(* leaves the rest of the row.                                             *)
LEMMA IncidentChange ==
    ASSUME NEW row \in IncidentRow
    PROVE  /\ [row EXCEPT !.count = row.count + 1] \in IncidentRow
           /\ \A s \in {"ABSENT", "OPEN", "RESOLVED", "CLOSED"} :
                 [row EXCEPT !.state = s] \in IncidentRow
BY DEF IncidentRow

(* emit() and test() write an event of a known type and rows that wait for *)
(* their first attempt.                                                    *)
LEMMA WriteType ==
    ASSUME TypeOK, NEW e \in Events, NEW type \in EventTypes \cup {"none"},
           NEW i \in Incidents \cup {0}, NEW targets, WriteEvent(e, type, i, targets)
    PROVE  event' \in [Events -> EventRow] /\ delivery' \in [Slots -> DeliveryRow]
<1>1. [type |-> type, incident |-> i] \in EventRow
  BY DEF EventRow
<1>2. [state |-> "PENDING", tries |-> 0, due |-> now] \in DeliveryRow
  BY DEF DeliveryRow, Waiting, TypeOK
<1>. QED
  BY <1>1, <1>2 DEF WriteEvent, TypeOK, EventRow, DeliveryRow

(* The delay after an attempt that is not the last is one of the table's,  *)
(* or one the provider asked for.                                          *)
LEMMA FinishedType ==
    ASSUME NEW tries \in Nat \ {0}, NEW outcome, now \in Nat
    PROVE  \A row \in Finished(tries, outcome) :
              /\ row \in DeliveryRow /\ row.tries = tries
              /\ row.state \notin {"ABSENT", "LEASED"}
              /\ row.state = "SUCCEEDED" => outcome = "ok"
              /\ row.state \in Waiting => tries < Len(RETRY_SECONDS)
<1>. SUFFICES ASSUME NEW row \in Finished(tries, outcome)
              PROVE  /\ row \in DeliveryRow /\ row.tries = tries
                     /\ row.state \notin {"ABSENT", "LEASED"}
                     /\ row.state = "SUCCEEDED" => outcome = "ok"
                     /\ row.state \in Waiting => tries < Len(RETRY_SECONDS)
  OBVIOUS
<1>1. Len(RETRY_SECONDS) \in Nat
  BY NotificationsAssumption
<1>2. CASE Succeeded(outcome)
  BY <1>2 DEF Finished, Succeeded, DeliveryRow, Waiting
<1>3. CASE ~Succeeded(outcome) /\ LastTry(tries)
  BY <1>3 DEF Finished, DeliveryRow, Waiting
<1>4. CASE ~Succeeded(outcome) /\ ~LastTry(tries)
  <2>1. tries < Len(RETRY_SECONDS)
    BY <1>1, <1>4 DEF LastTry
  <2>2. RETRY_SECONDS[tries] \in Nat
    BY <1>1, <2>1, NotificationsAssumption
  <2>3. PICK delay \in RetryDelays(tries, outcome) :
           row = [state |-> "RETRY_SCHEDULED", tries |-> tries, due |-> now + delay]
    BY <1>4 DEF Finished
  <2>4. delay \in Nat
    BY <2>2, <2>3, NotificationsAssumption DEF RetryDelays
  <2>. QED
    BY <2>1, <2>3, <2>4 DEF DeliveryRow, Waiting
<1>. QED
  BY <1>2, <1>3, <1>4

(* Every job and every await writes values of the right kind.              *)
LEMMA TypeStep ==
    ASSUME TypeOK, InHand, [Next]_vars
    PROVE  TypeOK'
<1>. USE DEF TypeOK
<1>i. \A i \in Incidents : incident[i] \in IncidentRow
  BY DEF IncidentRow
<1>1. ASSUME NEW r \in Reporters, NEW k \in Kinds,
             OpenIncident(r, k) \/ ResolveIncident(r, k)
      PROVE  TypeOK'
  <2>1. PICK i \in Incidents, type \in IncidentTypes :
           Notify(r, type, i) /\ incident' \in [Incidents -> IncidentRow]
    <3>1. CASE RepeatIncident(r, k)
      <4>1. PICK i \in Incidents :
               /\ incident' = [incident EXCEPT ![i].count = @ + 1]
               /\ Notify(r, "incident.updated", i)
        BY <3>1 DEF RepeatIncident, OpenOnes
      <4>2. [incident[i] EXCEPT !.count = incident[i].count + 1] \in IncidentRow
        BY <1>i, IncidentChange
      <4>3. incident' \in [Incidents -> IncidentRow] /\ "incident.updated" \in IncidentTypes
        BY <4>1, <4>2 DEF IncidentRow, IncidentTypes
      <4>. QED
        BY <4>1, <4>3
    <3>2. CASE InsertIncident(r, k)
      BY <3>2 DEF InsertIncident, IncidentTypes, IncidentRow
    <3>3. CASE ResolveIncident(r, k)
      <4>1. PICK i \in Incidents :
               /\ incident' = [incident EXCEPT ![i].state = "RESOLVED"]
               /\ Notify(r, "incident.resolved", i)
        BY <3>3 DEF ResolveIncident, OpenOnes
      <4>2. [incident[i] EXCEPT !.state = "RESOLVED"] \in IncidentRow
        BY <1>i, IncidentChange
      <4>3. incident' \in [Incidents -> IncidentRow] /\ "incident.resolved" \in IncidentTypes
        BY <4>1, <4>2 DEF IncidentRow, IncidentTypes
      <4>. QED
        BY <4>1, <4>3
    <3>. QED
      BY <1>1, <3>1, <3>2, <3>3 DEF OpenIncident
  <2>2. [type |-> type, incident |-> i] \in Report
    BY DEF Report
  <2>3. reporter' \in [Reporters -> Report] /\ crossed' \in BOOLEAN
    BY <2>1, <2>2 DEF Notify, Report
  <2>. QED
    BY <1>1, <2>1, <2>3 DEF OpenIncident, ResolveIncident, IncidentRow, Report
<1>2. ASSUME NEW r \in Reporters, Emit(r)
      PROVE  TypeOK'
  <2>1. /\ reporter[r].type \in EventTypes \cup {"none"}
        /\ reporter[r].incident \in Incidents \cup {0}
    BY DEF EventTypes
  <2>2. event' \in [Events -> EventRow] /\ delivery' \in [Slots -> DeliveryRow]
    BY <1>2, <2>1, WriteType DEF Emit
  <2>3. reporter' \in [Reporters -> Report]
    BY <1>2, RowTypes DEF Emit, Report
  <2>. QED
    BY <1>2, <2>2, <2>3 DEF Emit, EventRow, DeliveryRow, Report
<1>3. ASSUME NEW d \in Destinations, Test(d)
      PROVE  TypeOK'
  <2>1. event' \in [Events -> EventRow] /\ delivery' \in [Slots -> DeliveryRow]
    BY <1>3, WriteType DEF Test, EventTypes
  <2>. QED
    BY <1>3, <2>1 DEF Test, EventRow, DeliveryRow
<1>4. CASE CloseIncidents
  <2>1. ASSUME NEW i \in Incidents
        PROVE  [incident[i] EXCEPT !.state = AfterClose(incident[i].state)]
                 \in IncidentRow
    <3>1. incident[i].state \in {"ABSENT", "OPEN", "RESOLVED", "CLOSED"}
      OBVIOUS
    <3>2. AfterClose(incident[i].state) \in {"ABSENT", "OPEN", "RESOLVED", "CLOSED"}
      BY <3>1 DEF AfterClose
    <3>. QED
      BY <1>i, <3>2, IncidentChange
  <2>2. incident' = [i \in Incidents |->
           [incident[i] EXCEPT !.state = AfterClose(incident[i].state)]]
    BY <1>4 DEF CloseIncidents
  <2>3. incident' \in [Incidents -> IncidentRow]
    BY <2>1, <2>2
  <2>. QED
    BY <1>4, <2>3 DEF CloseIncidents, IncidentRow
<1>5. CASE Tick \/ \E d \in Destinations :
                      CreateDestination(d) \/ SetEnabled(d) \/ DeleteDestination(d)
  <2>1. CASE Tick
    BY <2>1 DEF Tick
  <2>2. ASSUME NEW d \in Destinations, CreateDestination(d) \/ SetEnabled(d)
        PROVE  TypeOK'
    BY <2>2 DEF CreateDestination, SetEnabled, SetDestination
  <2>3. ASSUME NEW d \in Destinations, DeleteDestination(d)
        PROVE  TypeOK'
    BY <2>3 DEF DeleteDestination, NoDelivery
  <2>. QED
    BY <1>5, <2>1, <2>2, <2>3
<1>6. CASE StartDispatcher \/ Claim
  <2>1. CASE StartDispatcher
    BY <2>1 DEF StartDispatcher, Step
  <2>2. CASE Claim
    BY <2>2 DEF Claim, Claimable
  <2>. QED
    BY <1>6, <2>1, <2>2
<1>7. CASE Post \/ Answer
  <2>1. dispatcher.of \in Slots
    BY <1>7 DEF Post, Answer, InHand, Busy
  <2>2. received' \in [Slots -> Nat]
    BY <1>7, <2>1 DEF Post, Answer
  <2>3. dispatcher' \in Dispatcher /\ stranded' \subseteq Slots
    <3>1. CASE Raise
      BY <2>1, <3>1 DEF Raise, Step, Dispatcher
    <3>2. ASSUME NEW o \in {"ok", "later", "error"}, Outcome(o)
          PROVE  dispatcher' \in Dispatcher /\ stranded' \subseteq Slots
      BY <3>2 DEF Outcome, Dispatcher
    <3>3. CASE dispatcher' = [dispatcher EXCEPT !.pc = "answer"] /\ UNCHANGED stranded
      BY <3>3 DEF Dispatcher
    <3>. QED
      BY <1>7, <3>1, <3>2, <3>3 DEF Post, Answer
  <2>. QED
    BY <1>7, <2>2, <2>3 DEF Post, Answer, Dispatcher
<1>8. CASE Finish
  <2>1. dispatcher.tries + 1 \in Nat \ {0} /\ dispatcher.of \in Slots
    BY <1>8 DEF Finish, InHand, Busy
  <2>2. delivery' \in [Slots -> DeliveryRow]
    <3>1. CASE UNCHANGED delivery
      BY <3>1 DEF DeliveryRow
    <3>2. ASSUME NEW row \in Finished(dispatcher.tries + 1, dispatcher.outcome),
                 delivery' = [delivery EXCEPT ![dispatcher.of] = row]
          PROVE  delivery' \in [Slots -> DeliveryRow]
      <4>1. row \in DeliveryRow
        BY <2>1, FinishedType
      <4>. QED
        BY <3>2, <4>1 DEF DeliveryRow
    <3>. QED
      BY <1>8, <3>1, <3>2 DEF Finish
  <2>. QED
    BY <1>8, <2>2 DEF Finish, Step, DeliveryRow
<1>9. CASE Restart
  <2>1. ASSUME NEW x \in Slots PROVE TakenBack(delivery[x]) \in DeliveryRow
    BY DEF TakenBack, DeliveryRow, Waiting
  <2>2. delivery' \in [Slots -> DeliveryRow] /\ reporter' \in [Reporters -> Report]
    BY <1>9, <2>1, RowTypes DEF Restart
  <2>. QED
    BY <1>9, <2>2 DEF Restart, Step, DeliveryRow, Report
<1>10. CASE UNCHANGED vars
  BY <1>10 DEF vars
<1>. QED
  BY <1>1, <1>2, <1>3, <1>4, <1>5, <1>6, <1>7, <1>8, <1>9, <1>10 DEF Next,
     DispatcherStep
-----------------------------------------------------------------------------
(* The coroutines that write an event find its number unused: nobody has   *)
(* deliveries of it in hand.                                               *)
LEMMA WriteKeeps ==
    ASSUME DeliveryInv, TypeOK', NEW e \in Events, NEW type, NEW i, NEW targets,
           WriteEvent(e, type, i, targets), [type |-> type, incident |-> i] # NoEvent,
           UNCHANGED <<dispatcher, received, restarts>>
    PROVE  DeliveryInv'
<1>1. /\ event[e] = NoEvent
      /\ \A f \in Events : f # e => event'[f] = event[f]
      /\ event'[e] # NoEvent
  BY DEF WriteEvent, NextEvent, DeliveryInv, TypeOK
<1>2. \A x \in Slots : /\ x[1] # e => delivery'[x] = delivery[x]
                       /\ x[1] = e => /\ delivery[x] = NoDelivery /\ received[x] = 0
                                      /\ delivery'[x].state \in {"ABSENT", "PENDING"}
                                      /\ delivery'[x].tries = 0
  BY <1>1 DEF WriteEvent, DeliveryInv, Unwritten, NoDelivery
<1>3. Unwritten'
  BY <1>1, <1>2 DEF DeliveryInv, Unwritten, Slots
<1>4. InHand'
  BY <1>1, <1>2 DEF DeliveryInv, InHand, Slots
<1>5. TriesLeft'
  <2>1. 0 < Len(RETRY_SECONDS)
    BY NotificationsAssumption
  <2>. QED
    BY <1>2, <2>1 DEF DeliveryInv, TriesLeft
<1>6. PostsCounted'
  <2>1. restarts \in Nat
    BY DEF DeliveryInv, TypeOK
  <2>. QED
    BY <1>2, <2>1 DEF DeliveryInv, PostsCounted
<1>7. SucceededMeansReceived' /\ PostsBounded'
  BY <1>2 DEF DeliveryInv, SucceededMeansReceived, PostsBounded
<1>. QED
  BY <1>3, <1>4, <1>5, <1>6, <1>7 DEF DeliveryInv

(* What does not touch the outbox keeps the invariant.                     *)
LEMMA OutboxFrame ==
    ASSUME DeliveryInv, TypeOK',
           UNCHANGED <<event, delivery, dispatcher, received, restarts>>
    PROVE  DeliveryInv'
BY DEF DeliveryInv, Unwritten, InHand, TriesLeft, PostsCounted,
   SucceededMeansReceived, PostsBounded

(* Each step of the dispatcher and of those who write, delete and take     *)
(* back its rows.                                                          *)
LEMMA DeliveryStep ==
    ASSUME DeliveryInv, [Next]_vars
    PROVE  DeliveryInv'
<1>. TypeOK'
  BY TypeStep DEF DeliveryInv
<1>l. Len(RETRY_SECONDS) \in Nat /\ 0 < Len(RETRY_SECONDS)
  BY NotificationsAssumption
<1>t. /\ delivery \in [Slots -> DeliveryRow] /\ received \in [Slots -> Nat]
      /\ dispatcher \in Dispatcher /\ restarts \in Nat
  BY DEF DeliveryInv, TypeOK, DeliveryRow, Dispatcher
<1>1. ASSUME \/ Tick \/ CloseIncidents \/ UNCHANGED vars
             \/ \E r \in Reporters, k \in Kinds :
                   OpenIncident(r, k) \/ ResolveIncident(r, k)
             \/ \E d \in Destinations : CreateDestination(d) \/ SetEnabled(d)
      PROVE  DeliveryInv'
  BY <1>1, OutboxFrame DEF Tick, CloseIncidents, OpenIncident, ResolveIncident,
     CreateDestination, SetEnabled, SetDestination, vars
<1>2. ASSUME NEW r \in Reporters, Emit(r)
      PROVE  DeliveryInv'
  <2>1. PICK e \in Events :
           WriteEvent(e, reporter[r].type, reporter[r].incident, Enabled)
    BY <1>2 DEF Emit
  <2>2. [type |-> reporter[r].type, incident |-> reporter[r].incident] # NoEvent
    BY <1>2 DEF Emit, NoEvent, Idle, DeliveryInv, TypeOK
  <2>. QED
    BY <1>2, <2>1, <2>2, WriteKeeps DEF Emit
<1>3. ASSUME NEW d \in Destinations, Test(d)
      PROVE  DeliveryInv'
  BY <1>3, WriteKeeps DEF Test, NoEvent
<1>4. ASSUME NEW d \in Destinations, DeleteDestination(d)
      PROVE  DeliveryInv'
  <2>1. \A x \in Slots : delivery'[x] \in {delivery[x], NoDelivery}
    BY <1>4 DEF DeleteDestination
  <2>2. UNCHANGED <<event, dispatcher, received, restarts>>
    BY <1>4 DEF DeleteDestination
  <2>3. Unwritten' /\ InHand'
    BY <2>1, <2>2 DEF DeliveryInv, Unwritten, InHand
  <2>4. TriesLeft' /\ PostsCounted'
    BY <2>1, <2>2 DEF DeliveryInv, TriesLeft, PostsCounted, NoDelivery, Waiting
  <2>5. SucceededMeansReceived' /\ PostsBounded'
    BY <2>1, <2>2 DEF DeliveryInv, SucceededMeansReceived, PostsBounded, NoDelivery
  <2>. QED
    BY <2>3, <2>4, <2>5 DEF DeliveryInv
<1>5. CASE StartDispatcher
  <2>1. /\ dispatcher' = Step("poll")
        /\ UNCHANGED <<event, delivery, received, restarts>>
    BY <1>5 DEF StartDispatcher
  <2>2. InHand' /\ Unwritten' /\ TriesLeft'
    BY <2>1 DEF DeliveryInv, InHand, Busy, Unwritten, TriesLeft, Step
  <2>3. PostsCounted' /\ SucceededMeansReceived' /\ PostsBounded'
    BY <2>1 DEF DeliveryInv, PostsCounted, SucceededMeansReceived,
       PostsBounded, Step
  <2>. QED
    BY <2>2, <2>3 DEF DeliveryInv
<1>6. CASE Claim
  <2>1. PICK x \in Slots :
           /\ delivery[x].state \in Waiting
           /\ delivery' = [delivery EXCEPT ![x].state = "LEASED"]
           /\ dispatcher' = [pc |-> "post", of |-> x, tries |-> delivery[x].tries,
                             outcome |-> "none"]
    BY <1>6 DEF Claim, Claimable, Due
  <2>2. UNCHANGED <<event, received, restarts>>
    BY <1>6 DEF Claim
  <2>3. /\ delivery'[x].state = "LEASED" /\ delivery'[x].tries = delivery[x].tries
        /\ \A y \in Slots \ {x} : delivery'[y] = delivery[y]
    BY <2>1, <1>t DEF DeliveryRow
  <2>4. event[x[1]] # NoEvent /\ delivery[x].tries < Len(RETRY_SECONDS)
    BY <2>1 DEF DeliveryInv, Unwritten, NoDelivery, Waiting, TriesLeft
  <2>5. Unwritten' /\ InHand' /\ TriesLeft'
    BY <2>1, <2>2, <2>3, <2>4 DEF DeliveryInv, Unwritten, InHand, Busy, TriesLeft
  <2>6. PostsCounted'
    <3>1. received[x] <= delivery[x].tries + restarts
      BY <2>1 DEF DeliveryInv, PostsCounted
    <3>2. received[x] \in Nat /\ delivery[x].tries \in Nat
      BY <1>t DEF DeliveryRow
    <3>. QED
      BY <2>1, <2>2, <2>3, <3>1, <3>2, <1>t DEF DeliveryInv, PostsCounted, Waiting
  <2>7. SucceededMeansReceived' /\ PostsBounded'
    BY <2>2, <2>3 DEF DeliveryInv, SucceededMeansReceived, PostsBounded
  <2>. QED
    BY <2>5, <2>6, <2>7 DEF DeliveryInv
<1>7. CASE Post \/ Answer
  <2>1. /\ UNCHANGED <<event, delivery, restarts>>
        /\ dispatcher.of \in Slots /\ dispatcher.pc \in Busy
    BY <1>7 DEF Post, Answer, DeliveryInv, InHand, Busy
  <2>2. \/ dispatcher' = Step("poll")
        \/ /\ dispatcher'.pc \in Busy /\ dispatcher'.of = dispatcher.of
           /\ dispatcher'.tries = dispatcher.tries
    BY <1>7, <1>t DEF Post, Answer, Raise, Outcome, Busy, Dispatcher
  <2>3. \A x \in Slots : /\ received'[x] >= received[x]
                         /\ x # dispatcher.of => received'[x] = received[x]
    BY <1>7, <1>t DEF Post, Answer
  <2>4. Unwritten' /\ TriesLeft' /\ SucceededMeansReceived'
    <3>1. event[dispatcher.of[1]] # NoEvent
      BY <2>1 DEF DeliveryInv, InHand
    <3>2. Unwritten' /\ TriesLeft'
      BY <2>1, <2>3, <3>1 DEF DeliveryInv, Unwritten, TriesLeft
    <3>3. \A x \in Slots : received[x] \in Nat /\ received'[x] \in Nat
      BY <1>t DEF TypeOK
    <3>. QED
      BY <2>1, <2>3, <3>2, <3>3 DEF DeliveryInv, SucceededMeansReceived
  <2>5. InHand'
    BY <2>1, <2>2 DEF DeliveryInv, InHand, Busy, Step
  <2>6. PostsCounted' /\ PostsBounded'
    <3>. DEFINE y == dispatcher.of
    <3>1. /\ received[y] \in Nat /\ dispatcher.tries \in Nat
          /\ dispatcher.tries < Len(RETRY_SECONDS)
          /\ delivery[y].state \notin Waiting
          /\ delivery[y].state = "LEASED" => delivery[y].tries = dispatcher.tries
      BY <2>1, <1>t DEF DeliveryInv, InHand, Dispatcher, NoDelivery, Waiting
    <3>2. CASE /\ UNCHANGED received
               /\ \/ Raise \/ Outcome("error")
                  \/ /\ dispatcher.pc = "answer"
                     /\ Outcome("ok") \/ Outcome("later")
      <4>1. /\ dispatcher'.pc \in {"poll", "finish"}
            /\ \/ dispatcher'.outcome \in {"none", "error"}
               \/ dispatcher.pc = "answer" /\ dispatcher'.of = y
        <5>1. CASE Raise
          BY <5>1 DEF Raise, Step
        <5>2. ASSUME NEW o, Outcome(o)
              PROVE  /\ dispatcher'.pc = "finish" /\ dispatcher'.outcome = o
                     /\ dispatcher'.of = y
          BY <5>2, <1>t DEF Outcome, Dispatcher
        <5>. QED
          BY <3>2, <5>1, <5>2
      <4>. QED
        BY <2>1, <3>2, <4>1 DEF DeliveryInv, PostsCounted, PostsBounded
    <3>3. CASE /\ dispatcher.pc = "post"
               /\ received' = [received EXCEPT ![y] = @ + 1]
               /\ dispatcher' = [dispatcher EXCEPT !.pc = "answer"]
      <4>1. received[y] <= dispatcher.tries + restarts
        BY <3>3 DEF DeliveryInv, PostsCounted
      <4>2. /\ received'[y] = received[y] + 1
            /\ dispatcher'.of = y /\ dispatcher'.pc = "answer"
        BY <2>1, <3>3, <1>t DEF Dispatcher
      <4>3. /\ received'[y] > 0
            /\ received'[y] <= dispatcher.tries + 1 + restarts
            /\ received'[y] <= Len(RETRY_SECONDS) + restarts
        BY <3>1, <4>1, <4>2, <1>l, <1>t
      <4>. QED
        BY <2>1, <2>3, <3>1, <4>2, <4>3 DEF DeliveryInv, PostsCounted, PostsBounded
    <3>. QED
      BY <1>7, <3>2, <3>3 DEF Post, Answer
  <2>. QED
    BY <2>4, <2>5, <2>6 DEF DeliveryInv
<1>8. CASE Finish
  <2>. DEFINE y == dispatcher.of
  <2>1. /\ UNCHANGED <<event, received, restarts>> /\ dispatcher' = Step("poll")
        /\ y \in Slots /\ dispatcher.tries \in Nat
        /\ dispatcher.tries < Len(RETRY_SECONDS) /\ event[y[1]] # NoEvent
    BY <1>8, <1>t DEF Finish, DeliveryInv, InHand, Busy, Dispatcher
  <2>2. InHand'
    BY <2>1 DEF InHand, Busy, Step
  <2>3. CASE UNCHANGED delivery
    BY <2>1, <2>2, <2>3 DEF DeliveryInv, Unwritten, TriesLeft, PostsCounted,
       SucceededMeansReceived, PostsBounded, Step
  <2>4. ASSUME NEW row \in Finished(dispatcher.tries + 1, dispatcher.outcome),
               delivery[y] # NoDelivery,
               delivery' = [delivery EXCEPT ![y] = row]
        PROVE  DeliveryInv'
    <3>1. /\ row.tries = dispatcher.tries + 1 /\ row.state \notin {"ABSENT", "LEASED"}
          /\ row.state = "SUCCEEDED" => dispatcher.outcome = "ok"
          /\ row.state \in Waiting => row.tries < Len(RETRY_SECONDS)
      BY <2>1, FinishedType DEF DeliveryInv, TypeOK
    <3>2. delivery'[y] = row /\ \A x \in Slots \ {y} : delivery'[x] = delivery[x]
      BY <2>1, <2>4, <1>t
    <3>3. Unwritten' /\ TriesLeft'
      BY <2>1, <3>1, <3>2 DEF DeliveryInv, Unwritten, TriesLeft
    <3>4. delivery[y].state = "LEASED" /\ delivery[y].tries = dispatcher.tries
      BY <1>8, <2>4 DEF Finish, DeliveryInv, InHand, Busy
    <3>5. received[y] <= row.tries + restarts
      BY <3>1, <3>4, <2>1 DEF DeliveryInv, PostsCounted
    <3>6. PostsCounted'
      BY <2>1, <3>1, <3>2, <3>5 DEF DeliveryInv, PostsCounted, Step
    <3>7. SucceededMeansReceived' /\ PostsBounded'
      BY <2>1, <3>1, <3>2 DEF DeliveryInv, PostsCounted, PostsBounded,
         SucceededMeansReceived
    <3>. QED
      BY <2>2, <3>3, <3>6, <3>7 DEF DeliveryInv
  <2>. QED
    BY <1>8, <2>3, <2>4 DEF Finish
<1>9. CASE Restart
  <2>1. /\ UNCHANGED <<event, received>> /\ dispatcher' = Step("off")
        /\ restarts' = restarts + 1
    BY <1>9 DEF Restart
  <2>2. ASSUME NEW x \in Slots
        PROVE  /\ delivery'[x].tries = delivery[x].tries
               /\ delivery[x].state = "LEASED" => delivery'[x].state \in Waiting
               /\ delivery[x].state # "LEASED" => delivery'[x] = delivery[x]
    BY <1>9, <1>t DEF Restart, TakenBack, Waiting, DeliveryRow
  <2>3. InHand' /\ Unwritten' /\ TriesLeft'
    BY <2>1, <2>2 DEF DeliveryInv, InHand, Busy, Unwritten, TriesLeft, Step,
       NoDelivery
  <2>4. ASSUME NEW x \in Slots
        PROVE  /\ received[x] \in Nat /\ delivery[x].tries \in Nat
               /\ delivery'[x].state # "LEASED"
               /\ delivery'[x].state \in Waiting =>
                     received[x] <= delivery[x].tries + 1 + restarts
    BY <2>2, <1>t DEF DeliveryInv, PostsCounted, DeliveryRow, Waiting
  <2>5. PostsCounted'
    BY <2>1, <2>2, <2>4, <1>t DEF PostsCounted, Step
  <2>6. SucceededMeansReceived' /\ PostsBounded'
    BY <2>1, <2>2, <2>4, <1>t, <1>l DEF DeliveryInv, SucceededMeansReceived,
       PostsBounded, Waiting
  <2>. QED
    BY <2>3, <2>5, <2>6 DEF DeliveryInv
<1>. QED
  BY <1>1, <1>2, <1>3, <1>4, <1>5, <1>6, <1>7, <1>8, <1>9 DEF Next, DispatcherStep
-----------------------------------------------------------------------------
Occurrence == {"incident.opened", "incident.updated"}

(* The events about an incident and the coroutines that are to write one   *)
(* can be counted.                                                         *)
LEMMA Countable ==
    ASSUME IncidentInv, NEW i \in Incidents, NEW types
    PROVE  /\ IsFiniteSet(About(i, types)) /\ IsFiniteSet(Pending(i, types))
           /\ Cardinality(About(i, types)) \in Nat
           /\ Cardinality(Pending(i, types)) \in Nat
<1>1. IsFiniteSet(Events)
  BY FS_Interval, NotificationsAssumption DEF Events
<1>2. About(i, types) \subseteq Events
  BY DEF About
<1>3. Pending(i, types) \subseteq Emitting
  <2>1. i # 0
    BY DEF Incidents
  <2>. QED
    BY <2>1 DEF Pending, Emitting, Idle
<1>4. IsFiniteSet(About(i, types)) /\ IsFiniteSet(Pending(i, types))
  BY <1>1, <1>2, <1>3, FS_Subset DEF IncidentInv, ReportersFinite
<1>. QED
  BY <1>4, FS_CardinalityType

(* The incident job, for all three reports: it changes one row and sends   *)
(* one coroutine, that had nothing to say, on its way with the event.      *)
LEMMA NotifyKeeps ==
    ASSUME IncidentInv, TypeOK',
           NEW r \in Reporters, NEW i \in Incidents, NEW type \in IncidentTypes,
           reporter[r] = Idle, Notify(r, type, i), UNCHANGED <<event, restarts>>,
           \A j \in Incidents \ {i} : incident'[j] = incident[j],
           incident'[i] # NoIncident,
           type = "incident.opened" => incident[i] = NoIncident,
           type \in Occurrence => /\ incident'[i].state = "OPEN"
                                  /\ incident'[i].count = incident[i].count + 1,
           type = "incident.resolved" => /\ incident'[i].state = "RESOLVED"
                                         /\ incident'[i].count = incident[i].count
    PROVE  IncidentInv'
<1>0. /\ reporter' = [reporter EXCEPT ![r] = [type |-> type, incident |-> i]]
      /\ crossed' = (crossed \/ Emitting # {})
      /\ reporter \in [Reporters -> Report] /\ 0 \notin Incidents
  BY DEF Notify, IncidentInv, TypeOK, Report, Incidents
<1>1. /\ reporter'[r].type = type /\ reporter'[r].incident = i
      /\ \A s \in Reporters \ {r} : reporter'[s] = reporter[s]
      /\ reporter[r].incident = 0 /\ reporter[r].type = "none"
  BY <1>0 DEF Idle
<1>2. Unheard'
  BY <1>1 DEF IncidentInv, Unheard
<1>3. OneOpening'
  BY <1>0, <1>1 DEF IncidentInv, OneOpening, Unheard, Opened, Opening
<1>4. EventsInOrder'
  BY DEF IncidentInv, EventsInOrder
<1>5. ReportersFinite'
  <2>1. Emitting' \subseteq Emitting \cup {r}
    BY <1>1 DEF Emitting
  <2>. QED
    BY <2>1, FS_AddElement, FS_Subset DEF IncidentInv, ReportersFinite
<1>6. OccurrencesAnnounced'
  <2>. SUFFICES ASSUME restarts = 0, NEW j \in Incidents
                PROVE  incident'[j].count = Cardinality(About(j, Occurrence)')
                                              + Cardinality(Pending(j, Occurrence)')
    BY DEF OccurrencesAnnounced, Occurrence
  <2>1. About(j, Occurrence)' = About(j, Occurrence)
    BY DEF About
  <2>2. incident[j].count = Cardinality(About(j, Occurrence))
                              + Cardinality(Pending(j, Occurrence))
    BY DEF IncidentInv, OccurrencesAnnounced, Occurrence
  <2>3. CASE j = i /\ type \in Occurrence
    <3>1. Pending(j, Occurrence)' = Pending(j, Occurrence) \cup {r}
      BY <1>1, <2>3 DEF Pending
    <3>2. r \notin Pending(j, Occurrence)
      BY <1>0, <1>1 DEF Pending
    <3>3. Cardinality(Pending(j, Occurrence)') = Cardinality(Pending(j, Occurrence)) + 1
      BY <3>1, <3>2, Countable, FS_AddElement
    <3>. QED
      BY <2>1, <2>2, <2>3, <3>3, Countable
  <2>4. CASE j # i \/ type \notin Occurrence
    <3>1. Pending(j, Occurrence)' = Pending(j, Occurrence)
      BY <1>0, <1>1, <2>4 DEF Pending
    <3>2. incident'[j].count = incident[j].count
      BY <2>4 DEF IncidentTypes, Occurrence
    <3>. QED
      BY <2>1, <2>2, <3>1, <3>2
  <2>. QED
    BY <2>3, <2>4
<1>7. LastWordComing'
  <2>. SUFFICES ASSUME restarts = 0, ~crossed'
                PROVE  /\ \A s, q \in Emitting' : s = q
                       /\ \A j \in Incidents :
                             /\ incident'[j].state = "OPEN" => Says(j, Occurrence)'
                             /\ incident'[j].state = "RESOLVED" =>
                                   Says(j, {"incident.resolved"})'
    BY DEF LastWordComing, Occurrence
  <2>1. Emitting = {} /\ ~crossed
    BY <1>0
  <2>2. \A s, q \in Emitting' : s = q
    BY <1>1, <2>1 DEF Emitting
  <2>3. /\ incident'[i].state = "OPEN" => Says(i, Occurrence)'
        /\ incident'[i].state = "RESOLVED" => Says(i, {"incident.resolved"})'
    BY <1>1 DEF Says, IncidentTypes, Occurrence
  <2>4. ASSUME NEW j \in Incidents \ {i}, NEW types, Says(j, types)
        PROVE  Says(j, types)'
    BY <1>0, <1>1, <2>4 DEF Says, About
  <2>5. \A j \in Incidents :
           /\ incident[j].state = "OPEN" => Says(j, Occurrence)
           /\ incident[j].state = "RESOLVED" => Says(j, {"incident.resolved"})
    BY <2>1 DEF IncidentInv, LastWordComing, Occurrence
  <2>. QED
    BY <2>2, <2>3, <2>4, <2>5
<1>. QED
  BY <1>2, <1>3, <1>4, <1>5, <1>6, <1>7 DEF IncidentInv

(* The event job: the coroutine's event becomes the last one about its     *)
(* incident.                                                               *)
LEMMA EmitKeeps ==
    ASSUME IncidentInv, TypeOK', NEW r \in Reporters, Emit(r)
    PROVE  IncidentInv'
<1>. DEFINE i == reporter[r].incident
<1>0. PICK e \in Events :
         /\ NextEvent(e) /\ event' = [event EXCEPT ![e] = [type |-> reporter[r].type,
                                                           incident |-> i]]
  BY DEF Emit, WriteEvent
<1>t. /\ reporter \in [Reporters -> Report] /\ event \in [Events -> EventRow]
      /\ 0 \notin Incidents /\ Events \subseteq Nat
  BY DEF IncidentInv, TypeOK, Report, EventRow, Incidents, Events
<1>1. /\ event[e] = NoEvent /\ event'[e] = reporter[r] /\ event'[e] # NoEvent
      /\ \A f \in Events \ {e} : event'[f] = event[f]
      /\ \A f \in Events : f < e => event[f] # NoEvent
      /\ \A f \in Events : e < f => event[f] = NoEvent
  BY <1>0, <1>t DEF NextEvent, Emit, NoEvent, Idle, Report, Events, IncidentInv,
     EventsInOrder
<1>2. /\ reporter'[r] = Idle /\ \A s \in Reporters \ {r} : reporter'[s] = reporter[s]
      /\ UNCHANGED <<incident, crossed, restarts>>
  BY <1>t DEF Emit
<1>3. Unheard'
  BY <1>1, <1>2, <1>t DEF IncidentInv, Unheard, Idle
<1>4. OneOpening'
  BY <1>1, <1>2 DEF IncidentInv, OneOpening, Opened, Opening, NoEvent, Idle
<1>5. EventsInOrder'
  BY <1>1, <1>t DEF IncidentInv, EventsInOrder
<1>6. ReportersFinite'
  <2>1. Emitting' \subseteq Emitting
    BY <1>2 DEF Emitting
  <2>. QED
    BY <2>1, FS_Subset DEF IncidentInv, ReportersFinite
<1>7. OccurrencesAnnounced'
  <2>. SUFFICES ASSUME restarts = 0, NEW j \in Incidents
                PROVE  incident'[j].count = Cardinality(About(j, Occurrence)')
                                              + Cardinality(Pending(j, Occurrence)')
    BY <1>2 DEF OccurrencesAnnounced, Occurrence
  <2>1. /\ incident'[j].count = Cardinality(About(j, Occurrence))
                                  + Cardinality(Pending(j, Occurrence))
        /\ Cardinality(About(j, Occurrence)) \in Nat
        /\ Cardinality(Pending(j, Occurrence)) \in Nat
    BY <1>2, Countable DEF IncidentInv, OccurrencesAnnounced, Occurrence
  <2>2. CASE r \in Pending(j, Occurrence)
    <3>1. Pending(j, Occurrence)' = Pending(j, Occurrence) \ {r}
      BY <1>2, <1>t DEF Pending, Idle
    <3>2. About(j, Occurrence)' = About(j, Occurrence) \cup {e}
      BY <1>1, <2>2 DEF About, Pending
    <3>3. e \notin About(j, Occurrence)
      BY <1>1 DEF About, NoEvent, Occurrence
    <3>4. /\ Cardinality(Pending(j, Occurrence)') = Cardinality(Pending(j, Occurrence)) - 1
          /\ Cardinality(About(j, Occurrence)') = Cardinality(About(j, Occurrence)) + 1
      <4>1. /\ IsFiniteSet(About(j, Occurrence))
            /\ IsFiniteSet(Pending(j, Occurrence))
        BY Countable
      <4>2. Cardinality(Pending(j, Occurrence) \ {r})
              = Cardinality(Pending(j, Occurrence)) - 1
        BY <2>2, <4>1, FS_RemoveElement
      <4>3. Cardinality(About(j, Occurrence) \cup {e})
              = Cardinality(About(j, Occurrence)) + 1
        BY <3>3, <4>1, FS_AddElement
      <4>. QED
        BY <3>1, <3>2, <4>2, <4>3
    <3>. QED
      BY <2>1, <3>4
  <2>3. CASE r \notin Pending(j, Occurrence)
    <3>1. Pending(j, Occurrence)' = Pending(j, Occurrence)
      BY <1>2, <1>t, <2>3 DEF Pending, Idle
    <3>2. About(j, Occurrence)' = About(j, Occurrence)
      BY <1>1, <2>3 DEF About, Pending, NoEvent, Occurrence
    <3>. QED
      BY <2>1, <3>1, <3>2
  <2>. QED
    BY <2>2, <2>3
<1>8. LastWordComing'
  <2>. SUFFICES ASSUME restarts = 0, ~crossed
                PROVE  /\ \A s, q \in Emitting' : s = q
                       /\ \A j \in Incidents :
                             /\ incident[j].state = "OPEN" => Says(j, Occurrence)'
                             /\ incident[j].state = "RESOLVED" =>
                                   Says(j, {"incident.resolved"})'
    BY <1>2 DEF LastWordComing, Occurrence
  <2>1. /\ \A s, q \in Emitting : s = q
        /\ \A j \in Incidents :
              /\ incident[j].state = "OPEN" => Says(j, Occurrence)
              /\ incident[j].state = "RESOLVED" => Says(j, {"incident.resolved"})
    BY DEF IncidentInv, LastWordComing, Occurrence
  <2>2. \A s \in Reporters : reporter'[s] = Idle
    BY <1>2, <2>1 DEF Emit, Emitting
  <2>3. ASSUME NEW j \in Incidents, NEW types \in SUBSET IncidentTypes, Says(j, types)
        PROVE  Says(j, types)'
    <3>1. \A s \in Reporters : reporter'[s].incident # j
      BY <2>2, <1>t DEF Idle
    <3>2. CASE j = i
      <4>1. reporter[r].type \in types
        <5>1. PICK s \in Reporters : reporter[s].incident = j /\ reporter[s].type \in types
          BY <2>3, <3>2 DEF Says
        <5>2. s = r
          BY <5>1, <2>1, <1>t DEF Emitting, Emit, Idle
        <5>. QED
          BY <5>1, <5>2
      <4>2. e \in About(j, types)'
        BY <1>1, <3>2, <4>1 DEF About
      <4>3. \A f \in About(j, IncidentTypes)' : f <= e
        BY <1>1, <1>t DEF About, NoEvent, IncidentTypes
      <4>. QED
        BY <3>1, <4>2, <4>3 DEF Says
    <3>3. CASE j # i
      <4>1. \A s \in Reporters : reporter[s].incident = j => s # r
        BY <3>3
      <4>2. \A s \in Reporters : reporter[s].incident # j
        BY <4>1, <2>1, <1>t DEF Emitting, Emit, Idle
      <4>3. PICK f \in About(j, types) : \A g \in About(j, IncidentTypes) : g <= f
        BY <2>3, <4>2 DEF Says
      <4>4. /\ About(j, types)' = About(j, types)
            /\ About(j, IncidentTypes)' = About(j, IncidentTypes)
        <5>1. event[e].incident # j /\ event'[e].incident # j
          BY <1>1, <1>t, <3>3 DEF NoEvent
        <5>2. \A g \in Events \ {e} : event'[g] = event[g]
          BY <1>1
        <5>. QED
          BY <5>1, <5>2 DEF About
      <4>. QED
        BY <3>1, <4>3, <4>4 DEF Says
    <3>. QED
      BY <3>2, <3>3
  <2>4. \A s, q \in Emitting' : s = q
    BY <2>2 DEF Emitting
  <2>. QED
    BY <2>1, <2>3, <2>4 DEF Occurrence, IncidentTypes
<1>. QED
  BY <1>3, <1>4, <1>5, <1>6, <1>7, <1>8 DEF IncidentInv

(* What leaves incidents, coroutines and events alone.                     *)
LEMMA IncidentFrame ==
    ASSUME IncidentInv, TypeOK',
           UNCHANGED <<incident, reporter, event, restarts, crossed>>
    PROVE  IncidentInv'
<1>1. /\ Emitting' = Emitting
      /\ \A i \in Incidents : \A types :
            /\ About(i, types)' = About(i, types)
            /\ Pending(i, types)' = Pending(i, types)
            /\ Says(i, types)' = Says(i, types)
  BY DEF Emitting, About, Pending, Says
<1>2. Unheard' /\ OneOpening' /\ EventsInOrder'
  BY DEF IncidentInv, Unheard, OneOpening, Opened, Opening, EventsInOrder
<1>3. ReportersFinite' /\ OccurrencesAnnounced' /\ LastWordComing'
  BY <1>1 DEF IncidentInv, ReportersFinite, OccurrencesAnnounced, LastWordComing
<1>. QED
  BY <1>2, <1>3 DEF IncidentInv

(* Deleting the account changes states, but makes no incident appear or    *)
(* open; a test announces nothing; a restart forgets the coroutines.       *)
LEMMA IncidentStep ==
    ASSUME IncidentInv, TypeOK', [Next]_vars
    PROVE  IncidentInv'
<1>t. /\ reporter \in [Reporters -> Report] /\ event \in [Events -> EventRow]
      /\ incident \in [Incidents -> IncidentRow]
      /\ 0 \notin Incidents /\ Events \subseteq Nat /\ restarts \in Nat
  BY SMTT(30) DEF IncidentInv, TypeOK, Report, EventRow, IncidentRow, Incidents, Events
<1>1. ASSUME NEW r \in Reporters, NEW k \in Kinds, OpenIncident(r, k)
      PROVE  IncidentInv'
  <2>1. ASSUME NEW i \in Incidents, IsOpen(i, k),
               incident' = [incident EXCEPT ![i].count = @ + 1],
               Notify(r, "incident.updated", i)
        PROVE  IncidentInv'
    <3>1. /\ incident'[i].state = "OPEN" /\ incident'[i].count = incident[i].count + 1
          /\ incident'[i] # NoIncident
          /\ \A j \in Incidents \ {i} : incident'[j] = incident[j]
      BY <2>1, <1>t DEF IsOpen, NoIncident, IncidentRow
    <3>. QED
      BY <1>1, <2>1, <3>1, NotifyKeeps DEF OpenIncident, IncidentTypes, Occurrence
  <2>2. ASSUME NEW i \in Incidents, incident[i] = NoIncident,
               incident' = [incident EXCEPT ![i] =
                               [kind |-> k, state |-> "OPEN", count |-> 1]],
               Notify(r, "incident.opened", i)
        PROVE  IncidentInv'
    <3>1. /\ incident'[i].state = "OPEN" /\ incident'[i].count = incident[i].count + 1
          /\ incident'[i] # NoIncident
          /\ \A j \in Incidents \ {i} : incident'[j] = incident[j]
      BY <2>2, <1>t DEF NoIncident
    <3>. QED
      BY <1>1, <2>2, <3>1, NotifyKeeps DEF OpenIncident, IncidentTypes, Occurrence
  <2>. QED
    BY <1>1, <2>1, <2>2 DEF OpenIncident, RepeatIncident, InsertIncident,
       OpenOnes, NextIncident
<1>2. ASSUME NEW r \in Reporters, NEW k \in Kinds, ResolveIncident(r, k)
      PROVE  IncidentInv'
  <2>1. PICK i \in Incidents :
           /\ IsOpen(i, k) /\ incident' = [incident EXCEPT ![i].state = "RESOLVED"]
           /\ Notify(r, "incident.resolved", i)
    BY <1>2 DEF ResolveIncident, OpenOnes
  <2>2. /\ incident'[i].state = "RESOLVED" /\ incident'[i].count = incident[i].count
        /\ incident'[i] # NoIncident
        /\ \A j \in Incidents \ {i} : incident'[j] = incident[j]
    BY <2>1, <1>t DEF NoIncident, IncidentRow
  <2>. QED
    BY <1>2, <2>1, <2>2, NotifyKeeps DEF ResolveIncident, IncidentTypes, Occurrence
<1>3. ASSUME NEW r \in Reporters, Emit(r)
      PROVE  IncidentInv'
  BY <1>3, EmitKeeps
<1>4. CASE CloseIncidents
  <2>1. UNCHANGED <<reporter, event, restarts, crossed>>
    BY <1>4 DEF CloseIncidents
  <2>2. ASSUME NEW i \in Incidents
        PROVE  /\ incident'[i].count = incident[i].count
               /\ incident'[i].state = AfterClose(incident[i].state)
               /\ incident'[i] = NoIncident => incident[i] = NoIncident
    <3>1. incident'[i] = [incident[i] EXCEPT !.state = AfterClose(incident[i].state)]
      BY <1>4 DEF CloseIncidents
    <3>2. incident[i] \in IncidentRow
      BY <1>t
    <3>. QED
      BY <3>1, <3>2 DEF IncidentRow, NoIncident, AfterClose
  <2>3. /\ Emitting' = Emitting
        /\ \A i \in Incidents : \A types :
              /\ About(i, types)' = About(i, types)
              /\ Pending(i, types)' = Pending(i, types)
              /\ Says(i, types)' = Says(i, types)
    BY <2>1 DEF Emitting, About, Pending, Says
  <2>4. Unheard' /\ OneOpening' /\ EventsInOrder' /\ ReportersFinite'
    BY <2>1, <2>2, <2>3 DEF IncidentInv, Unheard, OneOpening, Opened, Opening,
       EventsInOrder, ReportersFinite
  <2>5. OccurrencesAnnounced'
    BY <2>1, <2>2, <2>3 DEF IncidentInv, OccurrencesAnnounced
  <2>6. LastWordComing'
    BY <2>1, <2>2, <2>3 DEF IncidentInv, LastWordComing, AfterClose
  <2>. QED
    BY <2>4, <2>5, <2>6 DEF IncidentInv
<1>5. ASSUME NEW d \in Destinations, Test(d)
      PROVE  IncidentInv'
  <2>1. UNCHANGED <<incident, reporter, restarts, crossed>>
    BY <1>5 DEF Test
  <2>2. PICK e \in Events :
           /\ NextEvent(e) /\ event' = [event EXCEPT ![e] =
                                 [type |-> "windowkeeper.test", incident |-> 0]]
    BY <1>5 DEF Test, WriteEvent
  <2>3. /\ event[e] = NoEvent /\ event'[e] # NoEvent /\ event'[e].incident = 0
        /\ \A f \in Events \ {e} : event'[f] = event[f]
        /\ \A f \in Events : f < e => event[f] # NoEvent
        /\ \A f \in Events : e < f => event[f] = NoEvent
    BY <2>2, <1>t DEF NextEvent, NoEvent, Events, IncidentInv, EventsInOrder
  <2>4. \A f \in Events, i \in Incidents :
           /\ event'[f].incident = i <=> event[f].incident = i
           /\ event[f].incident = i => event'[f] = event[f]
    BY <2>3, <1>t DEF NoEvent
  <2>5. /\ Emitting' = Emitting
        /\ \A i \in Incidents : \A types :
              /\ About(i, types)' = About(i, types)
              /\ Pending(i, types)' = Pending(i, types)
    BY <2>1, <2>4 DEF Emitting, About, Pending
  <2>6. ASSUME NEW i \in Incidents, NEW types, Says(i, types)
        PROVE  Says(i, types)'
    BY <2>1, <2>5, <2>6 DEF Says
  <2>7. Unheard' /\ OneOpening' /\ ReportersFinite'
    BY <2>1, <2>4, <2>5 DEF IncidentInv, Unheard, OneOpening, Opened, Opening,
       ReportersFinite
  <2>8. EventsInOrder'
    BY <2>3, <1>t DEF IncidentInv, EventsInOrder
  <2>9. OccurrencesAnnounced' /\ LastWordComing'
    BY <2>1, <2>5, <2>6 DEF IncidentInv, OccurrencesAnnounced, LastWordComing
  <2>. QED
    BY <2>7, <2>8, <2>9 DEF IncidentInv
<1>6. CASE Restart
  <2>1. /\ reporter' = [r \in Reporters |-> Idle] /\ restarts' # 0
        /\ UNCHANGED <<incident, event, crossed>>
    BY <1>6, <1>t DEF Restart
  <2>2. Unheard' /\ OneOpening' /\ EventsInOrder'
    BY <2>1, <1>t DEF IncidentInv, Unheard, OneOpening, Opened, Opening,
       EventsInOrder, Idle
  <2>3. ReportersFinite'
    <3>1. Emitting' = {}
      BY <2>1 DEF Emitting
    <3>. QED
      BY <3>1, FS_EmptySet DEF ReportersFinite
  <2>4. OccurrencesAnnounced' /\ LastWordComing'
    BY <2>1 DEF OccurrencesAnnounced, LastWordComing
  <2>. QED
    BY <2>2, <2>3, <2>4 DEF IncidentInv
<1>7. ASSUME \/ Tick \/ DispatcherStep \/ UNCHANGED vars
             \/ \E d \in Destinations :
                   CreateDestination(d) \/ SetEnabled(d) \/ DeleteDestination(d)
      PROVE  IncidentInv'
  BY <1>7, IncidentFrame DEF Tick, DispatcherStep, StartDispatcher, Claim, Post,
     Answer, Finish, CreateDestination, SetEnabled, SetDestination,
     DeleteDestination, vars
<1>. QED
  BY <1>1, <1>2, <1>3, <1>4, <1>5, <1>6, <1>7 DEF Next
-----------------------------------------------------------------------------
(* The process starts with empty tables and the dispatcher off.            *)
LEMMA NotificationsInit ==
    ASSUME Init
    PROVE  DeliveryInv /\ IncidentInv
<1>1. TypeOK
  BY ZenonT(30), RowTypes DEF Init, TypeOK, IncidentRow, Report, EventRow, DeliveryRow, Step
<1>2. DeliveryInv
  BY <1>1, NotificationsAssumption DEF Init, DeliveryInv, Unwritten, InHand, Busy,
     TriesLeft, PostsCounted, SucceededMeansReceived, PostsBounded, NoDelivery,
     Waiting, Step
<1>3. /\ Emitting = {}
      /\ \A i \in Incidents : \A types : About(i, types) = {} /\ Pending(i, types) = {}
  BY DEF Init, Emitting, About, Pending, Idle, NoEvent, Incidents
<1>4. OccurrencesAnnounced /\ ReportersFinite
  BY SMTT(30), <1>3, FS_EmptySet DEF Init, OccurrencesAnnounced, ReportersFinite, NoIncident
<1>5. Unheard /\ OneOpening /\ EventsInOrder /\ LastWordComing
  BY <1>3 DEF Init, Unheard, OneOpening, Opened, Opening, EventsInOrder,
     LastWordComing, Idle, NoEvent, NoIncident, Incidents
<1>. QED
  BY <1>1, <1>2, <1>4, <1>5 DEF IncidentInv

(* The rows of the outbox, the lease in the dispatcher's hand and the      *)
(* posts stay related as DeliveryInv says.                                 *)
THEOREM Delivery == Spec => []DeliveryInv
BY NotificationsInit, DeliveryStep, PTL DEF Spec

(* Incidents, their events and the coroutines between stay related as      *)
(* IncidentInv says.                                                       *)
THEOREM Incident == Spec => []IncidentInv
<1>1. DeliveryInv /\ IncidentInv /\ [Next]_vars => IncidentInv'
  BY TypeStep, IncidentStep DEF DeliveryInv
<1>. QED
  BY <1>1, NotificationsInit, Delivery, PTL DEF Spec

(* Every column and coroutine keeps to its values.                         *)
THEOREM TypeCorrect == Spec => []TypeOK
<1>1. DeliveryInv => TypeOK
  BY DEF DeliveryInv
<1>. QED
  BY <1>1, Delivery, PTL

(* A delivery is recorded as SUCCEEDED only after a post arrived.          *)
THEOREM SuccessIsReceived == Spec => []SucceededMeansReceived
<1>1. DeliveryInv => SucceededMeansReceived
  BY DEF DeliveryInv
<1>. QED
  BY <1>1, Delivery, PTL

(* No destination is posted to more often than the retry table is long,    *)
(* and once more per restart.                                              *)
THEOREM PostsAreBounded == Spec => []PostsBounded
<1>1. DeliveryInv => PostsBounded
  BY DEF DeliveryInv
<1>. QED
  BY <1>1, Delivery, PTL

(* What was delivered or given up is never posted again, nor its row       *)
(* changed before it is deleted.                                           *)
THEOREM OutcomesKept == Spec => OutcomeKept
<1>. DEFINE Kept == \A x \in Slots :
                       delivery[x].state \in {"SUCCEEDED", "FAILED"} =>
                           /\ received'[x] = received[x]
                           /\ delivery'[x] \in {delivery[x], NoDelivery}
<1>1. ASSUME DeliveryInv, Next PROVE Kept
  <2>1. ASSUME UNCHANGED <<delivery, received>> PROVE Kept
    BY <2>1
  <2>2. ASSUME NEW e \in Events, NEW type, NEW i, NEW targets,
               WriteEvent(e, type, i, targets), UNCHANGED received
        PROVE  Kept
    BY <1>1, <2>2 DEF WriteEvent, NextEvent, DeliveryInv, Unwritten, NoDelivery
  <2>3. ASSUME NEW d \in Destinations, DeleteDestination(d) PROVE Kept
    BY <2>3 DEF DeleteDestination
  <2>4. CASE Claim
    BY <2>4, <1>1 DEF Claim, Claimable, Due, Waiting, DeliveryInv, TypeOK
  <2>5. CASE Post \/ Answer \/ Finish
    <3>1. /\ dispatcher.of \in Slots
          /\ delivery[dispatcher.of].state \notin {"SUCCEEDED", "FAILED"}
      BY <1>1, <2>5 DEF Post, Answer, Finish, DeliveryInv, InHand, Busy, NoDelivery
    <3>2. \A x \in Slots : x # dispatcher.of => /\ received'[x] = received[x]
                                                /\ delivery'[x] = delivery[x]
      BY <1>1, <2>5 DEF Post, Answer, Finish, DeliveryInv, TypeOK
    <3>. QED
      BY <3>1, <3>2
  <2>6. CASE Restart
    BY <2>6 DEF Restart, TakenBack
  <2>. QED
    BY <1>1, <2>1, <2>2, <2>3, <2>4, <2>5, <2>6 DEF Next, DispatcherStep, Tick,
       OpenIncident, ResolveIncident, Emit, CloseIncidents, Test,
       CreateDestination, SetEnabled, SetDestination, StartDispatcher
<1>2. DeliveryInv /\ [Next]_vars => [Kept]_vars
  BY <1>1
<1>. QED
  BY <1>2, Delivery, PTL DEF Spec, OutcomeKept

(* A lease is in the hand of the dispatcher, or its post raised what       *)
(* nobody catches: the one lease nobody will end before the next start.    *)
LeaseOwned ==
    \A x \in Slots : delivery[x].state = "LEASED" =>
        \/ dispatcher.pc \in Busy /\ dispatcher.of = x
        \/ x \in stranded

(* Such a row stays as it is, unless it is deleted.                        *)
StrandedLeft ==
    /\ \A x \in stranded : /\ event[x[1]] # NoEvent
                           /\ delivery[x].state \in {"LEASED", "ABSENT"}
    /\ dispatcher.pc \in Busy => dispatcher.of \notin stranded

LeaseInv == LeaseOwned /\ StrandedLeft

(* Only the claim makes a lease, and it takes it in hand; a post that      *)
(* raises lets go of it; _finish and the next start end it.                *)
LEMMA LeaseStep ==
    ASSUME DeliveryInv, LeaseInv, [Next]_vars
    PROVE  LeaseInv'
<1>t. /\ delivery \in [Slots -> DeliveryRow] /\ dispatcher \in Dispatcher
      /\ stranded \subseteq Slots
  BY DEF DeliveryInv, TypeOK, DeliveryRow, Dispatcher
<1>h. dispatcher.pc \in Busy =>
          /\ dispatcher.of \in Slots /\ event[dispatcher.of[1]] # NoEvent
          /\ delivery[dispatcher.of].state \in {"LEASED", "ABSENT"}
  BY DEF DeliveryInv, InHand, NoDelivery
<1>1. ASSUME UNCHANGED <<event, delivery, dispatcher, stranded>>
      PROVE  LeaseInv'
  BY <1>1 DEF LeaseInv, LeaseOwned, StrandedLeft
<1>2. ASSUME NEW e \in Events, NEW type, NEW i, NEW targets,
             WriteEvent(e, type, i, targets), [type |-> type, incident |-> i] # NoEvent,
             UNCHANGED <<dispatcher, stranded>>
      PROVE  LeaseInv'
  <2>1. \A x \in Slots : event[x[1]] # NoEvent =>
            event'[x[1]] # NoEvent /\ delivery'[x] = delivery[x]
    BY <1>2 DEF WriteEvent, NextEvent, Slots, DeliveryInv, TypeOK
  <2>2. \A x \in Slots : event[x[1]] = NoEvent => delivery'[x].state # "LEASED"
    BY <1>2 DEF WriteEvent, DeliveryInv, Unwritten, NoDelivery
  <2>. QED
    BY <1>2, <1>t, <2>1, <2>2 DEF LeaseInv, LeaseOwned, StrandedLeft
<1>3. ASSUME NEW r \in Reporters, Emit(r)
      PROVE  LeaseInv'
  <2>1. PICK e \in Events :
           WriteEvent(e, reporter[r].type, reporter[r].incident, Enabled)
    BY <1>3 DEF Emit
  <2>2. [type |-> reporter[r].type, incident |-> reporter[r].incident] # NoEvent
    BY <1>3 DEF Emit, NoEvent, Idle, DeliveryInv, TypeOK
  <2>. QED
    BY <1>2, <1>3, <2>1, <2>2 DEF Emit
<1>4. ASSUME NEW d \in Destinations, Test(d)
      PROVE  LeaseInv'
  BY <1>2, <1>4 DEF Test, NoEvent
<1>5. ASSUME NEW d \in Destinations, DeleteDestination(d)
      PROVE  LeaseInv'
  BY <1>5, <1>t DEF DeleteDestination, LeaseInv, LeaseOwned, StrandedLeft, NoDelivery
<1>6. CASE StartDispatcher
  BY <1>6 DEF StartDispatcher, LeaseInv, LeaseOwned, StrandedLeft, Step, Busy
<1>7. CASE Claim
  <2>1. PICK x \in Slots :
           /\ delivery[x].state \in Waiting
           /\ delivery' = [delivery EXCEPT ![x].state = "LEASED"]
           /\ dispatcher' = [pc |-> "post", of |-> x, tries |-> delivery[x].tries,
                             outcome |-> "none"]
    BY <1>7 DEF Claim, Claimable, Due
  <2>2. /\ UNCHANGED <<event, stranded>> /\ dispatcher.pc \notin Busy
        /\ \A y \in Slots \ {x} : delivery'[y] = delivery[y]
    BY <1>7, <2>1, <1>t DEF Claim, Busy
  <2>3. x \notin stranded
    BY <2>1 DEF LeaseInv, StrandedLeft, Waiting
  <2>. QED
    BY <1>t, <2>1, <2>2, <2>3 DEF LeaseInv, LeaseOwned, StrandedLeft, Busy
<1>8. CASE Post \/ Answer
  <2>1. UNCHANGED <<event, delivery>> /\ dispatcher.pc \in Busy
    BY <1>8 DEF Post, Answer, Busy
  <2>2. \/ /\ dispatcher'.pc \in Busy /\ dispatcher'.of = dispatcher.of
           /\ UNCHANGED stranded
        \/ Raise
    BY <1>8, <1>t DEF Post, Answer, Outcome, Busy, Dispatcher
  <2>. QED
    BY <1>h, <2>1, <2>2 DEF Raise, Step, Busy, LeaseInv, LeaseOwned, StrandedLeft
<1>9. CASE Finish
  <2>1. /\ UNCHANGED <<event, stranded>> /\ dispatcher.pc \in Busy
        /\ dispatcher' = Step("poll")
    BY <1>9 DEF Finish, Busy
  <2>2. /\ \A x \in Slots \ {dispatcher.of} : delivery'[x] = delivery[x]
        /\ delivery'[dispatcher.of].state # "LEASED"
    <3>1. CASE delivery[dispatcher.of] = NoDelivery
      BY <1>9, <3>1 DEF Finish, NoDelivery
    <3>2. CASE delivery[dispatcher.of] # NoDelivery
      <4>1. PICK row \in Finished(dispatcher.tries + 1, dispatcher.outcome) :
               delivery' = [delivery EXCEPT ![dispatcher.of] = row]
        BY <1>9, <3>2 DEF Finish
      <4>2. dispatcher.tries + 1 \in Nat \ {0} /\ now \in Nat
        BY <1>t DEF Dispatcher, DeliveryInv, TypeOK
      <4>3. row.state # "LEASED"
        BY <4>2, FinishedType
      <4>. QED
        BY <1>t, <1>h, <2>1, <4>1, <4>3
    <3>. QED
      BY <3>1, <3>2
  <2>. QED
    BY <1>t, <2>1, <2>2 DEF LeaseInv, LeaseOwned, StrandedLeft, Step, Busy
<1>10. CASE Restart
  <2>1. \A x \in Slots : delivery'[x].state # "LEASED"
    BY <1>10 DEF Restart, TakenBack
  <2>2. stranded' = {} /\ dispatcher' = Step("off")
    BY <1>10 DEF Restart
  <2>. QED
    BY <2>1, <2>2 DEF LeaseInv, LeaseOwned, StrandedLeft, Step, Busy
<1>. QED
  BY <1>1, <1>3, <1>4, <1>5, <1>6, <1>7, <1>8, <1>9, <1>10 DEF Next,
     DispatcherStep, Tick, OpenIncident, ResolveIncident, CloseIncidents,
     CreateDestination, SetEnabled, SetDestination, vars

(* Every lease has an owner who ends it, but for those whose post raised,  *)
(* which nothing but a deletion touches before the next start, and that    *)
(* leaves none: the safety side of LeaseEnds.                              *)
THEOREM LeasesOwned == Spec => []LeaseInv
<1>1. Init => LeaseInv
  BY DEF Init, LeaseInv, LeaseOwned, StrandedLeft, NoDelivery, Step, Busy
<1>. QED
  BY <1>1, LeaseStep, Delivery, PTL DEF Spec

(* However many coroutines report an incident at the same time, it is      *)
(* announced as opened once.                                               *)
THEOREM OpenedOnceOnly == Spec => []OpenedOnce
<1>1. IncidentInv => OpenedOnce
  <2>. SUFFICES ASSUME IncidentInv, NEW i \in Incidents
                PROVE  Cardinality(About(i, {"incident.opened"}))
                         + Cardinality(Pending(i, {"incident.opened"})) <= 1
    BY DEF OpenedOnce
  <2>. DEFINE A == About(i, {"incident.opened"})
              P == Pending(i, {"incident.opened"})
  <2>1. /\ \A e \in A : Opened(e, i) /\ e \in Events
        /\ \A r \in P : Opening(r, i) /\ r \in Reporters
    BY DEF IncidentInv, TypeOK, About, Pending, Opened, Opening
  <2>2. /\ \A e, f \in A : e = f
        /\ \A r, s \in P : r = s
        /\ A = {} \/ P = {}
    BY <2>1 DEF IncidentInv, OneOpening
  <2>3. (A = {} \/ \E e : A = {e}) /\ (P = {} \/ \E r : P = {r})
    BY <2>2
  <2>4. /\ Cardinality({}) = 0 /\ \A x : Cardinality({x}) = 1
    BY FS_EmptySet, FS_Singleton
  <2>5. Cardinality(A) \in {0, 1} /\ (A = {} => Cardinality(A) = 0)
    BY <2>3, <2>4
  <2>6. Cardinality(P) \in {0, 1} /\ (P = {} => Cardinality(P) = 0)
    BY <2>3, <2>4
  <2>. QED
    BY <2>2, <2>5, <2>6
<1>. QED
  BY <1>1, Incident, PTL

(* Every occurrence counted in the row of an incident has an event, or a   *)
(* coroutine that is to write it.                                          *)
THEOREM EveryOccurrence == Spec => []OccurrencesAnnounced
<1>1. IncidentInv => OccurrencesAnnounced
  BY DEF IncidentInv
<1>. QED
  BY <1>1, Incident, PTL

(* As long as reports do not cross, who reads the events in their order    *)
(* ends with what the row of the incident says.                            *)
THEOREM LastWordSpoken == Spec => []LastWordTrue
<1>1. IncidentInv => LastWordTrue
  <2>. SUFFICES ASSUME IncidentInv, restarts = 0, Emitting = {}, ~crossed,
                       NEW i \in Incidents
                PROVE  /\ incident[i].state = "OPEN" =>
                             event[LastWord(i)].type \in Occurrence
                       /\ incident[i].state = "RESOLVED" =>
                             event[LastWord(i)].type = "incident.resolved"
    BY DEF LastWordTrue, Occurrence
  <2>1. ASSUME NEW types \in SUBSET IncidentTypes, Says(i, types)
        PROVE  event[LastWord(i)].type \in types
    <3>1. ~ \E r \in Reporters : reporter[r].incident = i
      BY DEF Emitting, Idle, Incidents
    <3>2. PICK e \in About(i, types) : \A f \in About(i, IncidentTypes) : f <= e
      BY <2>1, <3>1 DEF Says
    <3>3. e \in About(i, IncidentTypes) /\ About(i, IncidentTypes) \subseteq Nat
      BY <3>2 DEF About, Events
    <3>4. \A f \in About(i, IncidentTypes) :
             (\A g \in About(i, IncidentTypes) : g <= f) => f = e
      BY <3>2, <3>3
    <3>5. LastWord(i) = e
      BY <3>2, <3>3, <3>4 DEF LastWord
    <3>. QED
      BY <3>2, <3>5 DEF About
  <2>2. /\ incident[i].state = "OPEN" => Says(i, Occurrence)
        /\ incident[i].state = "RESOLVED" => Says(i, {"incident.resolved"})
    BY DEF IncidentInv, LastWordComing, Occurrence
  <2>. QED
    BY <2>1, <2>2 DEF IncidentTypes, Occurrence
<1>. QED
  BY <1>1, Incident, PTL
=============================================================================
