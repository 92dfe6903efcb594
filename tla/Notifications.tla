--------------------------- MODULE Notifications ---------------------------
(***************************************************************************)
(* Incidents of one account and the durable webhook outbox behind them:    *)
(* open_incident and resolve_incident (services.py) change the incident    *)
(* row in one job and have the event written in another; emit() writes one *)
(* delivery per destination; the dispatcher claims what is due, posts it   *)
(* and records the outcome; startup takes back what was leased             *)
(* (webhooks.py).                                                          *)
(*                                                                         *)
(* Grain: one action per database job or awaited call.  Accounts have      *)
(* incidents of their own and share only the outbox.                       *)
(*                                                                         *)
(* Abstracted: bodies, signatures, severities, summaries; the checks on    *)
(* URLs, which only tell whether a post can be made; pruning of rows older *)
(* than 30 and 90 days.                                                    *)
(***************************************************************************)
EXTENDS Integers, Sequences, FiniteSets

CONSTANTS Kinds,         (* problem types                                  *)
          Reporters,     (* coroutines that may report at the same time    *)
          Destinations,  (* destination ids, used once each                *)
          RETRY_SECONDS, (* the delay after each attempt; its length is    *)
                         (* the number of attempts                         *)
          ProviderDelays,(* what a 429 may ask for                         *)
          MaxIncidents,  (* bound: rows in incidents                       *)
          MaxEvents,     (* bound: rows in webhook_events                  *)
          MaxNow,        (* bound: the clock                               *)
          MaxRestarts    (* bound: process restarts                        *)

ASSUME NotificationsAssumption ==
    /\ RETRY_SECONDS \in Seq(Nat \ {0}) /\ RETRY_SECONDS # <<>>
    /\ ProviderDelays \subseteq Nat \ {0}
    /\ MaxIncidents \in Nat \ {0} /\ MaxEvents \in Nat \ {0}
    /\ MaxNow \in Nat /\ MaxRestarts \in Nat

Incidents == 1 .. MaxIncidents
Events    == 1 .. MaxEvents             (* in order of insertion           *)
Slots     == Events \X Destinations     (* UNIQUE(event_id, destination_id)*)

VARIABLES
    now,
    incident,     (* incidents: problem_type, state, occurrence_count      *)
    deleted,      (* the account is                                        *)
    reporter,     (* a coroutine between the incident job and emit()'s     *)
    event,        (* webhook_events: event_type and incident_id            *)
    destination,  (* webhook_destinations: whether there, whether enabled  *)
    delivery,     (* webhook_deliveries: state, attempt_count, due time    *)
    dispatcher,   (* WebhookDispatcher._loop                               *)
    crossed,      (* ghost: two coroutines were between the jobs at a time *)
    stranded,     (* ghost: deliveries whose post raised uncaught          *)
    restarts,
    received      (* posts that reached the destination                    *)

vars == <<now, incident, deleted, reporter, event, destination, delivery,
          dispatcher, crossed, stranded, restarts, received>>
-----------------------------------------------------------------------------
IncidentTypes == {"incident.opened", "incident.updated", "incident.resolved"}
EventTypes    == IncidentTypes \cup {"windowkeeper.test"}

NoIncident == [kind |-> "none", state |-> "ABSENT", count |-> 0]
NoEvent    == [type |-> "none", incident |-> 0]
NoDelivery == [state |-> "ABSENT", tries |-> 0, due |-> 0]
Idle       == [type |-> "none", incident |-> 0]
Step(pc)   == [pc |-> pc, of |-> <<>>, tries |-> 0, outcome |-> "none"]

IsOpen(i, k) == incident[i].kind = k /\ incident[i].state = "OPEN"
OpenOnes(k) == {i \in Incidents : IsOpen(i, k)}

NextIncident(i) ==
    incident[i] = NoIncident /\ \A j \in 1 .. i - 1 : incident[j] # NoIncident
NextEvent(e) ==
    event[e] = NoEvent /\ \A f \in 1 .. e - 1 : event[f] # NoEvent

Emitting == {r \in Reporters : reporter[r] # Idle}
(* Bound: a report is made only where its event will find a row.           *)
RoomForEvent ==
    Cardinality({e \in Events : event[e] # NoEvent}) + Cardinality(Emitting) < MaxEvents

Init ==
    /\ now = 0
    /\ incident = [i \in Incidents |-> NoIncident]
    /\ deleted = FALSE
    /\ reporter = [r \in Reporters |-> Idle]
    /\ event = [e \in Events |-> NoEvent]
    /\ destination \in [Destinations -> {"new", "enabled"}]
    /\ delivery = [x \in Slots |-> NoDelivery]
    /\ dispatcher = Step("off") /\ crossed = FALSE /\ stranded = {}
    /\ restarts = 0
    /\ received = [x \in Slots |-> 0]

Tick ==
    /\ now < MaxNow
    /\ now' = now + 1
    /\ UNCHANGED <<incident, deleted, reporter, event, destination, delivery,
                   dispatcher, crossed, stranded, restarts, received>>
-----------------------------------------------------------------------------
(* The incident job.  Its event is written by a job of its own, later.     *)
Notify(r, type, i) ==
    /\ reporter' = [reporter EXCEPT ![r] = [type |-> type, incident |-> i]]
    /\ crossed' = (crossed \/ Emitting # {})

RepeatAsNew(r, k) ==         (* mutant: announced as opened again          *)
    \E i \in OpenOnes(k) :
        /\ incident' = [incident EXCEPT ![i].count = @ + 1]
        /\ Notify(r, "incident.opened", i)
RepeatIncident(r, k) ==
    \E i \in OpenOnes(k) :
        /\ incident' = [incident EXCEPT ![i].count = @ + 1]
        /\ Notify(r, "incident.updated", i)

InsertIncident(r, k) ==
    /\ OpenOnes(k) = {}
    /\ \E i \in Incidents :
          /\ NextIncident(i)
          /\ incident' = [incident EXCEPT ![i] =
                             [kind |-> k, state |-> "OPEN", count |-> 1]]
          /\ Notify(r, "incident.opened", i)

OpenIncident(r, k) ==
    /\ reporter[r] = Idle /\ RoomForEvent
    /\ RepeatIncident(r, k) \/ InsertIncident(r, k)
    /\ UNCHANGED <<now, deleted, event, destination, delivery, dispatcher,
                   stranded, restarts, received>>

ResolveIncident(r, k) ==
    /\ reporter[r] = Idle /\ RoomForEvent
    /\ \E i \in OpenOnes(k) :
          /\ incident' = [incident EXCEPT ![i].state = "RESOLVED"]
          /\ Notify(r, "incident.resolved", i)
    /\ UNCHANGED <<now, deleted, event, destination, delivery, dispatcher,
                   stranded, restarts, received>>

(* delete_account() closes the incidents and announces nothing.            *)
AfterCloseResolved(s) ==     (* mutant: as if recovered                    *)
    IF s = "OPEN" THEN "RESOLVED" ELSE s
AfterClose(s) == IF s = "OPEN" THEN "CLOSED" ELSE s

CloseIncidents ==
    /\ ~deleted
    /\ deleted' = TRUE
    /\ incident' = [i \in Incidents |-> [incident[i] EXCEPT !.state = AfterClose(@)]]
    /\ UNCHANGED <<now, reporter, event, destination, delivery, dispatcher,
                   crossed, stranded, restarts, received>>
-----------------------------------------------------------------------------
(* emit(): the event and one PENDING delivery per destination, one job.    *)
WriteEvent(e, type, i, targets) ==
    /\ NextEvent(e)
    /\ event' = [event EXCEPT ![e] = [type |-> type, incident |-> i]]
    /\ delivery' = [x \in Slots |->
                       IF x[1] = e /\ x[2] \in targets
                       THEN [state |-> "PENDING", tries |-> 0, due |-> now]
                       ELSE delivery[x]]

Enabled == {d \in Destinations : destination[d] = "enabled"}
Present == {d \in Destinations : destination[d] \in {"enabled", "disabled"}}

EmitKept(r) ==       (* mutant: the coroutine emits again                  *)
    /\ reporter[r] # Idle
    /\ \E e \in Events : WriteEvent(e, reporter[r].type, reporter[r].incident, Enabled)
    /\ UNCHANGED <<now, incident, deleted, reporter, destination, dispatcher,
                   crossed, stranded, restarts, received>>

Emit(r) ==
    /\ reporter[r] # Idle
    /\ \E e \in Events : WriteEvent(e, reporter[r].type, reporter[r].incident, Enabled)
    /\ reporter' = [reporter EXCEPT ![r] = Idle]
    /\ UNCHANGED <<now, incident, deleted, destination, dispatcher, crossed,
                   stranded, restarts, received>>

(* test(): to one destination, enabled or not.                             *)
Test(d) ==
    /\ d \in Present /\ RoomForEvent
    /\ \E e \in Events : WriteEvent(e, "windowkeeper.test", 0, {d})
    /\ UNCHANGED <<now, incident, deleted, reporter, destination, dispatcher,
                   crossed, stranded, restarts, received>>

SetDestination(d, from, to) ==
    /\ destination[d] = from
    /\ destination' = [destination EXCEPT ![d] = to]
    /\ UNCHANGED <<now, incident, deleted, reporter, event, delivery,
                   dispatcher, crossed, stranded, restarts, received>>

CreateDestination(d) == SetDestination(d, "new", "enabled")
SetEnabled(d) ==
    SetDestination(d, "enabled", "disabled") \/ SetDestination(d, "disabled", "enabled")

(* Its deliveries go with it (ON DELETE CASCADE).                          *)
DeleteDestination(d) ==
    /\ d \in Present
    /\ destination' = [destination EXCEPT ![d] = "deleted"]
    /\ delivery' = [x \in Slots |-> IF x[2] = d THEN NoDelivery ELSE delivery[x]]
    /\ UNCHANGED <<now, incident, deleted, reporter, event, dispatcher,
                   crossed, stranded, restarts, received>>
-----------------------------------------------------------------------------
(* The dispatcher, started once startup reconciliation is through.         *)
StartDispatcher ==
    /\ dispatcher.pc = "off"
    /\ dispatcher' = Step("poll")
    /\ UNCHANGED <<now, incident, deleted, reporter, event, destination,
                   delivery, crossed, stranded, restarts, received>>

Waiting == {"PENDING", "RETRY_SCHEDULED"}
Due(x, states) ==
    delivery[x].state \in states /\ delivery[x].due <= now /\ x[2] \in Enabled

ClaimableOnce == {x \in Slots : Due(x, {"PENDING"})}  (* mutant: no retries *)
Claimable == {x \in Slots : Due(x, Waiting)}

Claim ==
    /\ dispatcher.pc = "poll"
    /\ \E x \in Claimable :
          /\ \A y \in Claimable : delivery[x].due <= delivery[y].due
          /\ delivery' = [delivery EXCEPT ![x].state = "LEASED"]
          /\ dispatcher' = [pc |-> "post", of |-> x, tries |-> delivery[x].tries,
                            outcome |-> "none"]
    /\ UNCHANGED <<now, incident, deleted, reporter, event, destination,
                   crossed, stranded, restarts, received>>

(* An exception _deliver does not catch (httpx.RemoteProtocolError, a URL  *)
(* that cannot be decrypted): _loop sleeps and polls again, the row stays  *)
(* LEASED.                                                                 *)
Raise ==
    /\ dispatcher' = Step("poll")
    /\ stranded' = stranded \cup {dispatcher.of}
Outcome(o) ==
    /\ dispatcher' = [dispatcher EXCEPT !.pc = "finish", !.outcome = o]
    /\ UNCHANGED stranded

(* The post reaches the destination, or the connection is not made.        *)
Post ==
    /\ dispatcher.pc = "post"
    /\ \/ /\ received' = [received EXCEPT ![dispatcher.of] = @ + 1]
          /\ dispatcher' = [dispatcher EXCEPT !.pc = "answer"]
          /\ UNCHANGED stranded
       \/ (Outcome("error") \/ Raise) /\ UNCHANGED received
    /\ UNCHANGED <<now, incident, deleted, reporter, event, destination,
                   delivery, crossed, restarts>>

(* 2xx; 429 with a delay; any other answer, or none in time.               *)
Answer ==
    /\ dispatcher.pc = "answer"
    /\ Outcome("ok") \/ Outcome("later") \/ Outcome("error") \/ Raise
    /\ UNCHANGED <<now, incident, deleted, reporter, event, destination,
                   delivery, crossed, restarts, received>>

(* _finish(): conditional on the lease token, which matches as long as the *)
(* row is there: one dispatcher, one lease of it at a time.  A provider    *)
(* delay goes before the one of the table.                                 *)
SucceededUnlessRefused(outcome) == outcome # "later"  (* mutant            *)
Succeeded(outcome) == outcome = "ok"
LastTryLate(tries) == tries > Len(RETRY_SECONDS)      (* mutant            *)
LastTry(tries) == tries >= Len(RETRY_SECONDS)

RetryDelays(tries, outcome) ==
    {RETRY_SECONDS[tries]} \cup (IF outcome = "later" THEN ProviderDelays ELSE {})

Finished(tries, outcome) ==
    IF Succeeded(outcome)  THEN {[state |-> "SUCCEEDED", tries |-> tries, due |-> now]}
    ELSE IF LastTry(tries) THEN {[state |-> "FAILED", tries |-> tries, due |-> now]}
    ELSE {[state |-> "RETRY_SCHEDULED", tries |-> tries, due |-> now + delay] :
             delay \in RetryDelays(tries, outcome)}

Finish ==
    /\ dispatcher.pc = "finish"
    /\ IF delivery[dispatcher.of] = NoDelivery
       THEN UNCHANGED delivery
       ELSE \E row \in Finished(dispatcher.tries + 1, dispatcher.outcome) :
               delivery' = [delivery EXCEPT ![dispatcher.of] = row]
    /\ dispatcher' = Step("poll")
    /\ UNCHANGED <<now, incident, deleted, reporter, event, destination,
                   crossed, stranded, restarts, received>>
-----------------------------------------------------------------------------
(* The process ends, by a crash or by a shutdown that cancels every        *)
(* coroutine; the next one takes the leased deliveries back at startup.    *)
TakenBackNever(row) == row   (* mutant: left to the lease                  *)
TakenBackAll(row) ==         (* mutant: not only the leased ones           *)
    IF row # NoDelivery
    THEN [state |-> "RETRY_SCHEDULED", tries |-> row.tries, due |-> now] ELSE row
TakenBack(row) ==
    IF row.state = "LEASED"
    THEN [state |-> "RETRY_SCHEDULED", tries |-> row.tries, due |-> now] ELSE row

Restart ==
    /\ restarts < MaxRestarts
    /\ restarts' = restarts + 1
    /\ reporter' = [r \in Reporters |-> Idle]
    /\ dispatcher' = Step("off") /\ stranded' = {}
    /\ delivery' = [x \in Slots |-> TakenBack(delivery[x])]
    /\ UNCHANGED <<now, incident, deleted, event, destination, crossed,
                   received>>

DispatcherStep == StartDispatcher \/ Claim \/ Post \/ Answer \/ Finish

Next ==
    \/ Tick
    \/ \E r \in Reporters, k \in Kinds : OpenIncident(r, k) \/ ResolveIncident(r, k)
    \/ \E r \in Reporters : Emit(r)
    \/ CloseIncidents
    \/ \E d \in Destinations :
          Test(d) \/ CreateDestination(d) \/ SetEnabled(d) \/ DeleteDestination(d)
    \/ DispatcherStep
    \/ Restart

Spec == Init /\ [][Next]_vars

(* The loop of the dispatcher and the coroutine that goes on to emit() run *)
(* as long as the process does; a post ends by the client's timeout.       *)
Fairness == WF_vars(DispatcherStep) /\ \A r \in Reporters : WF_vars(Emit(r))
FairSpec == Spec /\ Fairness
-----------------------------------------------------------------------------
(* Every variable keeps to the values its columns can take.                *)
TypeOK ==
    /\ now \in Nat /\ restarts \in Nat /\ deleted \in BOOLEAN
    /\ incident \in [Incidents ->
          [kind : Kinds \cup {"none"}, count : Nat,
           state : {"ABSENT", "OPEN", "RESOLVED", "CLOSED"}]]
    /\ reporter \in [Reporters -> [type : IncidentTypes \cup {"none"},
                                   incident : Incidents \cup {0}]]
    /\ event \in [Events -> [type : EventTypes \cup {"none"},
                             incident : Incidents \cup {0}]]
    /\ destination \in [Destinations -> {"new", "enabled", "disabled", "deleted"}]
    /\ delivery \in [Slots ->
          [state : {"ABSENT", "LEASED", "SUCCEEDED", "FAILED"} \cup Waiting,
           tries : Nat, due : Nat]]
    /\ dispatcher \in [pc : {"off", "poll", "post", "answer", "finish"},
                       of : Slots \cup {<<>>}, tries : Nat,
                       outcome : {"none", "ok", "later", "error"}]
    /\ crossed \in BOOLEAN /\ stranded \subseteq Slots
    /\ received \in [Slots -> Nat]

About(i, types) == {e \in Events : event[e].incident = i /\ event[e].type \in types}
Pending(i, types) ==
    {r \in Reporters : reporter[r].incident = i /\ reporter[r].type \in types}

(* An incident is announced as opened once, however many coroutines report *)
(* it at the same time: "It does not enqueue another opened event".        *)
OpenedOnce ==
    \A i \in Incidents :
        Cardinality(About(i, {"incident.opened"}))
          + Cardinality(Pending(i, {"incident.opened"})) <= 1

(* Every occurrence counted in the row is announced, or its coroutine is   *)
(* about to, as long as the process has not ended in between.              *)
OccurrencesAnnounced ==
    restarts = 0 =>
        \A i \in Incidents :
            LET types == {"incident.opened", "incident.updated"}
            IN  incident[i].count = Cardinality(About(i, types))
                                      + Cardinality(Pending(i, types))

(* A delivery recorded as SUCCEEDED reached its destination.               *)
SucceededMeansReceived ==
    \A x \in Slots : delivery[x].state = "SUCCEEDED" => received[x] > 0

(* At least once, but not without end: no destination is posted to more    *)
(* often than the retry table is long, plus once per restart, which takes  *)
(* back a lease without counting the attempt.                              *)
PostsBounded == \A x \in Slots : received[x] <= Len(RETRY_SECONDS) + restarts

(* An outcome once recorded is kept: neither a restart nor the dispatcher  *)
(* posts a delivery again that succeeded or was given up.                  *)
OutcomeKept ==
    [][\A x \in Slots :
          delivery[x].state \in {"SUCCEEDED", "FAILED"} =>
              /\ received'[x] = received[x]
              /\ delivery'[x] \in {delivery[x], NoDelivery}]_vars

(* The latest event about an incident says what the row says, unless two   *)
(* coroutines have been between their two jobs at the same time: then the  *)
(* events may be written in the other order.                               *)
LastWord(i) == CHOOSE e \in About(i, IncidentTypes) :
                   \A f \in About(i, IncidentTypes) : f <= e
LastWordTrue ==
    restarts = 0 /\ Emitting = {} /\ ~crossed =>
        \A i \in Incidents :
            /\ incident[i].state = "OPEN" =>
                  event[LastWord(i)].type \in {"incident.opened", "incident.updated"}
            /\ incident[i].state = "RESOLVED" =>
                  event[LastWord(i)].type = "incident.resolved"

(* What is due for an enabled destination does not wait for ever behind    *)
(* other deliveries and their retries.                                     *)
DueIsClaimed == \A x \in Slots : Due(x, Waiting) ~> ~Due(x, Waiting)

(* A lease ends: the delivery is recorded, scheduled again or deleted, be  *)
(* it after a restart; but for one whose post raised what _deliver does    *)
(* not catch, which waits for the next start of the process.               *)
LeaseEnds ==
    \A x \in Slots :
        (delivery[x].state = "LEASED") ~> (delivery[x].state # "LEASED" \/ x \in stranded)
=============================================================================
