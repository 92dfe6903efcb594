----------------------------- MODULE Activation -----------------------------
(***************************************************************************)
(* The life of the activation attempts of one account: planned from usage  *)
(* evidence, claimed when due or requested by the operator, submitted once *)
(* to Codex, and recorded as proven, failed or ambiguous; with everything  *)
(* that runs beside it: usage refreshes and their planning, disable and    *)
(* enable, acknowledgment, deletion, reauthentication, graceful shutdown,  *)
(* crash and restart, startup reconciliation (services.py).                *)
(*                                                                         *)
(* Grain: one action per database job or per awaited call, since every     *)
(* interleaving happens at an await.  A database job is atomic: one thread *)
(* runs them one at a time (database.py).  Accounts share no rows, only    *)
(* the concurrency semaphores, which can delay a task and nothing else; so *)
(* one account is modelled and acquiring a semaphore is part of waiting    *)
(* for the credential lock.                                                *)
(*                                                                         *)
(* Operators said to be mutants state plausible errors of the definition   *)
(* that follows them; nothing else uses them.                              *)
(*                                                                         *)
(* Abstracted: texts, error codes beyond the classes the handlers tell     *)
(* apart, the audit table activation_operations, events and webhooks, the  *)
(* derived overall_state.  usage.used = 100 stands for either window being *)
(* exhausted.                                                              *)
(***************************************************************************)
EXTENDS Schedule, FiniteSets

CONSTANTS MaxAttempts,  (* bound: rows in activation_attempts              *)
          MaxOperations,(* bound: activation.run rows in operations        *)
          Planners,     (* plan() calls that may run at the same time      *)
          MaxNow,       (* bound: the clock                                *)
          MaxRestarts,  (* bound: process restarts                         *)
          Resets,       (* the resets upstream may report                  *)
          Percents,     (* the used percentages it may report              *)
          Duration,     (* length of the short window                      *)
          Delay,        (* safety delay plus jitter                        *)
          Estimates,    (* settings.estimated_schedule_enabled             *)
          Commands      (* bound: what operator and poller may ask for     *)

AllCommands == {"activate", "refresh", "enable", "acknowledge", "delete",
                "login", "preserve", "close"}

ASSUME ActivationAssumption ==
    /\ MaxAttempts \in Nat \ {0}
    /\ MaxOperations \in Nat \ {0}
    /\ MaxNow \in Nat \ {0}
    /\ MaxRestarts \in Nat
    /\ Resets \subseteq Nat \ {0}
    /\ Percents \subseteq Int
    /\ Duration \in Nat \ {0}
    /\ Delay \in Nat
    /\ Estimates \in BOOLEAN
    /\ Commands \subseteq AllCommands

Attempts   == 1 .. MaxAttempts      (* in order of created_at_ms           *)
Operations == 1 .. MaxOperations    (* in order of created_at_ms           *)

VARIABLES
    now,
    usage,        (* usage_current: used percentage and reset              *)
    observations, (* successful reads, as far as plan() counts them        *)
    enabled, deleted,   (* accounts                                        *)
    auth,         (* account_state.auth_state                              *)
    worker,       (* account_state.worker_state                            *)
    activation,   (* account_state.activation_state                        *)
    incident,     (* an activation_ambiguous/_safety incident is OPEN      *)
    state,        (* activation_attempts.state                             *)
    window,       (* its window_key, basis_reset_at_s, scheduled_for_ms,   *)
                  (* schedule_confidence                                   *)
    provenAt,     (* its completed_at_ms once COMPLETED_OK                 *)
    operation,    (* operations.state of the activation.run rows           *)
    task,         (* the coroutine behind each operation                   *)
    planner,      (* the coroutines inside plan()                          *)
    refresh,      (* the coroutine of the one usage.refresh operation      *)
    held,         (* RuntimeManager._quarantined has the account           *)
    phase,        (* of the process: up, closing, starting                 *)
    recon,        (* startup reconciliation of each uncertain attempt      *)
    restarts,
    sends,        (* upstream: turn/start requests written per attempt     *)
    turn,         (* upstream: what became of that turn                    *)
    revoked,      (* history: cancelled by set_enabled while in flight     *)
    cutOff,       (* history: completed, then hit by shutdown's cancel     *)
    unread        (* history: pairs of a row and a plan for a reset, made  *)
                  (* from evidence read before that row was there          *)

usageVars    == <<usage, observations>>
accountVars  == <<enabled, deleted, auth, worker, activation, incident>>
attemptVars  == <<state, window, provenAt>>
taskVars     == <<operation, task>>
helperVars   == <<planner, refresh>>
processVars  == <<held, phase, recon, restarts>>
upstreamVars == <<sends, turn>>
historyVars  == <<revoked, cutOff, unread>>
vars == <<now, usageVars, accountVars, attemptVars, taskVars, helperVars,
          processVars, upstreamVars, historyVars>>
-----------------------------------------------------------------------------
AttemptStates ==     (* ABSENT: there is no such row yet                   *)
    {"ABSENT", "PLANNED", "QUEUED", "THREAD_CREATED", "TURN_DISPATCHING",
     "TURN_ACCEPTED", "COMPLETED_OK", "COMPLETED_WARNING", "FAILED_DEFINITE",
     "AMBIGUOUS", "AMBIGUOUS_CLOSED", "CANCELLED"}
ActivationStates ==
    {"UNSCHEDULED", "CONFIRMED_SCHEDULE", "ESTIMATED_SCHEDULE", "ACTIVATING",
     "WARNING", "AMBIGUOUS", "SAFETY_BLOCKED"}
OperationStates ==
    {"ABSENT", "QUEUED", "RUNNING", "SUCCEEDED", "FAILED", "CANCELLED",
     "AMBIGUOUS"}

Early     == {"QUEUED", "THREAD_CREATED"}
Submitted == {"TURN_DISPATCHING", "TURN_ACCEPTED"}
InFlight  == Early \cup Submitted
Unresolved == Submitted \cup {"AMBIGUOUS"}    (* blocks planning           *)
Open      == InFlight \cup {"AMBIGUOUS"}      (* blocks admission          *)
Completed == {"COMPLETED_OK", "COMPLETED_WARNING"}
Blocked   == {"AMBIGUOUS", "SAFETY_BLOCKED"}  (* of activation_state       *)

(* Where a task stands: the await it is about to return from.              *)
Managed == {"boot", "thread", "recheck", "mark", "send", "reply", "accept",
            "await", "finish"}                (* holds the credential lock *)
Steps   == {"free", "created", "queued", "precheck", "waiting", "complete",
            "pause", "fail", "incident"} \cup Managed
Errors  == {"none", "ineligible", "definite", "unsafe", "other"}
Task    == [pc : Steps, of : Attempts \cup {0}, error : Errors]
NoTask  == [pc |-> "free", of |-> 0, error |-> "none"]

Window  == [key : Key, basis : Nat, due : Nat,
            confidence : Confidences \cup {"NONE", "OPERATOR"}]
NoWindow == [key |-> NoKey, basis |-> 0, due |-> 0, confidence |-> "NONE"]

NoDecision == Nothing("UNKNOWN")
IdlePlanner == [pc |-> "idle", decision |-> NoDecision, read |-> {}]

ReconSteps == {"no", "pending", "reading", "completed", "failed", "unsafe",
               "announce", "unproven"}

Some(S) == \E a \in Attempts : state[a] \in S
Moved(S, to) == [a \in Attempts |-> IF state[a] \in S THEN to ELSE state[a]]

LockFree ==
    /\ \A o \in Operations : task[o].pc \notin Managed
    /\ refresh # "reading"
    /\ \A a \in Attempts : recon[a] # "reading"

Eligible(a) ==
    /\ enabled /\ ~deleted
    /\ auth = "VERIFIED"
    /\ activation \notin Blocked
    /\ state[a] \in Early
    /\ ~Exhausted(usage.used)

(* The row an ORDER BY scheduled_for_ms, created_at_ms LIMIT 1 picks.      *)
Earliest(a, S) ==
    /\ a \in S
    /\ \A b \in S : \/ window[a].due < window[b].due
                    \/ window[a].due = window[b].due /\ a <= b

(* Bound: without a row left, a plan or a request is turned down.          *)
RowsLeft == state[MaxAttempts] = "ABSENT"
NextAttempt(a) == state[a] = "ABSENT" /\ \A b \in 1 .. a - 1 : state[b] # "ABSENT"
NextOperation(o) ==
    operation[o] = "ABSENT" /\ \A p \in 1 .. o - 1 : operation[p] # "ABSENT"

Goto(o, pc) == task' = [task EXCEPT ![o].pc = pc]
Raise(o, pc, e) == task' = [task EXCEPT ![o].pc = pc, ![o].error = e]
Return(o) == task' = [task EXCEPT ![o] = NoTask]
-----------------------------------------------------------------------------
Init ==
    /\ now = 1
    /\ usage \in [used : Percents, reset : Resets \cup {0}]
    /\ observations = 1
    /\ enabled = TRUE /\ deleted = FALSE
    /\ auth = "VERIFIED" /\ worker = "STOPPED"
    /\ activation = "UNSCHEDULED" /\ incident = FALSE
    /\ state = [a \in Attempts |-> "ABSENT"]
    /\ window = [a \in Attempts |-> NoWindow]
    /\ provenAt = [a \in Attempts |-> 0]
    /\ operation = [o \in Operations |-> "ABSENT"]
    /\ task = [o \in Operations |-> NoTask]
    /\ planner = [p \in Planners |-> IdlePlanner]
    /\ refresh = "idle"
    /\ held = FALSE /\ phase = "up" /\ restarts = 0
    /\ recon = [a \in Attempts |-> "no"]
    /\ sends = [a \in Attempts |-> 0]
    /\ turn = [a \in Attempts |-> "none"]
    /\ revoked = {} /\ cutOff = {} /\ unread = {}

Tick ==
    /\ now < MaxNow
    /\ now' = now + 1
    /\ UNCHANGED <<usageVars, accountVars, attemptVars, taskVars, helperVars,
                   processVars, upstreamVars, historyVars>>

(* Upstream, on its own: a submitted turn ends, or asks for a tool.        *)
UpstreamEnds(a) ==
    /\ turn[a] = "running"
    /\ \E how \in {"completed", "failed", "unsafe"} :
          turn' = [turn EXCEPT ![a] = how]
    /\ UNCHANGED <<now, usageVars, accountVars, attemptVars, taskVars,
                   helperVars, processVars, sends, historyVars>>
-----------------------------------------------------------------------------
(* The scheduler: claim the earliest due plan of an account with nothing   *)
(* open, and start its task.                                               *)
DuePlansBefore ==    (* mutant: due strictly before now                    *)
    {a \in Attempts : state[a] = "PLANNED" /\ window[a].due < now}
DuePlans == {a \in Attempts : state[a] = "PLANNED" /\ window[a].due <= now}

Claim(o) ==
    /\ phase = "up"
    /\ NextOperation(o)
    /\ \E a \in Attempts :
          /\ Earliest(a, DuePlans)
          /\ enabled /\ ~deleted
          /\ auth = "VERIFIED"
          /\ ~Exhausted(usage.used)
          /\ activation \notin Blocked
          /\ ~Some(Open)
          /\ state' = [state EXCEPT ![a] = "QUEUED"]
          /\ task' = [task EXCEPT ![o] = [pc |-> "queued", of |-> a,
                                          error |-> "none"]]
    /\ activation' = "ACTIVATING"
    /\ operation' = [operation EXCEPT ![o] = "QUEUED"]
    /\ UNCHANGED <<now, usageVars, enabled, deleted, auth, worker, incident,
                   window, provenAt, helperVars, processVars, upstreamVars,
                   historyVars>>

(* activate(): the account row is read and the operation created before    *)
(* the admission below, in jobs of their own; the row read is not looked   *)
(* at again.                                                               *)
ActivateRequest(o) ==
    /\ "activate" \in Commands
    /\ phase = "up"
    /\ NextOperation(o)
    /\ enabled /\ ~deleted
    /\ auth = "VERIFIED"
    /\ activation \notin Blocked
    /\ operation' = [operation EXCEPT ![o] = "QUEUED"]
    /\ Goto(o, "created")
    /\ UNCHANGED <<now, usageVars, accountVars, attemptVars, helperVars,
                   processVars, upstreamVars, historyVars>>

ManualWindow ==
    [key        |-> IF usage.reset > now THEN ReportedKey(usage.reset)
                                         ELSE ManualKey(now),
     basis      |-> usage.reset,
     due        |-> now,
     confidence |-> "OPERATOR"]

WindowTaken(w) ==
    \E a \in Attempts :
        /\ state[a] # "ABSENT"
        /\ \/ window[a].key = w.key
           \/ w.basis # 0 /\ window[a].basis # 0 /\ Near(window[a].basis, w.basis)

Planned == {a \in Attempts : state[a] = "PLANNED"}

AdmitAttempt(o, a) ==
    /\ state' = [state EXCEPT ![a] = "QUEUED"]
    /\ task' = [task EXCEPT ![o].pc = "queued", ![o].of = a]
    /\ UNCHANGED operation

AdmitPlanned(o) ==
    /\ ~Some(Open)
    /\ \E a \in Attempts :
          /\ Earliest(a, Planned)
          /\ AdmitAttempt(o, a)
          /\ window' = [window EXCEPT ![a].due = now]

AdmitNew(o) ==
    /\ ~Some(Open) /\ Planned = {}
    /\ ~WindowTaken(ManualWindow)
    /\ \E a \in Attempts :
          /\ NextAttempt(a)
          /\ AdmitAttempt(o, a)
          /\ window' = [window EXCEPT ![a] = ManualWindow]

RejectDuplicate(o) ==
    /\ \/ Some(Open)
       \/ Planned = {} /\ (WindowTaken(ManualWindow) \/ ~RowsLeft)
    /\ operation' = [operation EXCEPT ![o] = "FAILED"]
    /\ Return(o)
    /\ UNCHANGED <<state, window>>

ActivateAdmit(o) ==
    /\ task[o].pc = "created"
    /\ AdmitPlanned(o) \/ AdmitNew(o) \/ RejectDuplicate(o)
    /\ UNCHANGED <<now, usageVars, accountVars, provenAt, helperVars,
                   processVars, upstreamVars, historyVars>>
-----------------------------------------------------------------------------
(* _run_activation up to the credential lock.                              *)
Start(o) ==
    /\ task[o].pc = "queued"
    /\ operation' = [operation EXCEPT ![o] = "RUNNING"]
    /\ Goto(o, "precheck")
    /\ UNCHANGED <<now, usageVars, accountVars, attemptVars, helperVars,
                   processVars, upstreamVars, historyVars>>

Precheck(o) ==
    /\ task[o].pc = "precheck"
    /\ IF Eligible(task[o].of) THEN Goto(o, "waiting")
                               ELSE Raise(o, "pause", "ineligible")
    /\ UNCHANGED <<now, usageVars, accountVars, attemptVars, operation,
                   helperVars, processVars, upstreamVars, historyVars>>

(* _run_managed: lock, active bundle, and the STOPPED -> IN_USE step.      *)
Acquire(o) ==
    /\ task[o].pc = "waiting"
    /\ LockFree
    /\ IF worker = "STOPPED" /\ ~deleted
       THEN worker' = "IN_USE" /\ Goto(o, "boot")
       ELSE UNCHANGED worker /\ Raise(o, "fail", "other")
    /\ UNCHANGED <<now, usageVars, enabled, deleted, auth, activation, incident,
                   attemptVars, operation, helperVars, processVars,
                   upstreamVars, historyVars>>

Boot(o) ==
    /\ task[o].pc = "boot"
    /\ \/ ~held /\ Goto(o, "thread") /\ UNCHANGED worker
       \/ worker' = "STOPPED" /\ Raise(o, "fail", "other")
    /\ UNCHANGED <<now, usageVars, enabled, deleted, auth, activation, incident,
                   attemptVars, operation, helperVars, processVars,
                   upstreamVars, historyVars>>

(* thread/start, then thread_created(): the row is set without a look at   *)
(* the state it is in.                                                     *)
CreateThread(o) ==
    /\ task[o].pc = "thread"
    /\ \/ /\ state' = [state EXCEPT ![task[o].of] = "THREAD_CREATED"]
          /\ Goto(o, "recheck")
       \/ /\ UNCHANGED state
          /\ Raise(o, "finish", "other")
    /\ UNCHANGED <<now, usageVars, accountVars, window, provenAt, operation,
                   helperVars, processVars, upstreamVars, historyVars>>

Recheck(o) ==
    /\ task[o].pc = "recheck"
    /\ IF Eligible(task[o].of) THEN Goto(o, "mark")
                               ELSE Raise(o, "finish", "ineligible")
    /\ UNCHANGED <<now, usageVars, accountVars, attemptVars, operation,
                   helperVars, processVars, upstreamVars, historyVars>>

(* mark_dispatching(): conditional on THREAD_CREATED, but whether it       *)
(* changed a row is not asked.                                             *)
MarkDispatching(o) ==
    /\ task[o].pc = "mark"
    /\ state' = [state EXCEPT ![task[o].of] =
                    IF @ = "THREAD_CREATED" THEN "TURN_DISPATCHING" ELSE @]
    /\ Goto(o, "send")
    /\ UNCHANGED <<now, usageVars, accountVars, window, provenAt, operation,
                   helperVars, processVars, upstreamVars, historyVars>>

SendTurn(o) ==
    /\ task[o].pc = "send"
    /\ sends' = [sends EXCEPT ![task[o].of] = @ + 1]
    /\ turn' = [turn EXCEPT ![task[o].of] = "running"]
    /\ Goto(o, "reply")
    /\ UNCHANGED <<now, usageVars, accountVars, attemptVars, operation,
                   helperVars, processVars, historyVars>>

(* turn/start answers with a turn, is refused, or is never heard of.       *)
TurnReply(o) ==
    /\ task[o].pc = "reply"
    /\ \/ Goto(o, "accept") /\ UNCHANGED turn
       \/ /\ turn[task[o].of] = "running"
          /\ turn' = [turn EXCEPT ![task[o].of] = "refused"]
          /\ Raise(o, "finish", "definite")
       \/ Raise(o, "finish", "other") /\ UNCHANGED turn
    /\ UNCHANGED <<now, usageVars, accountVars, attemptVars, operation,
                   helperVars, processVars, sends, historyVars>>

AcceptTurn(o) ==
    /\ task[o].pc = "accept"
    /\ state' = [state EXCEPT ![task[o].of] = "TURN_ACCEPTED"]
    /\ Goto(o, "await")
    /\ UNCHANGED <<now, usageVars, accountVars, window, provenAt, operation,
                   helperVars, processVars, upstreamVars, historyVars>>

(* _await_turn: the notifications tell how the turn ended, or the stream   *)
(* closes, a notification is dropped, or the timeout strikes first.        *)
Notified(o) ==       (* mutant as TurnOutcome: no timeout                  *)
    LET ended == turn[task[o].of]
    IN  \/ ended = "completed" /\ Goto(o, "finish")
        \/ ended = "failed" /\ Raise(o, "finish", "definite")
        \/ ended = "unsafe" /\ Raise(o, "finish", "unsafe")
TurnOutcome(o) == Notified(o) \/ Raise(o, "finish", "other")

AwaitTurn(o) ==
    /\ task[o].pc = "await"
    /\ TurnOutcome(o)
    /\ UNCHANGED <<now, usageVars, accountVars, attemptVars, operation,
                   helperVars, processVars, upstreamVars, historyVars>>
-----------------------------------------------------------------------------
(* The credential could not be checkpointed: _credential_use_finished with *)
(* safe=False, after RuntimeManager.preserve has kept the evidence.        *)
QuarantineOpen ==    (* mutant: the attempt under way is cancelled, too     *)
    /\ worker' = "QUARANTINED"
    /\ auth' = "AUTH_REQUIRED"
    /\ activation' = "UNSCHEDULED"
    /\ state' = Moved({"PLANNED"} \cup InFlight, "CANCELLED")
    /\ held' = TRUE

Quarantine ==
    /\ worker' = "QUARANTINED"
    /\ auth' = "AUTH_REQUIRED"
    /\ activation' = "UNSCHEDULED"
    /\ state' = Moved({"PLANNED"}, "CANCELLED")
    /\ held' = TRUE


AfterFinish(error) ==
    CASE error = "none"       -> "complete"
      [] error = "ineligible" -> "pause"
      [] OTHER                -> "fail"

(* The rest of _run_managed: checkpoint, clean up, release the credential. *)
Finish(o) ==
    /\ task[o].pc = "finish"
    /\ \/ /\ worker' = "STOPPED"
          /\ Goto(o, AfterFinish(task[o].error))
          /\ UNCHANGED <<auth, activation, state, held>>
       \/ /\ Quarantine
          /\ Raise(o, "fail", "other")
    /\ UNCHANGED <<now, usageVars, enabled, deleted, incident, window, provenAt,
                   operation, helperVars, phase, recon, restarts, upstreamVars,
                   historyVars>>

(* _complete_activation's job, for attempt a and operations row p.         *)
Completion(a, p) ==
    /\ \E result \in Completed :
          /\ state' = [Moved({"PLANNED"}, "CANCELLED") EXCEPT ![a] = result]
          /\ provenAt' = IF result = "COMPLETED_OK"
                         THEN [provenAt EXCEPT ![a] = now] ELSE provenAt
          /\ activation' = IF result = "COMPLETED_OK" THEN "UNSCHEDULED"
                                                      ELSE "WARNING"
    /\ operation' = [operation EXCEPT ![p] = "SUCCEEDED"]

Complete(o) ==
    /\ task[o].pc = "complete"
    /\ Completion(task[o].of, o)
    /\ Return(o)
    /\ UNCHANGED <<now, usageVars, enabled, deleted, auth, worker, incident,
                   window, helperVars, processVars, upstreamVars, historyVars>>

(* _handle_activation_error for ACTIVATION_NOT_ELIGIBLE: back to PLANNED   *)
(* while usage is exhausted; a row already CANCELLED is left alone, and    *)
(* its operation with it.                                                  *)
Pausable(a) == state[a] \in Early /\ Exhausted(usage.used)

Rescheduled(a) ==
    /\ state' = [state EXCEPT ![a] = "PLANNED"]
    /\ activation' = IF window[a].confidence = "ESTIMATED"
                     THEN "ESTIMATED_SCHEDULE" ELSE "CONFIRMED_SCHEDULE"

PauseOnly(o) ==      (* mutant: the operation is left RUNNING             *)
    Rescheduled(task[o].of) /\ Return(o) /\ UNCHANGED operation

Pause(o) ==
    /\ Rescheduled(task[o].of)
    /\ operation' = [operation EXCEPT ![o] = "CANCELLED"]
    /\ Return(o)

HandleIneligible(o) ==
    /\ task[o].pc = "pause"
    /\ LET a == task[o].of
       IN  \/ Pausable(a) /\ Pause(o)
           \/ /\ ~Pausable(a)
              /\ IF state[a] = "CANCELLED" THEN Return(o) ELSE Goto(o, "fail")
              /\ UNCHANGED <<state, operation, activation>>
    /\ UNCHANGED <<now, usageVars, enabled, deleted, auth, worker, incident,
                   window, provenAt, helperVars, processVars, upstreamVars,
                   historyVars>>

(* _ambiguous_activation's job: the attempt is ambiguous when its turn may *)
(* have been submitted and nothing proves it failed.                       *)
Uncertain(a, error) == error # "definite" /\ state[a] \in Unresolved

Failure(a, p, error) ==
    /\ state' = [state EXCEPT ![a] = IF Uncertain(a, error) THEN "AMBIGUOUS"
                                     ELSE "FAILED_DEFINITE"]
    /\ operation' = [operation EXCEPT ![p] = IF Uncertain(a, error)
                                             THEN "AMBIGUOUS" ELSE "FAILED"]
    /\ activation' = IF error = "unsafe" THEN "SAFETY_BLOCKED"
                     ELSE IF Uncertain(a, error) THEN "AMBIGUOUS"
                     ELSE "UNSCHEDULED"

RecordFailure(o) ==
    /\ task[o].pc = "fail"
    /\ Failure(task[o].of, o, task[o].error)
    /\ IF Uncertain(task[o].of, task[o].error) THEN Goto(o, "incident") ELSE Return(o)
    /\ UNCHANGED <<now, usageVars, enabled, deleted, auth, worker, incident,
                   window, provenAt, helperVars, processVars, upstreamVars,
                   historyVars>>

OpenIncident(o) ==
    /\ task[o].pc = "incident"
    /\ incident' = TRUE
    /\ Return(o)
    /\ UNCHANGED <<now, usageVars, enabled, deleted, auth, worker, activation,
                   attemptVars, operation, helperVars, processVars,
                   upstreamVars, historyVars>>
-----------------------------------------------------------------------------
(* Commands of the operator.                                               *)
StartPlanner(pc) ==
    \E p \in Planners :
        /\ planner[p].pc = "idle"
        /\ planner' = [planner EXCEPT ![p].pc = pc]

AfterDisableAll(s) ==        (* mutant: cancels what is submitted, too      *)
    IF s \in {"PLANNED"} \cup InFlight THEN "CANCELLED" ELSE s
AfterDisable(s) == IF s \in {"PLANNED"} \cup Early THEN "CANCELLED" ELSE s

(* set_enabled().  Disabling then waits in runtime.stop() until a runtime  *)
(* in use has drained; that wait changes no row and disturbs no task.      *)
Disable ==
    /\ "enable" \in Commands
    /\ phase = "up" /\ ~deleted
    /\ enabled' = FALSE
    /\ state' = [a \in Attempts |-> AfterDisable(state[a])]
    /\ operation' = [o \in Operations |->
                        IF operation[o] = "QUEUED" THEN "CANCELLED"
                                                   ELSE operation[o]]
    /\ revoked' = revoked \cup {a \in Attempts : state[a] \in Early}
    /\ UNCHANGED <<now, usageVars, deleted, auth, worker, activation, incident,
                   window, provenAt, task, helperVars, processVars,
                   upstreamVars, cutOff, unread>>

Enable ==
    /\ "enable" \in Commands
    /\ phase = "up" /\ ~deleted
    /\ enabled' = TRUE
    /\ IF auth = "VERIFIED" THEN StartPlanner("account") ELSE UNCHANGED planner
    /\ UNCHANGED <<now, usageVars, deleted, auth, worker, activation, incident,
                   attemptVars, taskVars, refresh, processVars, upstreamVars,
                   historyVars>>

AfterReviewBlocked(s) ==     (* mutant: a state of another column          *)
    IF s = "AMBIGUOUS" THEN "SAFETY_BLOCKED" ELSE s
AfterReview(s) ==
    CASE s = "AMBIGUOUS" -> "AMBIGUOUS_CLOSED"
      [] s = "PLANNED"   -> "CANCELLED"
      [] OTHER           -> s

(* acknowledge_ambiguity(); the incidents are resolved and the next window *)
(* planned in later jobs of the same request.                              *)
Acknowledge ==
    /\ "acknowledge" \in Commands
    /\ phase = "up" /\ ~deleted
    /\ Some({"AMBIGUOUS"})
    /\ state' = [a \in Attempts |-> AfterReview(state[a])]
    /\ activation' = "UNSCHEDULED"
    /\ StartPlanner("resolve")
    /\ UNCHANGED <<now, usageVars, enabled, deleted, auth, worker, incident,
                   window, provenAt, taskVars, refresh, processVars,
                   upstreamVars, historyVars>>

Delete ==
    /\ "delete" \in Commands
    /\ phase = "up" /\ ~deleted
    /\ deleted' = TRUE
    /\ enabled' = FALSE
    /\ incident' = FALSE
    /\ UNCHANGED <<now, usageVars, auth, worker, activation, attemptVars,
                   taskVars, helperVars, processVars, upstreamVars, historyVars>>

(* start_login(recover_checkpoint=True) gives the credential free before   *)
(* the sign-in has succeeded.                                              *)
RecoverCredential ==
    /\ "login" \in Commands
    /\ phase = "up" /\ ~deleted
    /\ auth = "AUTH_REQUIRED" /\ worker = "QUARANTINED"
    /\ worker' = "STOPPED"
    /\ UNCHANGED <<now, usageVars, enabled, deleted, auth, activation, incident,
                   attemptVars, taskVars, helperVars, processVars,
                   upstreamVars, historyVars>>

(* A sign-in, which holds the credential lock, commits.  It cannot start a *)
(* runtime while the old one is quarantined in this process.               *)
SignInStarts == phase = "up" /\ ~deleted /\ LockFree /\ ~held

Reauthenticate ==
    /\ "login" \in Commands
    /\ SignInStarts
    /\ worker # "QUARANTINED"
    /\ enabled' = TRUE
    /\ auth' = "VERIFIED"
    /\ worker' = "STOPPED"
    /\ UNCHANGED <<now, usageVars, deleted, activation, incident, attemptVars,
                   taskVars, helperVars, processVars, upstreamVars, historyVars>>

(* A runtime of a sign-in is preserved: one that has not taken over the    *)
(* account, which stays as it is, or one that uses its stored credential,  *)
(* which is quarantined; that of an export whose client cannot be closed   *)
(* is kept although the sign-in then commits.                              *)
SignInLost ==
    /\ "preserve" \in Commands
    /\ SignInStarts
    /\ \/ held' = TRUE /\ UNCHANGED <<auth, worker, activation, state>>
       \/ worker = "STOPPED" /\ Quarantine
    /\ UNCHANGED <<now, usageVars, enabled, deleted, incident, window, provenAt,
                   taskVars, helperVars, phase, recon, restarts, upstreamVars,
                   historyVars>>
-----------------------------------------------------------------------------
(* Usage refresh, at most one at a time (coalesce).                        *)
RefreshStart ==
    /\ "refresh" \in Commands
    /\ phase = "up" /\ ~deleted
    /\ auth = "VERIFIED" /\ worker = "STOPPED"
    /\ refresh = "idle"
    /\ refresh' = "waiting"
    /\ UNCHANGED <<now, usageVars, accountVars, attemptVars, taskVars, planner,
                   processVars, upstreamVars, historyVars>>

RefreshAcquire ==
    /\ refresh = "waiting"
    /\ LockFree
    /\ IF worker = "STOPPED" /\ ~deleted
       THEN worker' = "IN_USE" /\ refresh' = "reading"
       ELSE UNCHANGED worker /\ refresh' = "failed"
    /\ UNCHANGED <<now, usageVars, enabled, deleted, auth, activation, incident,
                   attemptVars, taskVars, planner, processVars, upstreamVars,
                   historyVars>>

(* The runtime starts, reads the rate limits and is closed again.  A read  *)
(* that shutdown cancelled ends without a word, unless it quarantines.     *)
RefreshRead ==
    /\ refresh = "reading"
    /\ \/ /\ worker' = "STOPPED"
          /\ refresh' \in IF phase = "closing" THEN {"idle"}
                          ELSE IF held THEN {"failed"}
                          ELSE {"commit", "failed", "auth", "mismatch"}
          /\ UNCHANGED <<auth, activation, state, held>>
       \/ ~held /\ Quarantine /\ refresh' = "lost"
    /\ UNCHANGED <<now, usageVars, enabled, deleted, incident, window, provenAt,
                   taskVars, planner, phase, recon, restarts, upstreamVars,
                   historyVars>>

CommitUsage ==
    /\ refresh = "commit"
    /\ usage' \in [used : Percents, reset : Resets \cup {0}]
    /\ observations' = 2
    /\ refresh' = "idle"
    /\ StartPlanner("account")
    /\ UNCHANGED <<now, accountVars, attemptVars, taskVars, processVars,
                   upstreamVars, historyVars>>

RecordUsageFailure ==
    /\ refresh \in {"failed", "auth", "mismatch", "lost"}
    /\ IF refresh \in {"auth", "lost"}
       THEN auth' = "AUTH_REQUIRED" /\ activation' = "UNSCHEDULED"
       ELSE UNCHANGED <<auth, activation>>
    /\ state' = IF refresh = "failed" THEN state
                ELSE Moved({"PLANNED"}, "CANCELLED")
    /\ refresh' = "idle"
    /\ UNCHANGED <<now, usageVars, enabled, deleted, worker, incident, window,
                   provenAt, taskVars, planner, processVars, upstreamVars,
                   historyVars>>
-----------------------------------------------------------------------------
(* plan(), after the resolve_incident calls when Acknowledge started it.   *)
Existing == {a \in Attempts : state[a] # "ABSENT"}
Keys     == {window[a].key : a \in Existing}
Bases    == {window[a].basis : a \in Existing} \ {0}

(* ORDER BY completed_at_ms DESC LIMIT 1 over the proven ones; 0 if none.  *)
LastProven ==
    LET times == {provenAt[a] : a \in {b \in Attempts : state[b] = "COMPLETED_OK"}}
        latest(t) == \A u \in times : u <= t
    IN  IF \E t \in times : latest(t) THEN CHOOSE t \in times : latest(t) ELSE 0

Evidence ==
    [eligible     |-> TRUE,
     unresolved   |-> Some(Unresolved),
     short        |-> [present |-> TRUE, used |-> usage.used,
                       duration |-> Duration, reset |-> usage.reset],
     weekly       |-> 0,
     now          |-> now,
     keys         |-> Keys,
     last         |-> LastProven,
     observations |-> observations,
     estimates    |-> Estimates,
     delay        |-> Delay]

PlannerAt(p, pc) == planner' = [planner EXCEPT ![p].pc = pc]
PlannerDone(p) == planner' = [planner EXCEPT ![p] = IdlePlanner]

ResolveIncident(p) ==
    /\ planner[p].pc = "resolve"
    /\ incident' = FALSE
    /\ PlannerAt(p, "account")
    /\ UNCHANGED <<now, usageVars, enabled, deleted, auth, worker, activation,
                   attemptVars, taskVars, refresh, processVars, upstreamVars,
                   historyVars>>

(* The account row, whose flags are used after the evidence is read.       *)
PlanAccount(p) ==
    /\ planner[p].pc = "account"
    /\ IF enabled /\ ~deleted /\ auth = "VERIFIED"
       THEN PlannerAt(p, "evidence") ELSE PlannerDone(p)
    /\ UNCHANGED <<now, usageVars, accountVars, attemptVars, taskVars, refresh,
                   processVars, upstreamVars, historyVars>>

PlanEvidence(p) ==
    /\ planner[p].pc = "evidence"
    /\ LET d == DecideSchedule(Evidence)
       IN  IF Admissible(d, Keys, Bases)
           THEN planner' = [planner EXCEPT ![p] = [pc |-> "create", decision |-> d,
                                                   read |-> Existing]]
           ELSE PlannerDone(p)
    /\ UNCHANGED <<now, usageVars, accountVars, attemptVars, taskVars, refresh,
                   processVars, upstreamVars, historyVars>>

PlanInsert(d, read) ==
    \E a \in Attempts :
        /\ NextAttempt(a)
        /\ state' = [state EXCEPT ![a] = "PLANNED"]
        /\ window' = [window EXCEPT ![a] =
                         [key |-> d.key, basis |-> d.basis, due |-> d.runAt,
                          confidence |-> d.confidence]]
        /\ activation' = IF d.confidence = "ESTIMATED" THEN "ESTIMATED_SCHEDULE"
                                                       ELSE "CONFIRMED_SCHEDULE"
        /\ unread' = IF d.basis = 0 THEN unread
                     ELSE unread \cup {<<b, a>> : b \in Existing \ read}

(* create(): refused while an attempt is unresolved; a second row with the *)
(* same key violates UNIQUE(account_id, window_key) and inserts nothing.   *)
PlanRefused(d) == Some(Unresolved) \/ d.key \in Keys \/ ~RowsLeft

PlanCreate(p) ==
    /\ planner[p].pc = "create"
    /\ \/ /\ ~PlanRefused(planner[p].decision)
          /\ PlanInsert(planner[p].decision, planner[p].read)
       \/ /\ PlanRefused(planner[p].decision)
          /\ UNCHANGED <<state, window, activation, unread>>
    /\ PlannerDone(p)
    /\ UNCHANGED <<now, usageVars, enabled, deleted, auth, worker, incident,
                   provenAt, taskVars, refresh, processVars, upstreamVars,
                   revoked, cutOff>>
-----------------------------------------------------------------------------
(* Graceful shutdown: close() cancels every task at the await it stands    *)
(* at, once.  Requests have been answered before.  What a cancelled task   *)
(* does next:                                                              *)
Cancelled(t) ==
    CASE t.pc \in {"queued", "precheck", "waiting", "complete", "boot"} ->
            [t EXCEPT !.pc = "fail", !.error = "other"]
      [] t.pc \in Managed \ {"boot", "finish"} ->
            [t EXCEPT !.pc = "finish", !.error = "other"]
      [] t.pc = "finish" ->
            [t EXCEPT !.error = IF @ = "none" THEN "other" ELSE @]
      [] t.pc \in {"pause", "fail", "incident"} -> NoTask
      [] OTHER -> t

(* A job that waits in the queue is dropped with its task.  One that is    *)
(* being executed is not: it commits, but its task only learns of the      *)
(* cancellation.  That differs from committing just before the shutdown    *)
(* where the step after the job would have been taken for granted: the     *)
(* completion (then recorded as failed) and the STOPPED -> IN_USE step     *)
(* (then never undone).                                                    *)
NoJobRuns == UNCHANGED <<state, provenAt, operation, activation, cutOff>>

CompletionRuns(o) ==
    /\ task[o].pc = "complete"
    /\ Completion(task[o].of, o)
    /\ cutOff' = cutOff \cup {task[o].of}

AcquisitionRuns ==
    \E o \in Operations : task[o].pc = "waiting" /\ LockFree /\ worker = "STOPPED"

Close ==
    /\ "close" \in Commands
    /\ phase = "up"
    /\ \A o \in Operations : task[o].pc # "created"
    /\ phase' = "closing"
    /\ task' = [o \in Operations |-> Cancelled(task[o])]
    /\ planner' = [p \in Planners |-> IdlePlanner]
    /\ refresh' = IF refresh = "reading" THEN "reading" ELSE "idle"
    /\ \/ /\ NoJobRuns
          /\ worker' = IF \E o \in Operations : task[o].pc = "boot"
                       THEN "STOPPED" ELSE worker
       \/ AcquisitionRuns /\ worker' = "IN_USE" /\ NoJobRuns
       \/ \E o \in Operations : CompletionRuns(o) /\ UNCHANGED worker
    /\ UNCHANGED <<now, usageVars, enabled, deleted, auth, incident, window,
                   held, recon, restarts, upstreamVars, revoked, unread>>

(* The process dies at any moment, comes back, and reconcile_startup runs  *)
(* its one job over what the database holds.                               *)
CredentialQuarantined ==     (* mutant: an interrupted use goes unnoticed  *)
    worker = "QUARANTINED"
CredentialUncertain == worker \in {"IN_USE", "QUARANTINED"}

AfterRestartRetry(s) ==      (* mutant: interrupted attempts run again     *)
    IF s \in InFlight THEN "PLANNED" ELSE s
AfterRestartSubmitted(s) ==  (* mutant: early attempts are left as found   *)
    IF s \in Submitted THEN "AMBIGUOUS" ELSE s
AfterRestart(s) ==
    CASE s \in Submitted -> "AMBIGUOUS"
      [] s \in Early     -> "FAILED_DEFINITE"
      [] s = "PLANNED" /\ CredentialUncertain -> "CANCELLED"
      [] OTHER           -> s

Restart ==
    /\ restarts < MaxRestarts
    /\ restarts' = restarts + 1
    /\ phase' = "starting"
    /\ held' = FALSE
    /\ task' = [o \in Operations |-> NoTask]
    /\ planner' = [p \in Planners |-> IdlePlanner]
    /\ refresh' = "idle"
    /\ worker' = IF CredentialUncertain THEN "QUARANTINED" ELSE worker
    /\ auth' = IF CredentialUncertain THEN "AUTH_REQUIRED" ELSE auth
    /\ state' = [a \in Attempts |-> AfterRestart(state[a])]
    /\ activation' = IF Some(Early) THEN "UNSCHEDULED"
                     ELSE IF Some(Submitted) THEN "AMBIGUOUS"
                     ELSE IF CredentialUncertain THEN "UNSCHEDULED"
                     ELSE activation
    /\ operation' = [o \in Operations |->
                        CASE operation[o] = "RUNNING" -> "AMBIGUOUS"
                          [] operation[o] = "QUEUED"  -> "FAILED"
                          [] OTHER                    -> operation[o]]
    /\ recon' = [a \in Attempts |-> IF state[a] \in Submitted THEN "pending"
                                                              ELSE "no"]
    /\ UNCHANGED <<now, usageVars, enabled, deleted, incident, window, provenAt,
                   upstreamVars, historyVars>>
-----------------------------------------------------------------------------
(* _reconcile_activation: read the thread of a submitted attempt again, in *)
(* a runtime of its own.                                                   *)
ReconAt(a, step) == recon' = [recon EXCEPT ![a] = step]

ReconcileStart(a) ==
    /\ recon[a] = "pending"
    /\ LockFree
    /\ IF worker = "STOPPED" /\ ~deleted
       THEN worker' = "IN_USE" /\ ReconAt(a, "reading")
       ELSE UNCHANGED worker /\ ReconAt(a, "unproven")
    /\ UNCHANGED <<now, usageVars, enabled, deleted, auth, activation, incident,
                   attemptVars, taskVars, helperVars, held, phase, restarts,
                   upstreamVars, historyVars>>

(* What the thread proves: how the turn ended, or nothing (still running,  *)
(* not found, or the read failed).                                         *)
Proof(a) == {turn[a]} \cap {"completed", "failed", "unsafe"}

ReconcileRead(a) ==
    /\ recon[a] = "reading"
    /\ \/ /\ worker' = "STOPPED"
          /\ \E found \in {"unproven"} \cup Proof(a) : ReconAt(a, found)
          /\ UNCHANGED <<auth, activation, state, held>>
       \/ Quarantine /\ ReconAt(a, "unproven")
    /\ UNCHANGED <<now, usageVars, enabled, deleted, incident, window, provenAt,
                   taskVars, helperVars, phase, restarts, upstreamVars,
                   historyVars>>

(* The operation it settles is the newest activation.run of the account.   *)
RunningOperation(p) ==       (* mutant: expects the row to be RUNNING      *)
    operation[p] = "RUNNING"
LatestOperation(p) ==
    /\ operation[p] # "ABSENT"
    /\ \A q \in Operations : q > p => operation[q] = "ABSENT"

ReconcileSettle(a) ==
    /\ \E p \in Operations :
          /\ LatestOperation(p)
          /\ \/ /\ recon[a] = "completed"
                /\ Completion(a, p)
                /\ ReconAt(a, "no")
             \/ /\ recon[a] = "failed"
                /\ Failure(a, p, "definite") /\ UNCHANGED provenAt
                /\ ReconAt(a, "no")
             \/ /\ recon[a] = "unsafe"
                /\ Failure(a, p, "unsafe") /\ UNCHANGED provenAt
                /\ ReconAt(a, "announce")
    /\ UNCHANGED <<now, usageVars, enabled, deleted, auth, worker, incident,
                   window, task, helperVars, held, phase, restarts,
                   upstreamVars, historyVars>>

ReconcileAnnounce(a) ==
    /\ recon[a] = "announce"
    /\ incident' = TRUE
    /\ ReconAt(a, "no")
    /\ UNCHANGED <<now, usageVars, enabled, deleted, auth, worker, activation,
                   attemptVars, taskVars, helperVars, held, phase, restarts,
                   upstreamVars, historyVars>>

(* Incidents for what stayed unproven; then the service is open.           *)
ReconcileDone ==
    /\ phase = "starting"
    /\ \A a \in Attempts : recon[a] \in {"no", "unproven"}
    /\ incident' = (incident \/ \E a \in Attempts : recon[a] = "unproven")
    /\ recon' = [a \in Attempts |-> "no"]
    /\ phase' = "up"
    /\ UNCHANGED <<now, usageVars, enabled, deleted, auth, worker, activation,
                   attemptVars, taskVars, helperVars, held, restarts,
                   upstreamVars, historyVars>>
-----------------------------------------------------------------------------
TaskStep(o) ==
    \/ ActivateAdmit(o) \/ Start(o) \/ Precheck(o) \/ Acquire(o) \/ Boot(o)
    \/ CreateThread(o) \/ Recheck(o) \/ MarkDispatching(o) \/ SendTurn(o)
    \/ TurnReply(o) \/ AcceptTurn(o) \/ AwaitTurn(o) \/ Finish(o) \/ Complete(o)
    \/ HandleIneligible(o) \/ RecordFailure(o) \/ OpenIncident(o)

RefreshStep == RefreshAcquire \/ RefreshRead \/ CommitUsage \/ RecordUsageFailure

PlannerStep(p) ==
    ResolveIncident(p) \/ PlanAccount(p) \/ PlanEvidence(p) \/ PlanCreate(p)

ReconcileStep(a) ==
    ReconcileStart(a) \/ ReconcileRead(a) \/ ReconcileSettle(a) \/ ReconcileAnnounce(a)

OperatorStep ==
    \/ \E o \in Operations : ActivateRequest(o)
    \/ Disable \/ Enable \/ Acknowledge \/ Delete
    \/ RecoverCredential \/ Reauthenticate \/ SignInLost \/ RefreshStart

Next ==
    \/ Tick
    \/ \E a \in Attempts : UpstreamEnds(a)
    \/ \E o \in Operations : Claim(o) \/ TaskStep(o)
    \/ \E p \in Planners : PlannerStep(p)
    \/ RefreshStep
    \/ OperatorStep
    \/ Close \/ Restart
    \/ \E a \in Attempts : ReconcileStep(a)
    \/ ReconcileDone

Spec == Init /\ [][Next]_vars

(* The event loop runs every coroutine that can run, the scheduler polls   *)
(* every five seconds, every upstream call has a timeout, and asyncio.Lock *)
(* serves its waiters in order: one that waits for the credential gets it  *)
(* though others take it in between.  Nothing is assumed of the operator,  *)
(* the clock, the poller, upstream or crashes.                             *)
Fairness ==
    /\ \A o \in Operations : WF_vars(TaskStep(o)) /\ SF_vars(Acquire(o))
                             /\ WF_vars(Claim(o))
    /\ WF_vars(RefreshStep) /\ SF_vars(RefreshAcquire)
    /\ \A p \in Planners : WF_vars(PlannerStep(p))
    /\ \A a \in Attempts : WF_vars(ReconcileStep(a)) /\ SF_vars(ReconcileStart(a))
    /\ WF_vars(ReconcileDone)

FairSpec == Spec /\ Fairness
-----------------------------------------------------------------------------
UsageType ==
    /\ now \in Nat
    /\ usage \in [used : Percents, reset : Resets \cup {0}]
    /\ observations \in 1 .. 2
AccountType ==
    /\ enabled \in BOOLEAN /\ deleted \in BOOLEAN
    /\ auth \in {"VERIFIED", "AUTH_REQUIRED"}
    /\ worker \in {"STOPPED", "IN_USE", "QUARANTINED"}
    /\ activation \in ActivationStates
    /\ incident \in BOOLEAN
AttemptType ==
    /\ state \in [Attempts -> AttemptStates]
    /\ window \in [Attempts -> Window]
    /\ provenAt \in [Attempts -> Nat]
TaskType ==
    /\ operation \in [Operations -> OperationStates]
    /\ task \in [Operations -> Task]
HelperType ==
    /\ planner \in [Planners -> [pc : {"idle", "resolve", "account", "evidence",
                                       "create"}, decision : Decision,
                                 read : SUBSET Attempts]]
    /\ refresh \in {"idle", "waiting", "reading", "commit", "failed", "auth",
                    "mismatch", "lost"}
ProcessType ==
    /\ held \in BOOLEAN
    /\ phase \in {"up", "closing", "starting"}
    /\ recon \in [Attempts -> ReconSteps]
    /\ restarts \in Nat
UpstreamType ==
    /\ sends \in [Attempts -> Nat]
    /\ turn \in [Attempts -> {"none", "running", "completed", "failed",
                              "unsafe", "refused"}]
HistoryType ==
    /\ revoked \subseteq Attempts /\ cutOff \subseteq Attempts
    /\ unread \subseteq Attempts \X Attempts

(* Every variable keeps to the values the columns and coroutines can take. *)
TypeOK ==
    /\ UsageType /\ AccountType /\ AttemptType /\ TaskType
    /\ HelperType /\ ProcessType /\ UpstreamType /\ HistoryType

Submissions == {a \in Attempts : sends[a] > 0}
Flying == {a \in Attempts : state[a] \in InFlight}

(* One attempt never sends turn/start twice, whatever is paused, replanned, *)
(* acknowledged, disabled or restarted between: "intentionally submit at   *)
(* most one accepted activation turn".                                     *)
AtMostOneSubmission == \A a \in Attempts : sends[a] <= 1

(* Two attempts never submit for the same window: not under one key, and   *)
(* not for resets that lie within the tolerance of each other, though each *)
(* read may move the reset a little; unless one was planned from evidence  *)
(* read before the other was there, since create() looks at the key only.  *)
SameReset(a, b) ==
    /\ window[a].basis # 0 /\ window[b].basis # 0
    /\ Near(window[a].basis, window[b].basis)

Unread(a, b) == <<a, b>> \in unread \/ <<b, a>> \in unread

OneSubmissionPerWindow ==
    \A a, b \in Submissions :
        a # b => /\ window[a].key # window[b].key
                 /\ SameReset(a, b) => Unread(a, b)

(* Only one attempt of an account is in flight (claim and admission both   *)
(* look for an open one), but for attempts that set_enabled cancelled      *)
(* while their task was on its way: the task brings the row back to life.  *)
OneInFlightUnlessRevoked == \A a, b \in Flying \ revoked : a = b

(* Nobody is forgotten: some task works for every attempt in flight, every *)
(* operation that is queued or running is somebody's, and what startup     *)
(* reconciliation has read it can record on an operation; but for a        *)
(* shutdown, which cuts tasks off, and an operation whose attempt was      *)
(* cancelled in flight and found so by its task.                           *)
Unfinished == {"QUEUED", "RUNNING"}
WorksFor(o, a) ==
    task[o].of = a /\ task[o].pc \notin {"free", "created", "incident"}
Attended ==
    /\ phase # "closing" => \A a \in Flying : \E o \in Operations : WorksFor(o, a)
    /\ phase # "closing" /\ revoked = {} =>
          \A o \in Operations : operation[o] \in Unfinished =>
              task[o].pc \notin {"free", "incident"}
    /\ \A a \in Attempts : recon[a] \in {"completed", "failed", "unsafe"} =>
          \E p \in Operations : LatestOperation(p)

(* The credential is marked in use exactly while something holds it, so a  *)
(* crash can tell; a quarantined one is never taken for verified.          *)
CredentialHonest ==
    /\ ~LockFree => worker = "IN_USE"
    /\ phase = "up" /\ worker = "IN_USE" => ~LockFree
    /\ worker = "QUARANTINED" => auth = "AUTH_REQUIRED"

(* The service keeps its promise about every attempt: submitted once and   *)
(* not beside one in doubt, recorded as what it is, and for good.  Not     *)
(* covered are an attempt set_enabled cancelled in flight, which its task  *)
(* brings back to life, and a completion a shutdown cuts off.              *)
Promise == INSTANCE ActivationPromise WITH
    record <- [a \in Attempts |->
                 IF a \in revoked \cup cutOff THEN "excused" ELSE
                 CASE state[a] = "ABSENT"            -> "none"
                   [] state[a] = "CANCELLED"         -> "withdrawn"
                   [] state[a] \in Completed         -> "succeeded"
                   [] state[a] = "FAILED_DEFINITE"   -> "failed"
                   [] state[a] = "AMBIGUOUS"         -> "doubtful"
                   [] state[a] = "AMBIGUOUS_CLOSED"  -> "reviewed"
                   [] OTHER                          -> "open"]
KeepsPromise == Promise!Spec

(* Every attempt in flight comes to rest: no task waits for the credential *)
(* or for upstream for ever, and a crash leaves none behind.  A shutdown   *)
(* may: the attempt of a task it cancels where nothing records the outcome *)
(* stays as it is until the next start.                                    *)
EveryAttemptSettles ==
    \A a \in Attempts :
        (state[a] \in InFlight) ~> (state[a] \notin InFlight \/ phase = "closing")

(* Every activation.run operation ends, so that who polls it gets told, or *)
(* the process is shut down.                                               *)
EveryOperationEnds ==
    \A o \in Operations :
        (operation[o] \in {"QUEUED", "RUNNING"}) ~>
            (operation[o] \notin {"QUEUED", "RUNNING"} \/ phase = "closing")

(* A refresh ends, so that later requests are not coalesced into a dead one.*)
EveryRefreshEnds == (refresh # "idle") ~> (refresh = "idle")

(* Startup reconciliation comes to an end and the service opens.           *)
StartupEnds == (phase = "starting") ~> (phase = "up")

(* A plan that is due does not wait for ever in an account that may run it:*)
(* it starts, or something stands in its way.                              *)
Runnable(a) ==
    /\ phase = "up"
    /\ state[a] = "PLANNED" /\ window[a].due <= now
    /\ enabled /\ ~deleted /\ auth = "VERIFIED"
    /\ ~Exhausted(usage.used) /\ activation \notin Blocked
    /\ ~Some(Open)
    /\ operation[MaxOperations] = "ABSENT"
DuePlanStarts == \A a \in Attempts : Runnable(a) ~> ~Runnable(a)
=============================================================================
