----------------------- MODULE ActivationPromiseProofs -----------------------
(***************************************************************************)
(* More about Activation, for every value of its constants: it implements  *)
(* ActivationPromise, one attempt is in flight at a time, and the mark of  *)
(* an interrupted use of the credential is honest.                         *)
(***************************************************************************)
EXTENDS ActivationProofs

(* The credential lock has at most one holder: a task, the refresh, or the *)
(* reconciliation of one attempt.                                          *)
LockExclusive ==
    /\ \A o, p \in Operations :
           task[o].pc \in Managed /\ task[p].pc \in Managed => o = p
    /\ \A a, b \in Attempts :
           recon[a] = "reading" /\ recon[b] = "reading" => a = b
    /\ refresh = "reading" =>
          /\ \A o \in Operations : task[o].pc \notin Managed
          /\ \A a \in Attempts : recon[a] # "reading"
    /\ \A o \in Operations, a \in Attempts :
           ~(task[o].pc \in Managed /\ recon[a] = "reading")

(* CredentialHonest, at startup as well as while the service is up, and    *)
(* that the lock excludes: who gives the credential back is the only one   *)
(* that held it.                                                           *)
CredentialInv ==
    /\ LockExclusive
    /\ ~LockFree => worker = "IN_USE"
    /\ phase # "closing" /\ worker = "IN_USE" => ~LockFree
    /\ worker = "QUARANTINED" => auth = "AUTH_REQUIRED"
-----------------------------------------------------------------------------
(* The credential lock is taken and given back together with the mark in   *)
(* worker_state, by a task, a refresh and reconciliation alike; only a     *)
(* shutdown may leave the mark behind, and a crash makes it QUARANTINED.   *)
LEMMA CredentialStep ==
    ASSUME TypeOK, NoTaskYet, CredentialInv, [Next]_vars
    PROVE  CredentialInv'
<1>. USE DEF CredentialInv, LockExclusive, LockFree
<1>1. CASE Tick
  BY <1>1 DEF Tick, accountVars, taskVars, helperVars, processVars
<1>2. ASSUME NEW a \in Attempts, UpstreamEnds(a)
      PROVE  CredentialInv'
  BY <1>2 DEF UpstreamEnds, accountVars, taskVars, helperVars, processVars
<1>3. ASSUME NEW o \in Operations, Claim(o)
      PROVE  CredentialInv'
  BY <1>3 DEF Claim, helperVars, processVars, Managed, NextOperation,
     NoTaskYet, NoTask
<1>4. ASSUME NEW o \in Operations, ActivateRequest(o)
      PROVE  CredentialInv'
  BY <1>4 DEF ActivateRequest, Goto, accountVars, helperVars, processVars,
     Managed, NextOperation, NoTaskYet, NoTask
<1>5. ASSUME NEW o \in Operations, ActivateAdmit(o)
      PROVE  CredentialInv'
  BY <1>5 DEF ActivateAdmit, AdmitPlanned, AdmitAttempt, AdmitNew,
     RejectDuplicate, Return, NoTask, accountVars, helperVars, processVars,
     Managed, TypeOK, TaskType, Task
<1>6. ASSUME NEW o \in Operations, Start(o) \/ MarkDispatching(o) \/
             SendTurn(o) \/ AcceptTurn(o)
      PROVE  CredentialInv'
  <2>1. UNCHANGED <<auth, worker, refresh, phase, recon>>
    BY <1>6 DEF Start, MarkDispatching, SendTurn, AcceptTurn, accountVars,
       helperVars, processVars
  <2>2. \A p \in Operations : task'[p].pc \in Managed <=> task[p].pc \in Managed
    BY <1>6 DEF Start, MarkDispatching, SendTurn, AcceptTurn, Goto, Managed,
       TypeOK, TaskType, Task
  <2>. QED
    BY <2>1, <2>2
<1>7. ASSUME NEW o \in Operations, Precheck(o) \/ CreateThread(o) \/
             Recheck(o) \/ TurnReply(o)
      PROVE  CredentialInv'
  BY <1>7 DEF Precheck, CreateThread, Recheck, TurnReply, Goto, Raise,
     accountVars, helperVars, processVars, Managed, TypeOK, TaskType, Task
<1>8. ASSUME NEW o \in Operations, Acquire(o) \/ Boot(o)
      PROVE  CredentialInv'
  BY <1>8 DEF Acquire, Boot, Managed, Goto, Raise, helperVars, processVars,
     TypeOK, TaskType, Task
<1>9. ASSUME NEW o \in Operations, AwaitTurn(o)
      PROVE  CredentialInv'
  BY <1>9 DEF AwaitTurn, TurnOutcome, Notified, Goto, Raise, accountVars,
     helperVars, processVars, Managed, TypeOK, TaskType, Task
<1>10. ASSUME NEW o \in Operations, Finish(o)
      PROVE  CredentialInv'
  BY <1>10 DEF Finish, Goto, AfterFinish, Raise, helperVars, Managed,
     Quarantine, TypeOK, TaskType, Task
<1>11. ASSUME NEW o \in Operations, Complete(o) \/ OpenIncident(o)
      PROVE  CredentialInv'
  <2>1. UNCHANGED <<auth, worker, refresh, phase, recon>>
    BY <1>11 DEF Complete, OpenIncident, helperVars, processVars
  <2>2. \A p \in Operations : task'[p].pc \in Managed <=> task[p].pc \in Managed
    BY <1>11 DEF Complete, OpenIncident, Return, NoTask, Managed, TypeOK,
       TaskType
  <2>. QED
    BY <2>1, <2>2
<1>12. ASSUME NEW o \in Operations, HandleIneligible(o)
      PROVE  CredentialInv'
  BY SMTT(30), <1>12 DEF HandleIneligible, Pause, Return, NoTask, Goto, helperVars,
     processVars, Managed, TypeOK, TaskType, Task
<1>13. ASSUME NEW o \in Operations, RecordFailure(o)
      PROVE  CredentialInv'
  BY <1>13 DEF RecordFailure, Goto, Return, NoTask, helperVars, processVars,
     Managed, TypeOK, TaskType, Task
<1>14. ASSUME NEW p \in Planners, ResolveIncident(p) \/ PlanCreate(p)
      PROVE  CredentialInv'
  BY <1>14 DEF ResolveIncident, PlanCreate, taskVars, processVars
<1>15. ASSUME NEW p \in Planners, PlanAccount(p) \/ PlanEvidence(p)
      PROVE  CredentialInv'
  BY <1>15 DEF PlanAccount, PlanEvidence, accountVars, taskVars, processVars
<1>16. CASE RefreshAcquire \/ RecordUsageFailure \/ Enable \/ Acknowledge
  BY <1>16 DEF RefreshAcquire, RecordUsageFailure, Enable, Acknowledge,
     taskVars, processVars
<1>17. CASE RefreshRead
  BY <1>17 DEF RefreshRead, taskVars, Quarantine
<1>18. CASE CommitUsage \/ RefreshStart
  BY <1>18 DEF CommitUsage, RefreshStart, accountVars, taskVars, processVars
<1>19. CASE Disable
  BY <1>19 DEF Disable, helperVars, processVars
<1>20. CASE Delete \/ RecoverCredential \/ Reauthenticate
  BY <1>20 DEF Delete, RecoverCredential, Reauthenticate, SignInStarts,
     taskVars, helperVars, processVars
<1>29. CASE SignInLost
  BY <1>29 DEF SignInLost, SignInStarts, Quarantine, taskVars, helperVars
<1>21. CASE Restart
  BY <1>21 DEF Restart, NoTask, CredentialUncertain, Managed
<1>22. ASSUME NEW a \in Attempts, ReconcileStart(a)
      PROVE  CredentialInv'
  BY <1>22 DEF ReconcileStart, ReconAt, taskVars, helperVars, TypeOK,
     ProcessType
<1>23. ASSUME NEW a \in Attempts, ReconcileRead(a)
      PROVE  CredentialInv'
  BY <1>23 DEF ReconcileRead, ReconAt, taskVars, helperVars, Quarantine,
     Proof, TypeOK, ProcessType
<1>24. ASSUME NEW a \in Attempts, ReconcileSettle(a)
      PROVE  CredentialInv'
  BY <1>24 DEF ReconcileSettle, ReconAt, helperVars, TypeOK, ProcessType
<1>25. ASSUME NEW a \in Attempts, ReconcileAnnounce(a)
      PROVE  CredentialInv'
  BY <1>25 DEF ReconcileAnnounce, ReconAt, taskVars, helperVars
<1>26. CASE ReconcileDone
  BY <1>26 DEF ReconcileDone, taskVars, helperVars
<1>27. CASE Close
  <2>1. ASSUME NEW o \in Operations
        PROVE  task'[o].pc \in Managed <=> task[o].pc \in Managed \ {"boot"}
    BY <1>27 DEF Close, Cancelled, NoTask, Managed, TypeOK, TaskType, Task
  <2>2. /\ refresh' = "reading" <=> refresh = "reading"
        /\ phase' = "closing" /\ UNCHANGED <<auth, recon>>
    BY <1>27 DEF Close
  <2>3. CASE /\ NoJobRuns
             /\ worker' = IF \E o \in Operations : task[o].pc = "boot"
                          THEN "STOPPED" ELSE worker
    BY <2>1, <2>2, <2>3 DEF Managed
  <2>4. CASE worker' = "IN_USE"
    BY <2>1, <2>2, <2>4
  <2>5. CASE UNCHANGED worker
    BY <2>1, <2>2, <2>5
  <2>. QED
    BY <1>27, <2>3, <2>4, <2>5 DEF Close
<1>28. CASE UNCHANGED vars
  BY <1>28 DEF vars, accountVars, taskVars, helperVars, processVars
<1>. QED
  BY <1>1, <1>2, <1>3, <1>4, <1>5, <1>6, <1>7, <1>8, <1>9, <1>10, <1>11,
     <1>12, <1>13, <1>14, <1>15, <1>16, <1>17, <1>18, <1>19, <1>20, <1>21,
     <1>22, <1>23, <1>24, <1>25, <1>26, <1>27, <1>28, <1>29 DEF Next, TaskStep,
     RefreshStep, PlannerStep, OperatorStep, ReconcileStep

-----------------------------------------------------------------------------
(* A task that has been admitted works for an attempt in flight, and the   *)
(* row says how far it has come; unless set_enabled cancelled the attempt  *)
(* under it, or a shutdown cut its completion off.                         *)
Flies(t) ==
    t.pc \notin {"free", "created", "incident"} =>
        \/ /\ state[t.of] \in InFlight
           /\ t.pc \in {"recheck", "mark"} => state[t.of] = "THREAD_CREATED"
           /\ t.pc \in {"send", "reply", "accept"} => state[t.of] \in Submitted
        \/ t.of \in revoked
        \/ t.pc = "fail" /\ t.of \in cutOff
TaskFlying == \A o \in Operations : Flies(task[o])

(* A task that goes to record a completion or a definite failure has it    *)
(* from upstream.                                                          *)
Knows(t) ==
    /\ \/ t.pc = "complete"
       \/ t.pc = "finish" /\ t.error = "none"
       => turn[t.of] = "completed"
    /\ t.pc \in {"finish", "pause", "fail"} /\ t.error = "definite"
       => turn[t.of] \in {"refused", "failed"}
TaskKnows == \A o \in Operations : Knows(task[o])

(* At most one attempt is open, in flight or in doubt.                     *)
OneOpen ==
    \A a, b \in Attempts \ revoked :
        state[a] \in Open /\ state[b] \in Open => a = b

(* What the rows and the counters say of the turn: there is none for an    *)
(* attempt that is not sent, or is not recorded as being dispatched.       *)
EarlyUnsent ==
    \A a \in Attempts \ revoked : state[a] \in Early => turn[a] = "none"
TurnsSent == \A a \in Attempts : sends[a] = 0 => turn[a] = "none"

(* Reconciliation works while there are no tasks, on attempts in doubt,    *)
(* and settles them as the thread it has read shows.                       *)
NoTasksAtStart == phase = "starting" => \A o \in Operations : task[o] = NoTask
ReconKnows ==
    \A a \in Attempts :
        /\ recon[a] # "no" => phase = "starting" /\ state[a] = "AMBIGUOUS"
        /\ recon[a] = "completed" => turn[a] = "completed"
        /\ recon[a] = "failed" => turn[a] = "failed"

(* What the promise does not cover are attempts that exist.                *)
ExcusedRows == \A a \in revoked \cup cutOff : state[a] # "ABSENT"

(* OneInFlightUnlessRevoked needs all of this: an attempt in doubt counts  *)
(* as open, and a task may only bring its own row back to flight.          *)
PromiseInv ==
    /\ TaskFlying /\ TaskKnows
    /\ OneOpen
    /\ EarlyUnsent /\ TurnsSent
    /\ NoTasksAtStart /\ ReconKnows
    /\ ExcusedRows
-----------------------------------------------------------------------------
(* What ActivationPromise allows to happen to one attempt, in terms of its *)
(* row and its turn: it is excused from now on, or what is recorded is     *)
(* true of the turn and the turn is submitted beside no doubtful one.      *)
Pending == {"PLANNED"} \cup InFlight

RowMoves(a) ==
    \/ state'[a] = state[a]
    \/ state[a] = "ABSENT" /\ state'[a] \in Pending
    \/ state[a] \in Pending /\ state'[a] \in Pending \cup {"AMBIGUOUS"}
    \/ state[a] \in Pending /\ state'[a] = "CANCELLED" /\ turn[a] = "none"
    \/ /\ state[a] \in Pending \cup {"AMBIGUOUS"} /\ state'[a] \in Completed
       /\ turn[a] = "completed"
    \/ /\ state[a] \in Pending /\ state'[a] = "FAILED_DEFINITE"
       /\ turn[a] \in {"none", "refused", "failed"}
    \/ /\ state[a] = "AMBIGUOUS" /\ state'[a] = "FAILED_DEFINITE"
       /\ turn[a] = "failed"
    \/ state[a] = "AMBIGUOUS" /\ state'[a] = "AMBIGUOUS_CLOSED"

TurnMoves(a) ==
    \/ turn'[a] = turn[a]
    \/ turn[a] = "running" /\ turn'[a] \in {"completed", "failed", "unsafe", "refused"}
    \/ /\ turn[a] = "none" /\ turn'[a] = "running"
       /\ state[a] \in Pending /\ state'[a] \in Pending
       /\ \A b \in Attempts \ {a} : b \in revoked \/ state[b] # "AMBIGUOUS"

Honours(a) == a \in revoked' \cup cutOff' \/ (RowMoves(a) /\ TurnMoves(a))
Honoured ==
    /\ revoked \subseteq revoked' /\ cutOff \subseteq cutOff'
    /\ \A a \in revoked' \cup cutOff' : state[a] # "ABSENT"
    /\ \A a \in Attempts : Honours(a)

(* Where nothing is open, rows change among plans only: they are planned   *)
(* or withdrawn.                                                           *)
Withdrawn(a) == state[a] = "PLANNED" /\ state'[a] = "CANCELLED"
PlansMove ==
    \A a \in Attempts :
        \/ state'[a] = state[a]
        \/ state[a] = "ABSENT" /\ state'[a] = "PLANNED"
        \/ Withdrawn(a)

(* Nothing was sent for a plan, so withdrawing it is within the promise.   *)
LEMMA WithdrawnHonours ==
    ASSUME UnsentPlans, TurnsSent, NEW a \in Attempts,
           turn'[a] = turn[a], state'[a] = state[a] \/ Withdrawn(a)
    PROVE  Honours(a)
BY DEF UnsentPlans, TurnsSent, Withdrawn, Honours, RowMoves, TurnMoves,
   Pending

(* What the planner, a refresh and most commands of the operator do leaves *)
(* every attempt that a task or reconciliation works on as it is.          *)
LEMMA PlansInv ==
    ASSUME SubmissionInv, PromiseInv, PlansMove,
           UNCHANGED <<task, turn, sends, revoked, cutOff>>,
           UNCHANGED <<recon, phase>> \/ (ReconKnows' /\ NoTasksAtStart')
    PROVE  PromiseInv' /\ Honoured
<1>. USE DEF PromiseInv, PlansMove, Withdrawn
<1>t. /\ \A o \in Operations : task[o].of # 0 => task[o].of \in Attempts
      /\ revoked \subseteq Attempts /\ cutOff \subseteq Attempts
      /\ \A o \in Operations : task[o].pc \notin {"free", "created"} =>
             task[o].of \in Attempts
  BY DEF SubmissionInv, TypeOK, TaskType, Task, HistoryType, TaskOwnsAttempt
<1>1. TaskFlying'
  BY <1>t DEF TaskFlying, Flies, InFlight, Early, Submitted
<1>2. TaskKnows'
  BY DEF TaskKnows, Knows
<1>3. OneOpen' /\ EarlyUnsent' /\ TurnsSent'
  BY DEF OneOpen, EarlyUnsent, TurnsSent, Open, InFlight, Early, Submitted
<1>4. NoTasksAtStart' /\ ReconKnows'
  BY DEF NoTasksAtStart, ReconKnows
<1>5. ExcusedRows'
  BY <1>t DEF ExcusedRows
<1>6. Honoured
  BY WithdrawnHonours DEF SubmissionInv, ExcusedRows, Honoured, Honours,
     RowMoves, TurnMoves, Pending
<1>. QED
  BY <1>1, <1>2, <1>3, <1>4, <1>5, <1>6

(* The step of a task that has an attempt: it keeps the invariant if it    *)
(* does for that task and its row, since no other task works on the row    *)
(* and reconciliation does not run beside tasks.                           *)
LEMMA TaskInv ==
    ASSUME SubmissionInv, PromiseInv, NEW o \in Operations, NEW a \in Attempts,
           a = task[o].of,
           \A p \in Operations \ {o} : task'[p] = task[p],
           \A b \in Attempts \ {a} :
               /\ turn'[b] = turn[b] /\ sends'[b] = sends[b]
               /\ (state'[b] = state[b] \/ Withdrawn(b)),
           UNCHANGED <<revoked, cutOff, recon, phase>>,
           state'[a] # "ABSENT",
           state'[a] \in Open => state[a] \in Open \/ a \in revoked,
           state'[a] \in Early => turn'[a] = "none" \/ a \in revoked,
           sends'[a] = 0 => turn'[a] = "none",
           Flies(task[o])', Knows(task[o])',
           Honours(a)
    PROVE  PromiseInv' /\ Honoured
<1>. USE DEF PromiseInv, Withdrawn
<1>t. /\ \A p \in Operations : task[p].of # 0 => task[p].of \in Attempts
      /\ revoked \subseteq Attempts /\ cutOff \subseteq Attempts
      /\ \A p \in Operations : task[p].pc \notin {"free", "created"} =>
             task[p].of \in Attempts
      /\ a # 0
  BY Positive DEF SubmissionInv, TypeOK, TaskType, Task, HistoryType,
     TaskOwnsAttempt
<1>a. \A p \in Operations \ {o} : task[p].of # a
  BY <1>t DEF SubmissionInv, TasksApart
<1>b. phase # "starting"
  BY <1>t DEF NoTasksAtStart, NoTask
<1>1. TaskFlying'
  <2>1. ASSUME NEW p \in Operations \ {o}
        PROVE  Flies(task[p])'
    BY <1>t, <1>a DEF TaskFlying, Flies, InFlight, Early, Submitted
  <2>. QED
    BY <2>1 DEF TaskFlying
<1>2. TaskKnows'
  <2>1. ASSUME NEW p \in Operations \ {o}
        PROVE  Knows(task[p])'
    BY <1>t, <1>a DEF TaskKnows, Knows, SubmissionInv
  <2>. QED
    BY <2>1 DEF TaskKnows
<1>3. OneOpen'
  BY DEF OneOpen, Open, InFlight, Early, Submitted
<1>4. EarlyUnsent' /\ TurnsSent'
  BY DEF EarlyUnsent, TurnsSent, Early
<1>5. NoTasksAtStart' /\ ReconKnows'
  BY <1>b DEF NoTasksAtStart, ReconKnows
<1>6. ExcusedRows'
  BY <1>t DEF ExcusedRows
<1>7. Honoured
  BY WithdrawnHonours DEF SubmissionInv, ExcusedRows, Honoured
<1>. QED
  BY <1>1, <1>2, <1>3, <1>4, <1>5, <1>6, <1>7

(* An admitted attempt is the only one open, and its task starts unsent.   *)
LEMMA AdmissionInv ==
    ASSUME SubmissionInv, PromiseInv, NEW o \in Operations, NEW a \in Attempts,
           phase # "starting", ~Some(Open),
           state[a] \in {"ABSENT", "PLANNED"},
           state' = [state EXCEPT ![a] = "QUEUED"],
           task'[o].pc = "queued", task'[o].of = a, task'[o].error = "none",
           \A p \in Operations \ {o} : task'[p] = task[p],
           UNCHANGED <<turn, sends, revoked, cutOff, recon, phase>>
    PROVE  PromiseInv' /\ Honoured
<1>. USE DEF PromiseInv
<1>t. /\ \A p \in Operations : task[p].of # 0 => task[p].of \in Attempts
      /\ revoked \subseteq Attempts /\ cutOff \subseteq Attempts
      /\ state \in [Attempts -> AttemptStates]
      /\ \A p \in Operations : task[p].pc \notin {"free", "created"} =>
             task[p].of \in Attempts /\ task[p].of # a
  BY DEF SubmissionInv, TypeOK, TaskType, AttemptType, Task, HistoryType,
     TaskOwnsAttempt
<1>u. turn[a] = "none"
  BY DEF SubmissionInv, UnsentPlans, TurnsSent
<1>1. TaskFlying'
  <2>1. Flies(task[o])'
    BY <1>t DEF Flies, InFlight, Early
  <2>2. ASSUME NEW p \in Operations \ {o}
        PROVE  Flies(task[p])'
    BY <1>t DEF TaskFlying, Flies
  <2>. QED
    BY <2>1, <2>2 DEF TaskFlying
<1>2. TaskKnows'
  BY DEF TaskKnows, Knows
<1>3. OneOpen'
  BY <1>t DEF OneOpen, Some
<1>4. EarlyUnsent' /\ TurnsSent'
  BY <1>t, <1>u DEF EarlyUnsent, TurnsSent
<1>5. NoTasksAtStart' /\ ReconKnows'
  BY <1>t DEF NoTasksAtStart, ReconKnows
<1>6. ExcusedRows'
  BY <1>t DEF ExcusedRows
<1>7. Honoured
  BY <1>t DEF ExcusedRows, Honoured, Honours, RowMoves, TurnMoves, Pending,
     InFlight, Early
<1>. QED
  BY <1>1, <1>2, <1>3, <1>4, <1>5, <1>6, <1>7

(* A task that close() cancels ends, or goes on to its clean-up or failure *)
(* with no completion and no definite failure it did not have before.      *)
LEMMA CancelledOutcome ==
    ASSUME NEW t \in Task
    PROVE  \/ t.pc \in {"free", "created"} /\ Cancelled(t) = t
           \/ Cancelled(t) = NoTask
           \/ /\ Cancelled(t).of = t.of
              /\ t.pc \notin {"free", "created", "incident", "fail"}
              /\ \/ Cancelled(t).pc = "fail" /\ Cancelled(t).error = "other"
                 \/ /\ Cancelled(t).pc = "finish" /\ Cancelled(t).error # "none"
                    /\ t.pc # "complete"
                    /\ Cancelled(t).error = "definite" =>
                          t.pc = "finish" /\ t.error = "definite"
<1>. USE DEF Cancelled, Managed
<1>0. PICK pc \in Steps, of \in Attempts \cup {0}, error \in Errors :
         t = [pc |-> pc, of |-> of, error |-> error]
  BY DEF Task
<1>1. CASE pc \in {"queued", "precheck", "waiting", "complete", "boot"}
  BY <1>0, <1>1
<1>2. CASE pc \in Managed \ {"boot", "finish"}
  BY <1>0, <1>2
<1>3. CASE pc = "finish"
  BY <1>0, <1>3
<1>4. CASE pc \in {"pause", "fail", "incident"}
  BY <1>0, <1>4
<1>5. CASE pc \in {"free", "created"}
  BY <1>0, <1>5
<1>. QED
  BY <1>0, <1>1, <1>2, <1>3, <1>4, <1>5 DEF Steps

(* Every step keeps it.                                                    *)
LEMMA PromiseStep ==
    ASSUME SubmissionInv, PromiseInv, [Next]_vars
    PROVE  PromiseInv' /\ Honoured
<1>t. /\ TypeOK /\ TaskOwnsAttempt
      /\ task \in [Operations -> Task] /\ state \in [Attempts -> AttemptStates]
      /\ turn \in [Attempts -> {"none", "running", "completed", "failed",
                                "unsafe", "refused"}]
      /\ sends \in [Attempts -> Nat] /\ recon \in [Attempts -> ReconSteps]
      /\ revoked \subseteq Attempts /\ cutOff \subseteq Attempts
  BY DEF SubmissionInv, TypeOK, TaskType, AttemptType, UpstreamType,
     ProcessType, HistoryType
<1>i. /\ TaskFlying /\ TaskKnows /\ OneOpen /\ EarlyUnsent /\ TurnsSent
      /\ NoTasksAtStart /\ ReconKnows /\ ExcusedRows
  BY DEF PromiseInv
<1>p. \A o \in Operations :
          task[o].pc \notin {"free", "created"} =>
              /\ task[o].of \in Attempts
              /\ state[task[o].of] \notin {"ABSENT", "PLANNED"}
              /\ Flies(task[o]) /\ Knows(task[o])
  BY <1>t, <1>i DEF TaskOwnsAttempt, TaskFlying, TaskKnows
<1>u. \A o \in Operations :
          task[o].pc \in BeforeSend => turn[task[o].of] = "none"
  BY <1>p, <1>i DEF BeforeSend, SubmissionInv, UnsentTasks, Unsent, TurnsSent
<1>1. CASE Tick
  <2>1. /\ PlansMove
        /\ UNCHANGED <<task, turn, sends, revoked, cutOff, recon, phase>>
    BY <1>1 DEF Tick, PlansMove, attemptVars, taskVars, processVars,
       upstreamVars, historyVars
  <2>. QED
    BY <2>1, PlansInv
<1>2. ASSUME NEW p \in Planners,
             ResolveIncident(p) \/ PlanAccount(p) \/ PlanEvidence(p)
      PROVE  PromiseInv' /\ Honoured
  <2>1. /\ PlansMove
        /\ UNCHANGED <<task, turn, sends, revoked, cutOff, recon, phase>>
    BY <1>2 DEF ResolveIncident, PlanAccount, PlanEvidence, PlansMove,
       attemptVars, taskVars, processVars, upstreamVars, historyVars
  <2>. QED
    BY <2>1, PlansInv
<1>3. ASSUME NEW p \in Planners, PlanCreate(p)
      PROVE  PromiseInv' /\ Honoured
  <2>1. /\ PlansMove
        /\ UNCHANGED <<task, turn, sends, revoked, cutOff, recon, phase>>
    BY <1>3, <1>t DEF PlanCreate, PlanInsert, NextAttempt, PlansMove,
       taskVars, processVars, upstreamVars, historyVars
  <2>. QED
    BY <2>1, PlansInv
<1>38. CASE SignInLost
  <2>1. /\ PlansMove
        /\ UNCHANGED <<task, turn, sends, revoked, cutOff, recon, phase>>
    BY <1>38 DEF SignInLost, Quarantine, Moved, PlansMove, Withdrawn, taskVars,
       upstreamVars, historyVars
  <2>. QED
    BY <2>1, PlansInv
<1>4. CASE RefreshAcquire \/ RefreshRead \/ CommitUsage
  <2>1. /\ PlansMove
        /\ UNCHANGED <<task, turn, sends, revoked, cutOff, recon, phase>>
    BY <1>4 DEF RefreshAcquire, RefreshRead, CommitUsage, Quarantine, Moved,
       PlansMove, Withdrawn, attemptVars, taskVars, processVars, upstreamVars,
       historyVars
  <2>. QED
    BY <2>1, PlansInv
<1>5. CASE RecordUsageFailure
  <2>1. /\ PlansMove
        /\ UNCHANGED <<task, turn, sends, revoked, cutOff, recon, phase>>
    BY <1>5 DEF RecordUsageFailure, Moved, PlansMove, Withdrawn, taskVars,
       processVars, upstreamVars, historyVars
  <2>. QED
    BY <2>1, PlansInv
<1>6. CASE Enable \/ Delete \/ RecoverCredential
  <2>1. /\ PlansMove
        /\ UNCHANGED <<task, turn, sends, revoked, cutOff, recon, phase>>
    BY <1>6 DEF Enable, Delete, RecoverCredential, PlansMove, attemptVars,
       taskVars, processVars, upstreamVars, historyVars
  <2>. QED
    BY <2>1, PlansInv
<1>7. CASE Reauthenticate \/ RefreshStart
  <2>1. /\ PlansMove
        /\ UNCHANGED <<task, turn, sends, revoked, cutOff, recon, phase>>
    BY <1>7 DEF Reauthenticate, RefreshStart, PlansMove, attemptVars,
       taskVars, processVars, upstreamVars, historyVars
  <2>. QED
    BY <2>1, PlansInv
<1>8. CASE UNCHANGED vars
  <2>1. /\ PlansMove
        /\ UNCHANGED <<task, turn, sends, revoked, cutOff, recon, phase>>
    BY <1>8 DEF vars, PlansMove, attemptVars, taskVars, processVars,
       upstreamVars, historyVars
  <2>. QED
    BY <2>1, PlansInv
<1>9. ASSUME NEW o \in Operations, Start(o)
      PROVE  PromiseInv' /\ Honoured
  <2>. DEFINE a == task[o].of
  <2>1. /\ a \in Attempts /\ state[a] \notin {"ABSENT", "PLANNED"}
        /\ Flies(task[o]) /\ Knows(task[o])
    BY <1>9, <1>p DEF Start
  <2>2. /\ \A p \in Operations \ {o} : task'[p] = task[p]
        /\ UNCHANGED <<revoked, cutOff, recon, phase>>
        /\ \A b \in Attempts \ {a} :
              /\ turn'[b] = turn[b] /\ sends'[b] = sends[b]
              /\ state'[b] = state[b] \/ Withdrawn(b)
    BY <1>9 DEF Start, Goto, attemptVars, processVars, upstreamVars,
       historyVars
  <2>3. /\ state'[a] # "ABSENT"
        /\ state'[a] \in Open => state[a] \in Open \/ a \in revoked
        /\ state'[a] \in Early => turn'[a] = "none" \/ a \in revoked
        /\ sends'[a] = 0 => turn'[a] = "none"
    BY <1>9, <1>u, <2>1 DEF Start, attemptVars, upstreamVars, BeforeSend
  <2>4. Flies(task[o])' /\ Knows(task[o])'
    BY <1>9, <2>1 DEF Start, Goto, attemptVars, historyVars, Flies, Knows
  <2>5. Honours(a)
    <3>1. CASE a \in revoked \cup cutOff
      BY <2>1, <2>2, <3>1 DEF Honours
    <3>2. CASE a \notin revoked \cup cutOff
      BY <1>9 DEF Start, attemptVars, upstreamVars, Honours, RowMoves,
         TurnMoves
    <3>. QED
      BY <3>1, <3>2
  <2>. QED
    BY <2>1, <2>2, <2>3, <2>4, <2>5, TaskInv
<1>10. ASSUME NEW o \in Operations, Precheck(o)
      PROVE  PromiseInv' /\ Honoured
  <2>. DEFINE a == task[o].of
  <2>1. /\ a \in Attempts /\ state[a] \notin {"ABSENT", "PLANNED"}
        /\ Flies(task[o]) /\ Knows(task[o])
    BY <1>10, <1>p DEF Precheck
  <2>2. /\ \A p \in Operations \ {o} : task'[p] = task[p]
        /\ UNCHANGED <<revoked, cutOff, recon, phase>>
        /\ \A b \in Attempts \ {a} :
              /\ turn'[b] = turn[b] /\ sends'[b] = sends[b]
              /\ state'[b] = state[b] \/ Withdrawn(b)
    BY <1>10, <1>t DEF Precheck, Goto, Raise, attemptVars, processVars,
       upstreamVars, historyVars
  <2>3. /\ state'[a] # "ABSENT"
        /\ state'[a] \in Open => state[a] \in Open \/ a \in revoked
        /\ state'[a] \in Early => turn'[a] = "none" \/ a \in revoked
        /\ sends'[a] = 0 => turn'[a] = "none"
    BY <1>10, <1>u, <2>1 DEF Precheck, attemptVars, upstreamVars, BeforeSend
  <2>4. Flies(task[o])' /\ Knows(task[o])'
    BY <1>10, <1>t, <2>1 DEF Precheck, Goto, Raise, attemptVars, historyVars,
       Flies, Knows, Task
  <2>5. Honours(a)
    <3>1. CASE a \in revoked \cup cutOff
      BY <2>1, <2>2, <3>1 DEF Honours
    <3>2. CASE a \notin revoked \cup cutOff
      BY <1>10 DEF Precheck, attemptVars, upstreamVars, Honours, RowMoves,
         TurnMoves
    <3>. QED
      BY <3>1, <3>2
  <2>. QED
    BY <2>1, <2>2, <2>3, <2>4, <2>5, TaskInv
<1>11. ASSUME NEW o \in Operations, Acquire(o)
      PROVE  PromiseInv' /\ Honoured
  <2>. DEFINE a == task[o].of
  <2>1. /\ a \in Attempts /\ state[a] \notin {"ABSENT", "PLANNED"}
        /\ Flies(task[o]) /\ Knows(task[o])
    BY <1>11, <1>p DEF Acquire
  <2>2. /\ \A p \in Operations \ {o} : task'[p] = task[p]
        /\ UNCHANGED <<revoked, cutOff, recon, phase>>
        /\ \A b \in Attempts \ {a} :
              /\ turn'[b] = turn[b] /\ sends'[b] = sends[b]
              /\ state'[b] = state[b] \/ Withdrawn(b)
    BY <1>11, <1>t DEF Acquire, Goto, Raise, attemptVars, processVars,
       upstreamVars, historyVars
  <2>3. /\ state'[a] # "ABSENT"
        /\ state'[a] \in Open => state[a] \in Open \/ a \in revoked
        /\ state'[a] \in Early => turn'[a] = "none" \/ a \in revoked
        /\ sends'[a] = 0 => turn'[a] = "none"
    BY <1>11, <1>u, <2>1 DEF Acquire, attemptVars, upstreamVars, BeforeSend
  <2>4. Flies(task[o])' /\ Knows(task[o])'
    BY <1>11, <1>t, <2>1 DEF Acquire, Goto, Raise, attemptVars, historyVars,
       Flies, Knows, Task
  <2>5. Honours(a)
    <3>1. CASE a \in revoked \cup cutOff
      BY <2>1, <2>2, <3>1 DEF Honours
    <3>2. CASE a \notin revoked \cup cutOff
      BY <1>11 DEF Acquire, attemptVars, upstreamVars, Honours, RowMoves,
         TurnMoves
    <3>. QED
      BY <3>1, <3>2
  <2>. QED
    BY <2>1, <2>2, <2>3, <2>4, <2>5, TaskInv
<1>12. ASSUME NEW o \in Operations, Boot(o)
      PROVE  PromiseInv' /\ Honoured
  <2>. DEFINE a == task[o].of
  <2>1. /\ a \in Attempts /\ state[a] \notin {"ABSENT", "PLANNED"}
        /\ Flies(task[o]) /\ Knows(task[o])
    BY <1>12, <1>p DEF Boot
  <2>2. /\ \A p \in Operations \ {o} : task'[p] = task[p]
        /\ UNCHANGED <<revoked, cutOff, recon, phase>>
        /\ \A b \in Attempts \ {a} :
              /\ turn'[b] = turn[b] /\ sends'[b] = sends[b]
              /\ state'[b] = state[b] \/ Withdrawn(b)
    BY <1>12, <1>t DEF Boot, Goto, Raise, attemptVars, processVars,
       upstreamVars, historyVars
  <2>3. /\ state'[a] # "ABSENT"
        /\ state'[a] \in Open => state[a] \in Open \/ a \in revoked
        /\ state'[a] \in Early => turn'[a] = "none" \/ a \in revoked
        /\ sends'[a] = 0 => turn'[a] = "none"
    BY <1>12, <1>u, <2>1 DEF Boot, attemptVars, upstreamVars, BeforeSend
  <2>4. Flies(task[o])' /\ Knows(task[o])'
    BY <1>12, <1>t, <2>1 DEF Boot, Goto, Raise, attemptVars, historyVars,
       Flies, Knows, Task
  <2>5. Honours(a)
    <3>1. CASE a \in revoked \cup cutOff
      BY <2>1, <2>2, <3>1 DEF Honours
    <3>2. CASE a \notin revoked \cup cutOff
      BY <1>12 DEF Boot, attemptVars, upstreamVars, Honours, RowMoves,
         TurnMoves
    <3>. QED
      BY <3>1, <3>2
  <2>. QED
    BY <2>1, <2>2, <2>3, <2>4, <2>5, TaskInv
<1>13. ASSUME NEW o \in Operations, CreateThread(o)
      PROVE  PromiseInv' /\ Honoured
  <2>. DEFINE a == task[o].of
  <2>1. /\ a \in Attempts /\ state[a] \notin {"ABSENT", "PLANNED"}
        /\ Flies(task[o]) /\ Knows(task[o])
    BY <1>13, <1>p DEF CreateThread
  <2>2. /\ \A p \in Operations \ {o} : task'[p] = task[p]
        /\ UNCHANGED <<revoked, cutOff, recon, phase>>
        /\ \A b \in Attempts \ {a} :
              /\ turn'[b] = turn[b] /\ sends'[b] = sends[b]
              /\ state'[b] = state[b] \/ Withdrawn(b)
    BY <1>13, <1>t DEF CreateThread, Goto, Raise, processVars, upstreamVars,
       historyVars
  <2>3. /\ state'[a] # "ABSENT"
        /\ state'[a] \in Open => state[a] \in Open \/ a \in revoked
        /\ state'[a] \in Early => turn'[a] = "none" \/ a \in revoked
        /\ sends'[a] = 0 => turn'[a] = "none"
    BY <1>13, <1>t, <1>u, <2>1 DEF CreateThread, upstreamVars, BeforeSend,
       Flies, Open
  <2>4. Flies(task[o])' /\ Knows(task[o])'
    BY <1>13, <1>t, <2>1 DEF CreateThread, Goto, Raise, historyVars, Flies,
       Knows, Task, InFlight, Early
  <2>5. Honours(a)
    <3>1. CASE a \in revoked \cup cutOff
      BY <2>1, <2>2, <3>1 DEF Honours
    <3>2. CASE a \notin revoked \cup cutOff
      BY <1>13, <1>t, <2>1, <3>2 DEF CreateThread, upstreamVars, Flies,
         Honours, RowMoves, TurnMoves, Pending, InFlight, Early
    <3>. QED
      BY <3>1, <3>2
  <2>. QED
    BY <2>1, <2>2, <2>3, <2>4, <2>5, TaskInv
<1>14. ASSUME NEW o \in Operations, Recheck(o)
      PROVE  PromiseInv' /\ Honoured
  <2>. DEFINE a == task[o].of
  <2>1. /\ a \in Attempts /\ state[a] \notin {"ABSENT", "PLANNED"}
        /\ Flies(task[o]) /\ Knows(task[o])
    BY <1>14, <1>p DEF Recheck
  <2>2. /\ \A p \in Operations \ {o} : task'[p] = task[p]
        /\ UNCHANGED <<revoked, cutOff, recon, phase>>
        /\ \A b \in Attempts \ {a} :
              /\ turn'[b] = turn[b] /\ sends'[b] = sends[b]
              /\ state'[b] = state[b] \/ Withdrawn(b)
    BY <1>14, <1>t DEF Recheck, Goto, Raise, attemptVars, processVars,
       upstreamVars, historyVars
  <2>3. /\ state'[a] # "ABSENT"
        /\ state'[a] \in Open => state[a] \in Open \/ a \in revoked
        /\ state'[a] \in Early => turn'[a] = "none" \/ a \in revoked
        /\ sends'[a] = 0 => turn'[a] = "none"
    BY <1>14, <1>u, <2>1 DEF Recheck, attemptVars, upstreamVars, BeforeSend
  <2>4. Flies(task[o])' /\ Knows(task[o])'
    BY <1>14, <1>t, <2>1 DEF Recheck, Goto, Raise, attemptVars, historyVars,
       Flies, Knows, Task
  <2>5. Honours(a)
    <3>1. CASE a \in revoked \cup cutOff
      BY <2>1, <2>2, <3>1 DEF Honours
    <3>2. CASE a \notin revoked \cup cutOff
      BY <1>14 DEF Recheck, attemptVars, upstreamVars, Honours, RowMoves,
         TurnMoves
    <3>. QED
      BY <3>1, <3>2
  <2>. QED
    BY <2>1, <2>2, <2>3, <2>4, <2>5, TaskInv
<1>15. ASSUME NEW o \in Operations, MarkDispatching(o)
      PROVE  PromiseInv' /\ Honoured
  <2>. DEFINE a == task[o].of
  <2>1. /\ a \in Attempts /\ state[a] \notin {"ABSENT", "PLANNED"}
        /\ Flies(task[o]) /\ Knows(task[o])
    BY <1>15, <1>p DEF MarkDispatching
  <2>2. /\ \A p \in Operations \ {o} : task'[p] = task[p]
        /\ UNCHANGED <<revoked, cutOff, recon, phase>>
        /\ \A b \in Attempts \ {a} :
              /\ turn'[b] = turn[b] /\ sends'[b] = sends[b]
              /\ state'[b] = state[b] \/ Withdrawn(b)
    BY <1>15 DEF MarkDispatching, Goto, processVars, upstreamVars, historyVars
  <2>3. /\ state'[a] # "ABSENT"
        /\ state'[a] \in Open => state[a] \in Open \/ a \in revoked
        /\ state'[a] \in Early => turn'[a] = "none" \/ a \in revoked
        /\ sends'[a] = 0 => turn'[a] = "none"
    BY <1>15, <1>u, <2>1 DEF MarkDispatching, upstreamVars, BeforeSend, Flies,
       Open
  <2>4. Flies(task[o])' /\ Knows(task[o])'
    BY <1>15, <1>t, <2>1 DEF MarkDispatching, Goto, historyVars, Flies, Knows,
       InFlight, Submitted
  <2>5. Honours(a)
    <3>1. CASE a \in revoked \cup cutOff
      BY <2>1, <2>2, <3>1 DEF Honours
    <3>2. CASE a \notin revoked \cup cutOff
      BY <1>15, <2>1, <3>2 DEF MarkDispatching, upstreamVars, Flies, Honours,
         RowMoves, TurnMoves, Pending, InFlight, Submitted
    <3>. QED
      BY <3>1, <3>2
  <2>. QED
    BY <2>1, <2>2, <2>3, <2>4, <2>5, TaskInv
<1>16. ASSUME NEW o \in Operations, SendTurn(o)
      PROVE  PromiseInv' /\ Honoured
  <2>. DEFINE a == task[o].of
  <2>1. /\ a \in Attempts /\ state[a] \notin {"ABSENT", "PLANNED"}
        /\ Flies(task[o]) /\ Knows(task[o])
    BY <1>16, <1>p DEF SendTurn
  <2>2. /\ \A p \in Operations \ {o} : task'[p] = task[p]
        /\ UNCHANGED <<revoked, cutOff, recon, phase>>
        /\ \A b \in Attempts \ {a} :
              /\ turn'[b] = turn[b] /\ sends'[b] = sends[b]
              /\ state'[b] = state[b] \/ Withdrawn(b)
    BY <1>16 DEF SendTurn, Goto, attemptVars, processVars, historyVars
  <2>3. /\ state'[a] # "ABSENT"
        /\ state'[a] \in Open => state[a] \in Open \/ a \in revoked
        /\ state'[a] \in Early => turn'[a] = "none" \/ a \in revoked
        /\ sends'[a] = 0 => turn'[a] = "none"
    BY <1>16, <1>t, <2>1 DEF SendTurn, attemptVars, Flies, Early, Submitted
  <2>4. Flies(task[o])' /\ Knows(task[o])'
    BY <1>16, <2>1 DEF SendTurn, Goto, attemptVars, historyVars, Flies, Knows
  <2>5. Honours(a)
    <3>1. CASE a \in revoked \cup cutOff
      BY <2>1, <2>2, <3>1 DEF Honours
    <3>2. CASE a \notin revoked \cup cutOff
      BY <1>16, <1>i, <1>u, <2>1, <3>2 DEF SendTurn, attemptVars, BeforeSend,
         Flies, OneOpen, Honours, RowMoves, TurnMoves, Pending, Open
    <3>. QED
      BY <3>1, <3>2
  <2>. QED
    BY <2>1, <2>2, <2>3, <2>4, <2>5, TaskInv
<1>17. ASSUME NEW o \in Operations, TurnReply(o)
      PROVE  PromiseInv' /\ Honoured
  <2>. DEFINE a == task[o].of
  <2>1. /\ a \in Attempts /\ state[a] \notin {"ABSENT", "PLANNED"}
        /\ Flies(task[o]) /\ Knows(task[o])
    BY <1>17, <1>p DEF TurnReply
  <2>2. /\ \A p \in Operations \ {o} : task'[p] = task[p]
        /\ UNCHANGED <<revoked, cutOff, recon, phase>>
        /\ \A b \in Attempts \ {a} :
              /\ turn'[b] = turn[b] /\ sends'[b] = sends[b]
              /\ state'[b] = state[b] \/ Withdrawn(b)
    BY <1>17, <1>t DEF TurnReply, Goto, Raise, attemptVars, processVars,
       historyVars
  <2>3. /\ state'[a] # "ABSENT"
        /\ state'[a] \in Open => state[a] \in Open \/ a \in revoked
        /\ state'[a] \in Early => turn'[a] = "none" \/ a \in revoked
        /\ sends'[a] = 0 => turn'[a] = "none"
    BY <1>17, <1>i, <2>1 DEF TurnReply, attemptVars, EarlyUnsent, TurnsSent
  <2>4. Flies(task[o])' /\ Knows(task[o])'
    BY <1>17, <1>t, <2>1 DEF TurnReply, Goto, Raise, attemptVars, historyVars,
       Flies, Knows, Task
  <2>5. Honours(a)
    <3>1. CASE a \in revoked \cup cutOff
      BY <2>1, <2>2, <3>1 DEF Honours
    <3>2. CASE a \notin revoked \cup cutOff
      BY <1>17, <1>t DEF TurnReply, attemptVars, Honours, RowMoves, TurnMoves
    <3>. QED
      BY <3>1, <3>2
  <2>. QED
    BY <2>1, <2>2, <2>3, <2>4, <2>5, TaskInv
<1>18. ASSUME NEW o \in Operations, AcceptTurn(o)
      PROVE  PromiseInv' /\ Honoured
  <2>. DEFINE a == task[o].of
  <2>1. /\ a \in Attempts /\ state[a] \notin {"ABSENT", "PLANNED"}
        /\ Flies(task[o]) /\ Knows(task[o])
    BY <1>18, <1>p DEF AcceptTurn
  <2>2. /\ \A p \in Operations \ {o} : task'[p] = task[p]
        /\ UNCHANGED <<revoked, cutOff, recon, phase>>
        /\ \A b \in Attempts \ {a} :
              /\ turn'[b] = turn[b] /\ sends'[b] = sends[b]
              /\ state'[b] = state[b] \/ Withdrawn(b)
    BY <1>18 DEF AcceptTurn, Goto, processVars, upstreamVars, historyVars
  <2>3. /\ state'[a] # "ABSENT"
        /\ state'[a] \in Open => state[a] \in Open \/ a \in revoked
        /\ state'[a] \in Early => turn'[a] = "none" \/ a \in revoked
        /\ sends'[a] = 0 => turn'[a] = "none"
    BY <1>18, <1>t, <1>i, <2>1 DEF AcceptTurn, upstreamVars, TurnsSent, Flies,
       Open, Early
  <2>4. Flies(task[o])' /\ Knows(task[o])'
    BY <1>18, <1>t, <2>1 DEF AcceptTurn, Goto, Flies, Knows, InFlight,
       Submitted
  <2>5. Honours(a)
    <3>1. CASE a \in revoked \cup cutOff
      BY <2>1, <2>2, <3>1 DEF Honours
    <3>2. CASE a \notin revoked \cup cutOff
      BY <1>18, <2>1, <3>2 DEF AcceptTurn, upstreamVars, Flies, Honours,
         RowMoves, TurnMoves, Pending, InFlight, Submitted
    <3>. QED
      BY <3>1, <3>2
  <2>. QED
    BY <2>1, <2>2, <2>3, <2>4, <2>5, TaskInv
<1>19. ASSUME NEW o \in Operations, AwaitTurn(o)
      PROVE  PromiseInv' /\ Honoured
  <2>. DEFINE a == task[o].of
  <2>1. /\ a \in Attempts /\ state[a] \notin {"ABSENT", "PLANNED"}
        /\ Flies(task[o]) /\ Knows(task[o])
    BY <1>19, <1>p DEF AwaitTurn
  <2>2. /\ \A p \in Operations \ {o} : task'[p] = task[p]
        /\ UNCHANGED <<revoked, cutOff, recon, phase>>
        /\ \A b \in Attempts \ {a} :
              /\ turn'[b] = turn[b] /\ sends'[b] = sends[b]
              /\ state'[b] = state[b] \/ Withdrawn(b)
    BY <1>19, <1>t DEF AwaitTurn, TurnOutcome, Notified, Goto, Raise,
       attemptVars, processVars, upstreamVars, historyVars
  <2>3. /\ state'[a] # "ABSENT"
        /\ state'[a] \in Open => state[a] \in Open \/ a \in revoked
        /\ state'[a] \in Early => turn'[a] = "none" \/ a \in revoked
        /\ sends'[a] = 0 => turn'[a] = "none"
    BY <1>19, <1>i, <2>1 DEF AwaitTurn, attemptVars, upstreamVars,
       EarlyUnsent, TurnsSent
  <2>4. Flies(task[o])' /\ Knows(task[o])'
    <3>1. /\ UNCHANGED <<state, turn, revoked, cutOff>>
          /\ task[o].pc = "await" /\ task'[o].pc = "finish" /\ task'[o].of = a
          /\ task'[o].error = "none" => task[o].error # "none" \/ turn[a] = "completed"
          /\ task'[o].error = "definite" => task[o].error = "definite" \/ turn[a] = "failed"
      BY <1>19, <1>t DEF AwaitTurn, TurnOutcome, Notified, Goto, Raise, Task,
         attemptVars, upstreamVars, historyVars
    <3>2. task[o].error = "none"
      BY <3>1 DEF SubmissionInv, ErrorsLate, Late
    <3>. QED
      BY <2>1, <3>1, <3>2 DEF Flies, Knows
  <2>5. Honours(a)
    <3>1. CASE a \in revoked \cup cutOff
      BY <2>1, <2>2, <3>1 DEF Honours
    <3>2. CASE a \notin revoked \cup cutOff
      BY <1>19 DEF AwaitTurn, attemptVars, upstreamVars, Honours, RowMoves,
         TurnMoves
    <3>. QED
      BY <3>1, <3>2
  <2>. QED
    BY <2>1, <2>2, <2>3, <2>4, <2>5, TaskInv
<1>20. ASSUME NEW o \in Operations, Finish(o)
      PROVE  PromiseInv' /\ Honoured
  <2>. DEFINE a == task[o].of
  <2>1. /\ a \in Attempts /\ state[a] \notin {"ABSENT", "PLANNED"}
        /\ Flies(task[o]) /\ Knows(task[o])
    BY <1>20, <1>p DEF Finish
  <2>2. /\ \A p \in Operations \ {o} : task'[p] = task[p]
        /\ UNCHANGED <<revoked, cutOff, recon, phase>>
        /\ \A b \in Attempts \ {a} :
              /\ turn'[b] = turn[b] /\ sends'[b] = sends[b]
              /\ state'[b] = state[b] \/ Withdrawn(b)
    BY <1>20, <1>t DEF Finish, Goto, Raise, Quarantine, Moved, Withdrawn,
       upstreamVars, historyVars
  <2>3. /\ state'[a] # "ABSENT"
        /\ state'[a] \in Open => state[a] \in Open \/ a \in revoked
        /\ state'[a] \in Early => turn'[a] = "none" \/ a \in revoked
        /\ sends'[a] = 0 => turn'[a] = "none"
    BY <1>20, <1>i, <2>1 DEF Finish, Quarantine, Moved, upstreamVars,
       EarlyUnsent, TurnsSent
  <2>4. Flies(task[o])' /\ Knows(task[o])'
    BY <1>20, <1>t, <2>1 DEF Finish, Goto, Raise, AfterFinish, Quarantine,
       Moved, upstreamVars, historyVars, Flies, Knows, Task
  <2>5. Honours(a)
    <3>1. CASE a \in revoked \cup cutOff
      BY <2>1, <2>2, <3>1 DEF Honours
    <3>2. CASE a \notin revoked \cup cutOff
      BY <1>20, <2>1 DEF Finish, Quarantine, Moved, upstreamVars, Honours,
         RowMoves, TurnMoves
    <3>. QED
      BY <3>1, <3>2
  <2>. QED
    BY <2>1, <2>2, <2>3, <2>4, <2>5, TaskInv
<1>21. ASSUME NEW o \in Operations, Complete(o)
      PROVE  PromiseInv' /\ Honoured
  <2>. DEFINE a == task[o].of
  <2>1. /\ a \in Attempts /\ state[a] \notin {"ABSENT", "PLANNED"}
        /\ Flies(task[o]) /\ Knows(task[o])
    BY <1>21, <1>p DEF Complete
  <2>2. /\ \A p \in Operations \ {o} : task'[p] = task[p]
        /\ UNCHANGED <<revoked, cutOff, recon, phase>>
        /\ \A b \in Attempts \ {a} :
              /\ turn'[b] = turn[b] /\ sends'[b] = sends[b]
              /\ state'[b] = state[b] \/ Withdrawn(b)
    BY <1>21 DEF Complete, Completion, Moved, Return, Withdrawn, processVars,
       upstreamVars, historyVars
  <2>3. /\ state'[a] # "ABSENT"
        /\ state'[a] \in Open => state[a] \in Open \/ a \in revoked
        /\ state'[a] \in Early => turn'[a] = "none" \/ a \in revoked
        /\ sends'[a] = 0 => turn'[a] = "none"
    BY <1>21, <1>i, <2>1 DEF Complete, Completion, Completed, Moved,
       upstreamVars, TurnsSent, Flies, Open, Early
  <2>4. Flies(task[o])' /\ Knows(task[o])'
    BY <1>21, <1>t DEF Complete, Return, NoTask, Flies, Knows
  <2>5. Honours(a)
    <3>1. CASE a \in revoked \cup cutOff
      BY <2>1, <2>2, <3>1 DEF Honours
    <3>2. CASE a \notin revoked \cup cutOff
      BY <1>21, <2>1, <3>2 DEF Complete, Completion, Moved, upstreamVars,
         Flies, Knows, Honours, RowMoves, TurnMoves, Pending
    <3>. QED
      BY <3>1, <3>2
  <2>. QED
    BY <2>1, <2>2, <2>3, <2>4, <2>5, TaskInv
<1>22. ASSUME NEW o \in Operations, HandleIneligible(o)
      PROVE  PromiseInv' /\ Honoured
  <2>. DEFINE a == task[o].of
  <2>1. /\ a \in Attempts /\ state[a] \notin {"ABSENT", "PLANNED"}
        /\ Flies(task[o]) /\ Knows(task[o])
    BY <1>22, <1>p DEF HandleIneligible
  <2>2. /\ \A p \in Operations \ {o} : task'[p] = task[p]
        /\ UNCHANGED <<revoked, cutOff, recon, phase>>
        /\ \A b \in Attempts \ {a} :
              /\ turn'[b] = turn[b] /\ sends'[b] = sends[b]
              /\ state'[b] = state[b] \/ Withdrawn(b)
    BY <1>22, <1>t DEF HandleIneligible, Pause, Rescheduled, Goto, Return,
       processVars, upstreamVars, historyVars
  <2>3. /\ state'[a] # "ABSENT"
        /\ state'[a] \in Open => state[a] \in Open \/ a \in revoked
        /\ state'[a] \in Early => turn'[a] = "none" \/ a \in revoked
        /\ sends'[a] = 0 => turn'[a] = "none"
    BY <1>22, <1>t, <1>u, <2>1 DEF HandleIneligible, Pause, Rescheduled,
       upstreamVars, BeforeSend, Flies, Open
  <2>4. Flies(task[o])' /\ Knows(task[o])'
    BY <1>22, <1>t, <2>1 DEF HandleIneligible, Pause, Goto, Return, NoTask,
       upstreamVars, historyVars, Flies, Knows, Task
  <2>5. Honours(a)
    <3>1. CASE a \in revoked \cup cutOff
      BY <2>1, <2>2, <3>1 DEF Honours
    <3>2. CASE a \notin revoked \cup cutOff
      BY <1>22, <1>t, <2>1, <3>2 DEF HandleIneligible, Pause, Rescheduled,
         upstreamVars, Flies, Honours, RowMoves, TurnMoves, Pending
    <3>. QED
      BY <3>1, <3>2
  <2>. QED
    BY <2>1, <2>2, <2>3, <2>4, <2>5, TaskInv
<1>23. ASSUME NEW o \in Operations, RecordFailure(o)
      PROVE  PromiseInv' /\ Honoured
  <2>. DEFINE a == task[o].of
  <2>1. /\ a \in Attempts /\ state[a] \notin {"ABSENT", "PLANNED"}
        /\ Flies(task[o]) /\ Knows(task[o])
    BY <1>23, <1>p DEF RecordFailure
  <2>2. /\ \A p \in Operations \ {o} : task'[p] = task[p]
        /\ UNCHANGED <<revoked, cutOff, recon, phase>>
        /\ \A b \in Attempts \ {a} :
              /\ turn'[b] = turn[b] /\ sends'[b] = sends[b]
              /\ state'[b] = state[b] \/ Withdrawn(b)
    BY <1>23, <1>t DEF RecordFailure, Failure, Goto, Return, processVars,
       upstreamVars, historyVars
  <2>3. /\ state'[a] # "ABSENT"
        /\ state'[a] \in Open => state[a] \in Open \/ a \in revoked
        /\ state'[a] \in Early => turn'[a] = "none" \/ a \in revoked
        /\ sends'[a] = 0 => turn'[a] = "none"
    BY <1>23, <1>t, <1>i, <2>1 DEF RecordFailure, Failure, Uncertain,
       Unresolved, upstreamVars, TurnsSent, Open, InFlight, Early, Submitted
  <2>4. Flies(task[o])' /\ Knows(task[o])'
    BY <1>23, <1>t DEF RecordFailure, Goto, Return, NoTask, Flies, Knows, Task
  <2>5. Honours(a)
    <3>1. CASE a \in revoked \cup cutOff
      BY <2>1, <2>2, <3>1 DEF Honours
    <3>2. CASE a \notin revoked \cup cutOff
      BY <1>23, <1>i, <2>1, <3>2 DEF RecordFailure, Failure, Uncertain,
         Unresolved, upstreamVars, Flies, Knows, EarlyUnsent, Honours,
         RowMoves, TurnMoves, Pending, InFlight
    <3>. QED
      BY <3>1, <3>2
  <2>. QED
    BY <2>1, <2>2, <2>3, <2>4, <2>5, TaskInv
<1>24. ASSUME NEW o \in Operations, OpenIncident(o)
      PROVE  PromiseInv' /\ Honoured
  <2>. DEFINE a == task[o].of
  <2>1. /\ a \in Attempts /\ state[a] \notin {"ABSENT", "PLANNED"}
        /\ Flies(task[o]) /\ Knows(task[o])
    BY <1>24, <1>p DEF OpenIncident
  <2>2. /\ \A p \in Operations \ {o} : task'[p] = task[p]
        /\ UNCHANGED <<revoked, cutOff, recon, phase>>
        /\ \A b \in Attempts \ {a} :
              /\ turn'[b] = turn[b] /\ sends'[b] = sends[b]
              /\ state'[b] = state[b] \/ Withdrawn(b)
    BY <1>24 DEF OpenIncident, Return, attemptVars, processVars, upstreamVars,
       historyVars
  <2>3. /\ state'[a] # "ABSENT"
        /\ state'[a] \in Open => state[a] \in Open \/ a \in revoked
        /\ state'[a] \in Early => turn'[a] = "none" \/ a \in revoked
        /\ sends'[a] = 0 => turn'[a] = "none"
    BY <1>24, <1>i, <2>1 DEF OpenIncident, attemptVars, upstreamVars,
       EarlyUnsent, TurnsSent
  <2>4. Flies(task[o])' /\ Knows(task[o])'
    BY <1>24 DEF OpenIncident, Return, NoTask, Flies, Knows
  <2>5. Honours(a)
    <3>1. CASE a \in revoked \cup cutOff
      BY <2>1, <2>2, <3>1 DEF Honours
    <3>2. CASE a \notin revoked \cup cutOff
      BY <1>24 DEF OpenIncident, attemptVars, upstreamVars, Honours, RowMoves,
         TurnMoves
    <3>. QED
      BY <3>1, <3>2
  <2>. QED
    BY <2>1, <2>2, <2>3, <2>4, <2>5, TaskInv
<1>25. ASSUME NEW o \in Operations, Claim(o)
      PROVE  PromiseInv' /\ Honoured
  <2>1. PICK a \in Attempts : /\ Earliest(a, DuePlans)
                              /\ ~Some(Open)
                              /\ state' = [state EXCEPT ![a] = "QUEUED"]
                              /\ task' = [task EXCEPT ![o] =
                                    [pc |-> "queued", of |-> a, error |-> "none"]]
    BY <1>25 DEF Claim
  <2>2. state[a] = "PLANNED" /\ phase # "starting"
    BY <1>25, <2>1 DEF Claim, Earliest, DuePlans
  <2>3. UNCHANGED <<turn, sends, revoked, cutOff, recon, phase>>
    BY <1>25 DEF Claim, processVars, upstreamVars, historyVars
  <2>. QED
    BY <1>t, <2>1, <2>2, <2>3, AdmissionInv
<1>26. ASSUME NEW o \in Operations, ActivateRequest(o)
      PROVE  PromiseInv' /\ Honoured
  <2>1. /\ task[o] = NoTask /\ phase # "starting"
        /\ task' = [task EXCEPT ![o].pc = "created"]
        /\ UNCHANGED <<state, turn, sends, revoked, cutOff, recon, phase>>
    BY <1>26 DEF ActivateRequest, NextOperation, Goto, SubmissionInv,
       NoTaskYet, attemptVars, processVars, upstreamVars, historyVars
  <2>2. TaskFlying' /\ TaskKnows'
    BY <1>t, <1>i, <2>1 DEF TaskFlying, Flies, TaskKnows, Knows
  <2>3. NoTasksAtStart' /\ ReconKnows'
    BY <1>i, <2>1 DEF NoTasksAtStart, ReconKnows
  <2>9. Honoured
    BY <1>i, <2>1 DEF ExcusedRows, Honoured, Honours, RowMoves, TurnMoves
  <2>. QED
    BY <2>1, <2>2, <2>3, <2>9 DEF PromiseInv, OneOpen, EarlyUnsent, TurnsSent,
       ExcusedRows
<1>27. ASSUME NEW o \in Operations, ActivateAdmit(o)
      PROVE  PromiseInv' /\ Honoured
  <2>1. /\ task[o].pc = "created" /\ phase # "starting"
        /\ UNCHANGED <<turn, sends, revoked, cutOff, recon, phase>>
    BY <1>27, <1>i DEF ActivateAdmit, NoTasksAtStart, NoTask, processVars,
       upstreamVars, historyVars
  <2>2. ASSUME NEW a \in Attempts, ~Some(Open),
               state[a] \in {"ABSENT", "PLANNED"}, AdmitAttempt(o, a)
        PROVE  PromiseInv' /\ Honoured
    <3>1. /\ task'[o].pc = "queued" /\ task'[o].of = a /\ task'[o].error = "none"
          /\ \A p \in Operations \ {o} : task'[p] = task[p]
      BY <1>t, <2>1, <2>2 DEF AdmitAttempt, SubmissionInv, ErrorsLate, Late
    <3>. QED
      BY <2>1, <2>2, <3>1, AdmissionInv DEF AdmitAttempt
  <2>3. CASE AdmitPlanned(o)
    BY <2>2, <2>3 DEF AdmitPlanned, Earliest, Planned
  <2>4. CASE AdmitNew(o)
    BY <2>2, <2>4 DEF AdmitNew, NextAttempt
  <2>5. CASE RejectDuplicate(o)
    <3>1. TaskFlying' /\ TaskKnows'
      BY <1>i, <2>1, <2>5 DEF RejectDuplicate, Return, TaskFlying, Flies,
         TaskKnows, Knows, NoTask
    <3>2. NoTasksAtStart' /\ ReconKnows'
      BY <1>i, <2>1, <2>5 DEF RejectDuplicate, NoTasksAtStart, ReconKnows
    <3>3. Honoured
      BY <1>i, <2>1, <2>5 DEF RejectDuplicate, ExcusedRows, Honoured, Honours,
         RowMoves, TurnMoves
    <3>. QED
      BY <2>1, <2>5, <3>1, <3>2, <3>3 DEF RejectDuplicate, PromiseInv,
         OneOpen, EarlyUnsent, TurnsSent, ExcusedRows
  <2>. QED
    BY <1>27, <2>3, <2>4, <2>5 DEF ActivateAdmit
<1>28. ASSUME NEW a \in Attempts, UpstreamEnds(a)
      PROVE  PromiseInv' /\ Honoured
  <2>1. PICK how \in {"completed", "failed", "unsafe"} :
            turn[a] = "running" /\ turn' = [turn EXCEPT ![a] = how]
    BY <1>28 DEF UpstreamEnds
  <2>2. UNCHANGED <<state, task, sends, revoked, cutOff, recon, phase>>
    BY <1>28 DEF UpstreamEnds, attemptVars, taskVars, processVars, historyVars
  <2>3. TaskFlying' /\ TaskKnows'
    BY <1>t, <1>i, <1>p, <2>1, <2>2 DEF TaskFlying, Flies, TaskKnows, Knows
  <2>4. NoTasksAtStart' /\ ReconKnows'
    BY <1>t, <1>i, <2>1, <2>2 DEF NoTasksAtStart, ReconKnows
  <2>9. Honoured
    BY <1>t, <1>i, <2>1, <2>2 DEF ExcusedRows, Honoured, Honours, RowMoves,
       TurnMoves
  <2>. QED
    BY <2>1, <2>2, <2>3, <2>4, <2>9 DEF PromiseInv, OneOpen, EarlyUnsent,
       TurnsSent, ExcusedRows
<1>29. CASE Disable
  <2>1. /\ state' = [a \in Attempts |-> AfterDisable(state[a])]
        /\ revoked' = revoked \cup {a \in Attempts : state[a] \in Early}
        /\ UNCHANGED <<task, turn, sends, cutOff, recon, phase>>
    BY <1>29 DEF Disable, processVars, upstreamVars
  <2>2. TaskFlying' /\ TaskKnows'
    BY <1>p, <2>1 DEF AfterDisable, TaskFlying, Flies, TaskKnows, Knows
  <2>3. OneOpen' /\ EarlyUnsent' /\ TurnsSent'
    BY <1>i, <2>1 DEF AfterDisable, OneOpen, EarlyUnsent, TurnsSent, Open,
       InFlight, Early, Submitted
  <2>4. NoTasksAtStart' /\ ReconKnows'
    BY <1>t, <1>i, <2>1 DEF AfterDisable, NoTasksAtStart, ReconKnows, Early
  <2>5. ExcusedRows'
    BY <1>t, <1>i, <2>1 DEF AfterDisable, ExcusedRows
  <2>6. ASSUME NEW a \in Attempts
        PROVE  Honours(a)
    BY <1>i, <2>1, WithdrawnHonours DEF AfterDisable, SubmissionInv,
       Withdrawn, Honours
  <2>. QED
    BY <2>1, <2>2, <2>3, <2>4, <2>5, <2>6 DEF Early, ExcusedRows, Honoured,
       PromiseInv
<1>30. CASE Acknowledge
  <2>1. /\ state' = [a \in Attempts |-> AfterReview(state[a])]
        /\ phase = "up"
        /\ UNCHANGED <<task, turn, sends, revoked, cutOff, recon, phase>>
    BY <1>30 DEF Acknowledge, taskVars, processVars, upstreamVars, historyVars
  <2>2. TaskFlying' /\ TaskKnows'
    BY <1>p, <2>1 DEF AfterReview, TaskFlying, Flies, TaskKnows, Knows,
       InFlight, Early, Submitted
  <2>3. OneOpen' /\ EarlyUnsent' /\ TurnsSent'
    BY <1>i, <2>1 DEF AfterReview, OneOpen, EarlyUnsent, TurnsSent, Open,
       InFlight, Early, Submitted
  <2>4. NoTasksAtStart' /\ ReconKnows'
    BY <1>t, <1>i, <2>1 DEF NoTasksAtStart, ReconKnows
  <2>5. ExcusedRows'
    BY <1>t, <1>i, <2>1 DEF AfterReview, ExcusedRows
  <2>6. ASSUME NEW a \in Attempts
        PROVE  Honours(a)
    BY <1>i, <2>1, WithdrawnHonours DEF AfterReview, SubmissionInv, Withdrawn,
       Honours, RowMoves, TurnMoves
  <2>. QED
    BY <2>1, <2>2, <2>3, <2>4, <2>5, <2>6 DEF ExcusedRows, Honoured,
       PromiseInv
<1>31. CASE Close
  <2>1. /\ phase = "up" /\ phase' = "closing"
        /\ task' = [o \in Operations |-> Cancelled(task[o])]
        /\ UNCHANGED <<turn, sends, revoked, recon>>
    BY <1>31 DEF Close, upstreamVars
  <2>2. ASSUME NEW o \in Operations
        PROVE  \/ task'[o].pc \in {"free", "created"}
               \/ /\ task'[o].of = task[o].of
                  /\ task[o].pc \notin {"free", "created", "incident", "fail"}
                  /\ \/ task'[o].pc = "fail" /\ task'[o].error = "other"
                     \/ /\ task'[o].pc = "finish" /\ task'[o].error # "none"
                        /\ task[o].pc # "complete"
                        /\ task'[o].error = "definite" =>
                              task[o].pc = "finish" /\ task[o].error = "definite"
    BY <1>t, <2>1, CancelledOutcome DEF NoTask
  <2>3. TaskKnows'
    <3>1. ASSUME NEW o \in Operations
          PROVE  Knows(task[o])'
      BY <1>p, <2>1, <2>2 DEF Knows
    <3>. QED
      BY <3>1 DEF TaskKnows
  <2>4. NoTasksAtStart' /\ ReconKnows' /\ TurnsSent'
    BY <1>i, <2>1 DEF NoTasksAtStart, ReconKnows, TurnsSent
  <2>5. ASSUME NoJobRuns
        PROVE  PromiseInv' /\ Honoured
    <3>1. TaskFlying'
      <4>1. ASSUME NEW o \in Operations
            PROVE  Flies(task[o])'
        BY <1>p, <2>1, <2>2, <2>5 DEF Flies, NoJobRuns
      <4>. QED
        BY <4>1 DEF TaskFlying
    <3>2. Honoured
      BY <1>i, <2>1, <2>5 DEF NoJobRuns, ExcusedRows, Honoured, Honours,
         RowMoves, TurnMoves
    <3>. QED
      BY <2>1, <2>3, <2>4, <2>5, <3>1, <3>2 DEF NoJobRuns, PromiseInv,
         OneOpen, EarlyUnsent, ExcusedRows
  <2>6. ASSUME NEW q \in Operations, CompletionRuns(q)
        PROVE  PromiseInv' /\ Honoured
    <3>. DEFINE a == task[q].of
    <3>1. task[q].pc = "complete" /\ a \in Attempts /\ cutOff' = cutOff \cup {a}
      BY <1>p, <2>6 DEF CompletionRuns
    <3>2. /\ state'[a] \in Completed
          /\ \A b \in Attempts \ {a} :
                 \/ state'[b] = state[b]
                 \/ state[b] = "PLANNED" /\ state'[b] = "CANCELLED"
      BY <1>t, <2>6, <3>1 DEF CompletionRuns, Completion, Moved
    <3>3. TaskFlying'
      <4>1. ASSUME NEW o \in Operations \ {q}
            PROVE  Flies(task[o])'
        <5>1. task[o].of # 0 => task[o].of # a
          BY <4>1, <3>1, Positive DEF SubmissionInv, TasksApart
        <5>. QED
          BY <1>p, <2>1, <2>2, <3>2, <5>1, Positive DEF Flies
      <4>2. Flies(task[q])'
        BY <2>2, <3>1 DEF Flies
      <4>. QED
        BY <4>1, <4>2 DEF TaskFlying
    <3>4. OneOpen' /\ EarlyUnsent' /\ ExcusedRows'
      BY <1>t, <1>i, <2>1, <3>1, <3>2 DEF OneOpen, EarlyUnsent, ExcusedRows,
         Completed, Open, InFlight, Early, Submitted
    <3>5. Honours(a)
      BY <1>p, <3>1 DEF Honours
    <3>6. ASSUME NEW b \in Attempts \ {a}
          PROVE  Honours(b)
      BY <1>i, <2>1, <3>2, WithdrawnHonours DEF SubmissionInv, Withdrawn
    <3>. QED
      BY <1>p, <2>1, <2>3, <2>4, <3>1, <3>3, <3>4, <3>5, <3>6 DEF ExcusedRows,
         Honoured, PromiseInv
  <2>. QED
    BY <1>31, <2>5, <2>6 DEF Close
<1>32. CASE Restart
  <2>1. /\ task' = [o \in Operations |-> NoTask] /\ phase' = "starting"
        /\ state' = [a \in Attempts |-> AfterRestart(state[a])]
        /\ recon' = [a \in Attempts |-> IF state[a] \in Submitted
                                        THEN "pending" ELSE "no"]
        /\ UNCHANGED <<turn, sends, revoked, cutOff>>
    BY <1>32 DEF Restart, upstreamVars, historyVars
  <2>2. TaskFlying' /\ TaskKnows' /\ NoTasksAtStart'
    BY <2>1 DEF TaskFlying, Flies, TaskKnows, Knows, NoTasksAtStart, NoTask
  <2>3. OneOpen' /\ EarlyUnsent' /\ TurnsSent'
    BY <1>i, <2>1 DEF AfterRestart, OneOpen, EarlyUnsent, TurnsSent, Open,
       InFlight, Early, Submitted
  <2>4. ReconKnows'
    BY <1>t, <2>1 DEF AfterRestart, ReconKnows, Early, Submitted
  <2>5. ExcusedRows'
    BY <1>t, <1>i, <2>1 DEF AfterRestart, ExcusedRows, Early
  <2>6. ASSUME NEW a \in Attempts
        PROVE  Honours(a)
    BY <1>i, <2>1, WithdrawnHonours DEF AfterRestart, EarlyUnsent,
       SubmissionInv, Withdrawn, Honours, RowMoves, TurnMoves, Pending,
       InFlight
  <2>. QED
    BY <2>1, <2>2, <2>3, <2>4, <2>5, <2>6 DEF ExcusedRows, Honoured,
       PromiseInv
<1>33. ASSUME NEW a \in Attempts, ReconcileStart(a)
      PROVE  PromiseInv' /\ Honoured
  <2>1. /\ PlansMove /\ UNCHANGED <<task, turn, sends, revoked, cutOff, phase>>
        /\ \A b \in Attempts \ {a} : recon'[b] = recon[b]
        /\ recon[a] # "no"
    BY <1>33, <1>t DEF ReconcileStart, ReconAt, PlansMove, attemptVars,
       taskVars, upstreamVars, historyVars
  <2>2. /\ recon'[a] = "completed" => turn[a] = "completed"
        /\ recon'[a] = "failed" => turn[a] = "failed"
    BY <1>33, <1>t DEF ReconcileStart, ReconAt
  <2>3. NoTasksAtStart' /\ ReconKnows'
    BY <1>i, <2>1, <2>2 DEF PlansMove, Withdrawn, NoTasksAtStart, ReconKnows
  <2>. QED
    BY <2>1, <2>3, PlansInv
<1>34. ASSUME NEW a \in Attempts, ReconcileRead(a)
      PROVE  PromiseInv' /\ Honoured
  <2>1. /\ PlansMove /\ UNCHANGED <<task, turn, sends, revoked, cutOff, phase>>
        /\ \A b \in Attempts \ {a} : recon'[b] = recon[b]
        /\ recon[a] # "no"
    BY <1>34, <1>t DEF ReconcileRead, ReconAt, Quarantine, Moved, PlansMove,
       Withdrawn, taskVars, upstreamVars, historyVars
  <2>2. /\ recon'[a] = "completed" => turn[a] = "completed"
        /\ recon'[a] = "failed" => turn[a] = "failed"
    BY <1>34, <1>t DEF ReconcileRead, ReconAt, Proof, Quarantine
  <2>3. NoTasksAtStart' /\ ReconKnows'
    BY <1>i, <2>1, <2>2 DEF PlansMove, Withdrawn, NoTasksAtStart, ReconKnows
  <2>. QED
    BY <2>1, <2>3, PlansInv
<1>35. ASSUME NEW a \in Attempts, ReconcileAnnounce(a)
      PROVE  PromiseInv' /\ Honoured
  <2>1. /\ PlansMove /\ UNCHANGED <<task, turn, sends, revoked, cutOff, phase>>
        /\ \A b \in Attempts \ {a} : recon'[b] = recon[b]
        /\ recon[a] # "no"
    BY <1>35 DEF ReconcileAnnounce, ReconAt, PlansMove, attemptVars, taskVars,
       upstreamVars, historyVars
  <2>2. /\ recon'[a] = "completed" => turn[a] = "completed"
        /\ recon'[a] = "failed" => turn[a] = "failed"
    BY <1>35, <1>t DEF ReconcileAnnounce, ReconAt
  <2>3. NoTasksAtStart' /\ ReconKnows'
    BY <1>i, <2>1, <2>2 DEF PlansMove, Withdrawn, NoTasksAtStart, ReconKnows
  <2>. QED
    BY <2>1, <2>3, PlansInv
<1>36. ASSUME NEW a \in Attempts, ReconcileSettle(a)
      PROVE  PromiseInv' /\ Honoured
  <2>1. /\ UNCHANGED <<task, turn, sends, revoked, cutOff, phase>>
        /\ recon[a] # "no"
        /\ \A b \in Attempts \ {a} : recon'[b] = recon[b]
    BY <1>36, <1>t DEF ReconcileSettle, ReconAt, upstreamVars, historyVars
  <2>2. phase = "starting" /\ state[a] = "AMBIGUOUS"
    BY <1>i, <2>1 DEF ReconKnows
  <2>. DEFINE
         Settled ==
             /\ recon'[a] \in {"no", "announce"}
             /\ recon'[a] = "announce" => state'[a] = "AMBIGUOUS"
             /\ \/ state'[a] \in Completed /\ recon[a] = "completed"
                \/ state'[a] = "FAILED_DEFINITE" /\ recon[a] = "failed"
                \/ state'[a] = "AMBIGUOUS"
             /\ \A b \in Attempts \ {a} :
                    \/ state'[b] = state[b]
                    \/ state[b] = "PLANNED" /\ state'[b] = "CANCELLED"
  <2>3. Settled
    <3>1. ASSUME NEW p \in Operations, recon[a] = "completed",
                 Completion(a, p), ReconAt(a, "no")
          PROVE  Settled
      <4>1. PICK result \in Completed :
               state' = [Moved({"PLANNED"}, "CANCELLED") EXCEPT ![a] = result]
        BY <3>1 DEF Completion
      <4>2. recon'[a] = "no"
        BY <1>t, <3>1 DEF ReconAt
      <4>. QED
        BY <1>t, <3>1, <4>1, <4>2 DEF Moved
    <3>2. ASSUME NEW p \in Operations, recon[a] = "failed",
                 Failure(a, p, "definite"), ReconAt(a, "no")
          PROVE  Settled
      <4>1. recon'[a] = "no"
        BY <1>t, <3>2 DEF ReconAt
      <4>. QED
        BY <1>t, <3>2, <4>1 DEF Failure
    <3>3. ASSUME NEW p \in Operations, recon[a] = "unsafe",
                 Failure(a, p, "unsafe"), ReconAt(a, "announce")
          PROVE  Settled
      BY <1>t, <2>2, <3>3 DEF ReconAt, Failure, Uncertain, Unresolved
    <3>. QED
      BY <1>36, <3>1, <3>2, <3>3 DEF ReconcileSettle
  <2>4. TaskFlying' /\ TaskKnows' /\ NoTasksAtStart'
    BY <1>i, <2>1, <2>2 DEF NoTasksAtStart, NoTask, TaskFlying, Flies,
       TaskKnows, Knows
  <2>5. OneOpen' /\ EarlyUnsent' /\ TurnsSent' /\ ExcusedRows'
    BY <1>t, <1>i, <2>1, <2>2, <2>3 DEF OneOpen, EarlyUnsent, TurnsSent,
       ExcusedRows, Completed, Open, InFlight, Early, Submitted
  <2>6. ReconKnows'
    BY <1>i, <2>1, <2>3 DEF ReconKnows
  <2>7. Honours(a)
    BY <1>i, <2>1, <2>2, <2>3 DEF ReconKnows, Honours, RowMoves, TurnMoves
  <2>8. ASSUME NEW b \in Attempts \ {a}
        PROVE  Honours(b)
    BY <1>i, <2>1, <2>3, WithdrawnHonours DEF SubmissionInv, Withdrawn
  <2>. QED
    BY <2>1, <2>4, <2>5, <2>6, <2>7, <2>8 DEF ExcusedRows, Honoured,
       PromiseInv
<1>37. CASE ReconcileDone
  <2>1. /\ PlansMove /\ UNCHANGED <<task, turn, sends, revoked, cutOff>>
        /\ phase' = "up" /\ recon' = [a \in Attempts |-> "no"]
    BY <1>37, <1>t DEF ReconcileDone, PlansMove, Withdrawn, attemptVars,
       taskVars, upstreamVars, historyVars
  <2>2. NoTasksAtStart' /\ ReconKnows'
    BY <2>1 DEF NoTasksAtStart, ReconKnows
  <2>. QED
    BY <2>1, <2>2, PlansInv
<1>. QED
  BY <1>1, <1>2, <1>3, <1>4, <1>5, <1>6, <1>7, <1>8, <1>9, <1>10, <1>11,
     <1>12, <1>13, <1>14, <1>15, <1>16, <1>17, <1>18, <1>19, <1>20, <1>21,
     <1>22, <1>23, <1>24, <1>25, <1>26, <1>27, <1>28, <1>29, <1>30, <1>31,
     <1>32, <1>33, <1>34, <1>35, <1>36, <1>37, <1>38 DEF Next, TaskStep, RefreshStep,
     PlannerStep, OperatorStep, ReconcileStep

(* It holds of a service without attempts.                                 *)
LEMMA PromiseInit ==
    ASSUME Init
    PROVE  PromiseInv
BY DEF Init, PromiseInv, TaskFlying, Flies, TaskKnows, Knows, OneOpen,
   EarlyUnsent, TurnsSent, NoTasksAtStart, ReconKnows, ExcusedRows, Early,
   Submitted, InFlight, Open, NoTask

(* The tasks, the rows and what is the case upstream stay related as       *)
(* PromiseInv says.                                                        *)
THEOREM PromiseBasis == Spec => []PromiseInv
<1>1. Init => PromiseInv
  BY PromiseInit
<1>2. SubmissionInv /\ PromiseInv /\ [Next]_vars => PromiseInv'
  BY PromiseStep
<1>. QED
  BY <1>1, <1>2, Submission, PTL DEF Spec

(* Only one attempt of an account is in flight, but for those set_enabled  *)
(* cancelled under their task: whatever is claimed, requested, refreshed,  *)
(* acknowledged or restarted between.                                      *)
THEOREM OneInFlight == Spec => []OneInFlightUnlessRevoked
<1>1. PromiseInv => OneInFlightUnlessRevoked
  BY DEF PromiseInv, OneOpen, OneInFlightUnlessRevoked, Flying, Open
<1>. QED
  BY <1>1, PromiseBasis, PTL

(* What happens to the row and the turn of an attempt is a step of         *)
(* ActivationPromise for it, whose record is the row's state as the        *)
(* refinement mapping reads it.                                            *)
LEMMA HonouredIsPromised ==
    ASSUME TypeOK, TypeOK', PromiseInv, Honoured
    PROVE  Promise!Next
<1>. USE DEF Completed, Pending, InFlight, Early, Submitted
<1>1. SUFFICES ASSUME NEW a \in Attempts
               PROVE  Promise!Excused(a) \/ (Promise!Record(a) /\ Promise!Upstream(a))
  BY DEF Promise!Next
<1>t. state[a] \in AttemptStates /\ state'[a] \in AttemptStates
  BY DEF TypeOK, AttemptType
<1>2. CASE a \in revoked' \cup cutOff'
  BY <1>2, <1>t DEF Honoured, Promise!Excused
<1>3. CASE a \notin revoked' \cup cutOff'
  <2>1. /\ a \notin revoked \cup cutOff
        /\ RowMoves(a) /\ TurnMoves(a)
    BY <1>3 DEF Honoured, Honours
  <2>2. Promise!Record(a)
    BY <1>3, <2>1 DEF RowMoves, Promise!Record, Promise!Goes, Promise!Propose,
       Promise!Withdraw, Promise!Succeed, Promise!Fail, Promise!Doubt,
       Promise!Review
  <2>3. Promise!Upstream(a)
    BY <1>3, <1>t, <2>1 DEF TurnMoves, AttemptStates, Promise!Upstream,
       Promise!Submit
  <2>. QED
    BY <2>2, <2>3
<1>. QED
  BY <1>2, <1>3

(* The service implements ActivationPromise: an attempt is submitted at    *)
(* most once and not beside a doubtful one, what is recorded of it is true *)
(* of its turn, and a final record stays; but for the attempts that were   *)
(* cancelled in flight or completed under a shutdown.                      *)
THEOREM PromiseKept == Spec => KeepsPromise
<1>1. Init => Promise!Init
  BY DEF Init, Promise!Init, Completed
<1>2. /\ TypeOK /\ TypeOK' /\ SubmissionInv /\ PromiseInv
      /\ [Next]_vars
      => Promise!Next
  BY PromiseStep, HonouredIsPromised
<1>. QED
  BY <1>1, <1>2, TypeCorrect, Submission, PromiseBasis, PTL DEF Spec,
     KeepsPromise, Promise!Spec
-----------------------------------------------------------------------------
(* An account is created without a runtime, and its marker says so.        *)
LEMMA CredentialInit ==
    ASSUME Init
    PROVE  CredentialInv
BY DEF Init, CredentialInv, LockExclusive, LockFree, Managed, NoTask

(* The mark in worker_state is true of the credential lock: in use exactly *)
(* while something holds it, and QUARANTINED only for an account that must *)
(* sign in again.                                                          *)
THEOREM CredentialMark == Spec => []CredentialHonest
<1>1. SubmissionInv => TypeOK /\ NoTaskYet
  BY DEF SubmissionInv
<1>2. SubmissionInv /\ CredentialInv /\ [Next]_vars => CredentialInv'
  BY <1>1, CredentialStep
<1>3. CredentialInv => CredentialHonest
  BY DEF CredentialInv, CredentialHonest
<1>. QED
  BY <1>2, <1>3, CredentialInit, Submission, PTL DEF Spec
-----------------------------------------------------------------------------
(* Operations rows are created in order, so once there is one there is a   *)
(* newest one; and there is one once an attempt has been claimed.          *)
OperationsInOrder ==
    \A p, q \in Operations :
        p < q /\ operation[p] = "ABSENT" => operation[q] = "ABSENT"
NewestThere ==
    (\E p \in Operations : operation[p] # "ABSENT") =>
        \E p \in Operations : LatestOperation(p)
OperationBehind ==
    (\E a \in Attempts : state[a] \notin {"ABSENT", "PLANNED", "CANCELLED"}) =>
        \E p \in Operations : operation[p] # "ABSENT"

FlightsWorked ==
    phase # "closing" => \A a \in Flying : \E o \in Operations : WorksFor(o, a)
OperationsOwned ==
    phase # "closing" /\ revoked = {} =>
        \A o \in Operations : operation[o] \in Unfinished =>
            task[o].pc \notin {"free", "incident"}

(* What Attended says of reconciliation is not inductive: that there is an *)
(* operation goes back to the claim of the attempt.                        *)
AttendedInv ==
    /\ FlightsWorked /\ OperationsOwned
    /\ OperationsInOrder /\ NewestThere /\ OperationBehind

(* A step that creates no operations row and works on no attempt keeps     *)
(* those relations.                                                        *)
RowsAgree ==
    \A p \in Operations : operation'[p] = "ABSENT" <=> operation[p] = "ABSENT"

(* A step that adds no operation, and takes no attempt past its admission  *)
(* without one, keeps the operations in order and behind their attempts.   *)
LEMMA OrderKept ==
    ASSUME RowsAgree,
           OperationsInOrder, NewestThere, OperationBehind,
           \/ \E p \in Operations : operation[p] # "ABSENT"
           \/ \A a \in Attempts :
                  state'[a] \notin {"ABSENT", "PLANNED", "CANCELLED"} =>
                      state[a] \notin {"ABSENT", "PLANNED", "CANCELLED"}
    PROVE  OperationsInOrder' /\ NewestThere' /\ OperationBehind'
BY DEF RowsAgree, OperationsInOrder, NewestThere, OperationBehind,
   LatestOperation

(* So does a step that adds the next operation in order.                   *)
LEMMA OrderExtended ==
    ASSUME OperationsInOrder, NEW o \in Operations, NextOperation(o),
           operation \in [Operations -> OperationStates],
           operation' = [operation EXCEPT ![o] = "QUEUED"]
    PROVE  OperationsInOrder' /\ NewestThere' /\ OperationBehind'
<1>1. /\ operation'[o] = "QUEUED"
      /\ \A p \in Operations \ {o} : operation'[p] = operation[p]
  OBVIOUS
<1>2. Operations \subseteq Int
  BY DEF Operations
<1>3. \A p \in Operations : p < o => operation[p] # "ABSENT"
  BY <1>2 DEF NextOperation, Operations
<1>4. \A q \in Operations : q > o => operation'[q] = "ABSENT"
  BY <1>1, <1>2 DEF OperationsInOrder, NextOperation
<1>5. LatestOperation(o)'
  BY <1>1, <1>4 DEF LatestOperation
<1>6. OperationsInOrder'
  BY <1>1, <1>2, <1>3 DEF OperationsInOrder
<1>. QED
  BY <1>1, <1>5, <1>6 DEF NewestThere, OperationBehind

(* The step of one task: it goes on with its attempt, or it leaves neither *)
(* the attempt in flight nor the operation open.                           *)
LEMMA TaskAttends ==
    ASSUME SubmissionInv, AttendedInv, NEW o \in Operations, NEW a \in Attempts,
           a = task[o].of, task[o].pc \notin {"free", "created"},
           \A p \in Operations \ {o} :
               task'[p] = task[p] /\ operation'[p] = operation[p],
           \A b \in Attempts \ {a} : state'[b] = state[b] \/ Withdrawn(b),
           UNCHANGED <<phase, revoked>>,
           operation'[o] # "ABSENT",
           \/ WorksFor(o, a)' /\ UNCHANGED revoked
           \/ /\ state'[a] \notin InFlight
              /\ operation'[o] \in Unfinished => revoked # {}
    PROVE  AttendedInv'
<1>. USE DEF AttendedInv
<1>1. operation[o] # "ABSENT"
  BY DEF SubmissionInv, NoTaskYet, NoTask
<1>2. RowsAgree
  BY <1>1 DEF RowsAgree
<1>3. OperationsInOrder' /\ NewestThere' /\ OperationBehind'
  BY <1>1, <1>2, OrderKept
<1>4. FlightsWorked'
  BY DEF FlightsWorked, Flying, WorksFor, Withdrawn, InFlight, Early, Submitted
<1>5. OperationsOwned'
  BY DEF OperationsOwned, WorksFor
<1>. QED
  BY <1>3, <1>4, <1>5

(* The step of anything else leaves the tasks, and what it closes it does  *)
(* not reopen.                                                             *)
LEMMA OthersAttend ==
    ASSUME AttendedInv, UNCHANGED task, RowsAgree,
           \A a \in Attempts :
               /\ state'[a] \in InFlight => state[a] \in InFlight
               /\ state'[a] \notin {"ABSENT", "PLANNED", "CANCELLED"} =>
                      state[a] \notin {"ABSENT", "PLANNED", "CANCELLED"},
           \A o \in Operations :
               operation'[o] \in Unfinished => operation[o] \in Unfinished,
           phase = "closing" => phase' = "closing",
           revoked \subseteq revoked'
    PROVE  AttendedInv'
<1>. USE DEF AttendedInv
<1>1. OperationsInOrder' /\ NewestThere' /\ OperationBehind'
  BY OrderKept
<1>2. FlightsWorked'
  BY DEF FlightsWorked, Flying, WorksFor
<1>3. OperationsOwned'
  BY DEF OperationsOwned
<1>. QED
  BY <1>1, <1>2, <1>3

(* A task returns only with its attempt and its operation settled; claims  *)
(* and admissions bring a task along; a crash settles all that is open.    *)
LEMMA AttendedStep ==
    ASSUME SubmissionInv, PromiseInv, AttendedInv, [Next]_vars
    PROVE  AttendedInv'
<1>t. /\ task \in [Operations -> Task]
      /\ operation \in [Operations -> OperationStates]
      /\ state \in [Attempts -> AttemptStates]
      /\ revoked \subseteq Attempts
  BY DEF SubmissionInv, TypeOK, TaskType, AttemptType, HistoryType
<1>p. \A o \in Operations :
          task[o].pc \notin {"free", "created"} =>
              /\ task[o].of \in Attempts
              /\ state[task[o].of] \notin {"ABSENT", "PLANNED"}
              /\ operation[o] # "ABSENT"
              /\ Flies(task[o])
  BY DEF SubmissionInv, NoTaskYet, NoTask, TaskOwnsAttempt, PromiseInv,
     TaskFlying
<1>1. ASSUME NEW o \in Operations,
             \/ Start(o) \/ Precheck(o) \/ Acquire(o) \/ Boot(o)
             \/ Recheck(o) \/ SendTurn(o) \/ TurnReply(o) \/ AwaitTurn(o)
      PROVE  AttendedInv'
  <2>. DEFINE a == task[o].of
  <2>1. task[o].pc \notin {"free", "created"}
    BY <1>1 DEF Start, Precheck, Acquire, Boot, Recheck, SendTurn, TurnReply,
       AwaitTurn
  <2>2. /\ task'[o].of = a /\ task'[o].pc \notin {"free", "created", "incident"}
        /\ \A p \in Operations \ {o} : task'[p] = task[p]
    BY <1>1, <1>t DEF Start, Precheck, Acquire, Boot, Recheck, SendTurn,
       TurnReply, AwaitTurn, TurnOutcome, Notified, Goto, Raise, Task
  <2>3. UNCHANGED <<state, phase, revoked>>
    BY <1>1 DEF Start, Precheck, Acquire, Boot, Recheck, SendTurn, TurnReply,
       AwaitTurn, attemptVars, processVars, historyVars
  <2>4. /\ \A p \in Operations \ {o} : operation'[p] = operation[p]
        /\ operation'[o] \in {operation[o], "RUNNING"}
    BY <1>1, <1>t DEF Start, Precheck, Acquire, Boot, Recheck, SendTurn,
       TurnReply, AwaitTurn
  <2>5. WorksFor(o, a)' /\ a \in Attempts /\ operation'[o] # "ABSENT"
    BY <1>p, <2>1, <2>2, <2>4 DEF WorksFor
  <2>. QED
    BY <2>1, <2>2, <2>3, <2>4, <2>5, TaskAttends
<1>2. ASSUME NEW o \in Operations,
             CreateThread(o) \/ MarkDispatching(o) \/ AcceptTurn(o) \/ Finish(o)
      PROVE  AttendedInv'
  <2>. DEFINE a == task[o].of
  <2>1. task[o].pc \notin {"free", "created"} /\ UNCHANGED <<operation, phase, revoked>>
    BY <1>2 DEF CreateThread, MarkDispatching, AcceptTurn, Finish, processVars,
       historyVars
  <2>2. /\ task'[o].of = a /\ task'[o].pc \notin {"free", "created", "incident"}
        /\ \A p \in Operations \ {o} : task'[p] = task[p]
    BY <1>2, <1>t DEF CreateThread, MarkDispatching, AcceptTurn, Finish,
       AfterFinish, Goto, Raise, Task
  <2>3. \A b \in Attempts \ {a} : state'[b] = state[b] \/ Withdrawn(b)
    BY <1>2, <1>t DEF CreateThread, MarkDispatching, AcceptTurn, Finish,
       Quarantine, Moved, Withdrawn
  <2>4. WorksFor(o, a)' /\ a \in Attempts /\ operation'[o] # "ABSENT"
    BY <1>p, <2>1, <2>2 DEF WorksFor
  <2>. QED
    BY <2>1, <2>2, <2>3, <2>4, TaskAttends
<1>3. ASSUME NEW o \in Operations, Complete(o)
      PROVE  AttendedInv'
  <2>. DEFINE a == task[o].of
  <2>1. a \in Attempts /\ task[o].pc \notin {"free", "created"}
    BY <1>3, <1>p DEF Complete
  <2>2. /\ \A p \in Operations \ {o} :
               task'[p] = task[p] /\ operation'[p] = operation[p]
        /\ operation'[o] = "SUCCEEDED" /\ UNCHANGED <<phase, revoked>>
    BY <1>3, <1>t DEF Complete, Completion, Return, processVars, historyVars
  <2>3. /\ \A b \in Attempts \ {a} : state'[b] = state[b] \/ Withdrawn(b)
        /\ state'[a] \in Completed
    BY <1>3, <1>t, <2>1 DEF Complete, Completion, Moved, Withdrawn
  <2>. QED
    BY <2>1, <2>2, <2>3, TaskAttends DEF Completed, InFlight, Early,
       Submitted, Unfinished
<1>4. ASSUME NEW o \in Operations, HandleIneligible(o)
      PROVE  AttendedInv'
  <2>. DEFINE a == task[o].of
  <2>1. /\ task[o].pc = "pause" /\ UNCHANGED <<phase, revoked>>
        /\ a \in Attempts /\ operation[o] # "ABSENT" /\ Flies(task[o])
    BY <1>4, <1>p DEF HandleIneligible, processVars, historyVars
  <2>2. CASE Pause(o)
    <3>1. /\ \A p \in Operations \ {o} :
                 task'[p] = task[p] /\ operation'[p] = operation[p]
          /\ operation'[o] = "CANCELLED" /\ state'[a] = "PLANNED"
          /\ \A b \in Attempts \ {a} : state'[b] = state[b]
      BY <2>1, <2>2, <1>t DEF Pause, Rescheduled, Return
    <3>. QED
      BY <2>1, <3>1, TaskAttends DEF InFlight, Early, Submitted, Unfinished
  <2>3. CASE state[a] = "CANCELLED" /\ Return(o) /\ UNCHANGED <<state, operation>>
    <3>1. revoked # {}
      BY <2>1, <2>3 DEF Flies, InFlight, Early, Submitted
    <3>2. \A p \in Operations \ {o} : task'[p] = task[p]
      BY <2>3, <1>t DEF Return
    <3>. QED
      BY <2>1, <2>3, <3>1, <3>2, TaskAttends DEF InFlight, Early, Submitted
  <2>4. CASE Goto(o, "fail") /\ UNCHANGED <<state, operation>>
    <3>1. /\ WorksFor(o, a)' /\ task'[o].of = a
          /\ \A p \in Operations \ {o} : task'[p] = task[p]
      BY <2>4, <1>t DEF Goto, WorksFor, Task
    <3>2. /\ \A p \in Operations \ {o} :
                 task'[p] = task[p] /\ operation'[p] = operation[p]
          /\ \A b \in Attempts \ {a} : state'[b] = state[b] \/ Withdrawn(b)
          /\ operation'[o] # "ABSENT" /\ task[o].pc \notin {"free", "created"}
      BY <2>1, <2>4, <3>1
    <3>. QED
      BY <2>1, <3>1, <3>2, TaskAttends
  <2>. QED
    BY <1>4, <2>2, <2>3, <2>4 DEF HandleIneligible
<1>5. ASSUME NEW o \in Operations, RecordFailure(o)
      PROVE  AttendedInv'
  <2>. DEFINE a == task[o].of
  <2>1. a \in Attempts /\ task[o].pc = "fail" /\ UNCHANGED <<phase, revoked>>
    BY <1>5, <1>p DEF RecordFailure, processVars, historyVars
  <2>2. /\ \A p \in Operations \ {o} :
               task'[p] = task[p] /\ operation'[p] = operation[p]
        /\ operation'[o] \in {"AMBIGUOUS", "FAILED"}
        /\ state'[a] \in {"AMBIGUOUS", "FAILED_DEFINITE"}
        /\ \A b \in Attempts \ {a} : state'[b] = state[b]
    BY <1>5, <1>t, <2>1 DEF RecordFailure, Failure, Goto, Return
  <2>. QED
    BY <2>1, <2>2, TaskAttends DEF InFlight, Early, Submitted, Unfinished
<1>6. ASSUME NEW o \in Operations, OpenIncident(o)
      PROVE  AttendedInv'
  <2>1. /\ task[o].pc = "incident" /\ UNCHANGED <<state, operation, phase, revoked>>
        /\ task' = [task EXCEPT ![o] = NoTask]
    BY <1>6 DEF OpenIncident, Return, attemptVars, processVars, historyVars
  <2>2. OperationsInOrder' /\ NewestThere' /\ OperationBehind'
    BY <2>1, OrderKept DEF AttendedInv, RowsAgree
  <2>3. FlightsWorked' /\ OperationsOwned'
    BY <2>1, <1>t DEF AttendedInv, FlightsWorked, OperationsOwned, Flying,
       WorksFor
  <2>. QED
    BY <2>2, <2>3 DEF AttendedInv
<1>7. ASSUME NEW o \in Operations, Claim(o)
      PROVE  AttendedInv'
  <2>1. PICK a \in Attempts :
            /\ state' = [state EXCEPT ![a] = "QUEUED"]
            /\ task' = [task EXCEPT ![o] = [pc |-> "queued", of |-> a,
                                            error |-> "none"]]
    BY <1>7 DEF Claim
  <2>2. /\ NextOperation(o) /\ operation' = [operation EXCEPT ![o] = "QUEUED"]
        /\ task[o] = NoTask /\ UNCHANGED <<phase, revoked>>
    BY <1>7 DEF Claim, NextOperation, SubmissionInv, NoTaskYet, processVars,
       historyVars
  <2>3. OperationsInOrder' /\ NewestThere' /\ OperationBehind'
    BY <1>t, <2>2, OrderExtended DEF AttendedInv
  <2>4. /\ WorksFor(o, a)'
        /\ \A p \in Operations \ {o} : task'[p] = task[p]
        /\ \A b \in Attempts : ~WorksFor(o, b)
    BY <1>t, <2>1, <2>2 DEF WorksFor, NoTask
  <2>5. FlightsWorked'
    BY <1>t, <2>1, <2>2, <2>4 DEF AttendedInv, FlightsWorked, Flying, WorksFor
  <2>6. OperationsOwned'
    BY <1>t, <2>2, <2>4 DEF AttendedInv, OperationsOwned, WorksFor
  <2>. QED
    BY <2>3, <2>5, <2>6 DEF AttendedInv
<1>8. ASSUME NEW o \in Operations, ActivateRequest(o)
      PROVE  AttendedInv'
  <2>1. /\ NextOperation(o) /\ operation' = [operation EXCEPT ![o] = "QUEUED"]
        /\ task[o] = NoTask /\ task' = [task EXCEPT ![o].pc = "created"]
        /\ UNCHANGED <<state, phase, revoked>>
    BY <1>8 DEF ActivateRequest, Goto, NextOperation, SubmissionInv, NoTaskYet,
       attemptVars, processVars, historyVars
  <2>2. OperationsInOrder' /\ NewestThere' /\ OperationBehind'
    BY <1>t, <2>1, OrderExtended DEF AttendedInv
  <2>3. FlightsWorked' /\ OperationsOwned'
    BY <1>t, <2>1 DEF AttendedInv, FlightsWorked, OperationsOwned, Flying,
       WorksFor, NoTask, Task
  <2>. QED
    BY <2>2, <2>3 DEF AttendedInv
<1>9. ASSUME NEW o \in Operations, ActivateAdmit(o)
      PROVE  AttendedInv'
  <2>1. /\ task[o].pc = "created" /\ UNCHANGED <<phase, revoked>>
        /\ operation[o] # "ABSENT"
    BY <1>9 DEF ActivateAdmit, SubmissionInv, NoTaskYet, NoTask, processVars,
       historyVars
  <2>2. ASSUME NEW a \in Attempts, AdmitAttempt(o, a)
        PROVE  AttendedInv'
    <3>1. /\ WorksFor(o, a)' /\ UNCHANGED operation
          /\ \A p \in Operations \ {o} : task'[p] = task[p]
          /\ \A b \in Attempts : ~WorksFor(o, b)
          /\ \A b \in Attempts \ {a} : state'[b] = state[b]
      BY <1>t, <2>1, <2>2 DEF AdmitAttempt, WorksFor, Task
    <3>2. OperationsInOrder' /\ NewestThere' /\ OperationBehind'
      BY <2>1, <3>1, OrderKept DEF AttendedInv, RowsAgree
    <3>3. FlightsWorked' /\ OperationsOwned'
      BY <1>t, <2>1, <3>1 DEF AttendedInv, FlightsWorked, OperationsOwned,
         Flying, WorksFor
    <3>. QED
      BY <3>2, <3>3 DEF AttendedInv
  <2>3. CASE RejectDuplicate(o)
    <3>1. /\ operation' = [operation EXCEPT ![o] = "FAILED"]
          /\ task' = [task EXCEPT ![o] = NoTask] /\ UNCHANGED state
      BY <2>3 DEF RejectDuplicate, Return
    <3>2. OperationsInOrder' /\ NewestThere' /\ OperationBehind'
      BY <1>t, <2>1, <3>1, OrderKept DEF AttendedInv, RowsAgree
    <3>3. FlightsWorked' /\ OperationsOwned'
      BY <1>t, <2>1, <3>1 DEF AttendedInv, FlightsWorked, OperationsOwned,
         Flying, WorksFor, Unfinished
    <3>. QED
      BY <3>2, <3>3 DEF AttendedInv
  <2>. QED
    BY <1>9, <2>2, <2>3 DEF ActivateAdmit, AdmitPlanned, AdmitNew
<1>10. CASE \/ Tick \/ (\E a \in Attempts : UpstreamEnds(a))
            \/ (\E p \in Planners : PlannerStep(p)) \/ RefreshStep
  <2>1. UNCHANGED <<task, operation, phase, revoked>>
    BY <1>10 DEF Tick, UpstreamEnds, PlannerStep, ResolveIncident, PlanAccount,
       PlanEvidence, PlanCreate, RefreshStep, RefreshAcquire, RefreshRead,
       CommitUsage, RecordUsageFailure, taskVars, processVars, historyVars
  <2>2. \A a \in Attempts : state'[a] \in {state[a], "PLANNED", "CANCELLED"}
    BY <1>10, <1>t DEF Tick, UpstreamEnds, PlannerStep, ResolveIncident,
       PlanAccount, PlanEvidence, PlanCreate, PlanInsert, RefreshStep,
       RefreshAcquire, RefreshRead, Quarantine, Moved, CommitUsage,
       RecordUsageFailure, attemptVars
  <2>. QED
    BY <2>1, <2>2, OthersAttend DEF RowsAgree, InFlight, Early, Submitted
<1>11. CASE \/ Enable \/ Acknowledge \/ Delete \/ RecoverCredential
            \/ Reauthenticate \/ SignInLost \/ RefreshStart
  <2>1. UNCHANGED <<task, operation, phase, revoked>>
    BY <1>11 DEF Enable, Acknowledge, Delete, RecoverCredential,
       Reauthenticate, SignInLost, RefreshStart, taskVars, processVars,
       historyVars
  <2>2. \A a \in Attempts :
           \/ state'[a] \in {state[a], "CANCELLED"}
           \/ state[a] = "AMBIGUOUS" /\ state'[a] = "AMBIGUOUS_CLOSED"
    BY <1>11, <1>t DEF Enable, Acknowledge, AfterReview, Delete,
       RecoverCredential, Reauthenticate, SignInLost, Quarantine, Moved,
       RefreshStart, attemptVars
  <2>. QED
    BY <2>1, <2>2, OthersAttend DEF RowsAgree, InFlight, Early, Submitted
<1>12. CASE Disable
  <2>1. /\ UNCHANGED <<task, phase>> /\ revoked \subseteq revoked'
        /\ \A a \in Attempts : state'[a] \in {state[a], "CANCELLED"}
        /\ \A o \in Operations :
               \/ operation'[o] = operation[o]
               \/ operation[o] = "QUEUED" /\ operation'[o] = "CANCELLED"
    BY <1>12, <1>t DEF Disable, AfterDisable, processVars
  <2>. QED
    BY <2>1, OthersAttend DEF RowsAgree, InFlight, Early, Submitted, Unfinished
<1>13. CASE Close
  <2>1. phase' = "closing"
    BY <1>13 DEF Close
  <2>2. ASSUME NoJobRuns
        PROVE  AttendedInv'
    BY <2>1, <2>2, OrderKept DEF NoJobRuns, RowsAgree, AttendedInv,
       FlightsWorked, OperationsOwned
  <2>3. ASSUME NEW o \in Operations, CompletionRuns(o)
        PROVE  AttendedInv'
    <3>1. operation[o] # "ABSENT"
      BY <2>3, <1>p DEF CompletionRuns
    <3>2. RowsAgree
      BY <1>t, <2>3, <3>1 DEF CompletionRuns, Completion, RowsAgree
    <3>. QED
      BY <2>1, <3>1, <3>2, OrderKept DEF AttendedInv, FlightsWorked,
         OperationsOwned
  <2>. QED
    BY <1>13, <2>2, <2>3 DEF Close
<1>14. CASE Restart
  <2>1. /\ \A a \in Attempts :
               /\ state'[a] \notin InFlight
               /\ state'[a] \notin {"ABSENT", "PLANNED", "CANCELLED"} =>
                      state[a] \notin {"ABSENT", "PLANNED", "CANCELLED"}
        /\ \A o \in Operations : operation'[o] \notin Unfinished
        /\ RowsAgree
    BY <1>14, <1>t DEF Restart, AfterRestart, InFlight, Early, Submitted,
       Unfinished, RowsAgree
  <2>2. OperationsInOrder' /\ NewestThere' /\ OperationBehind'
    BY <2>1, OrderKept DEF AttendedInv
  <2>. QED
    BY <2>1, <2>2 DEF AttendedInv, FlightsWorked, OperationsOwned, Flying
<1>15. ASSUME NEW a \in Attempts,
              ReconcileStart(a) \/ ReconcileRead(a) \/ ReconcileAnnounce(a)
       PROVE  AttendedInv'
  <2>1. UNCHANGED <<task, operation, phase, revoked>>
    BY <1>15 DEF ReconcileStart, ReconcileRead, ReconcileAnnounce, taskVars,
       historyVars
  <2>2. \A b \in Attempts : state'[b] \in {state[b], "CANCELLED"}
    BY <1>15, <1>t DEF ReconcileStart, ReconcileRead, ReconcileAnnounce,
       Quarantine, Moved, attemptVars
  <2>. QED
    BY <2>1, <2>2, OthersAttend DEF RowsAgree, InFlight, Early, Submitted
<1>16. ASSUME NEW a \in Attempts, ReconcileSettle(a)
       PROVE  AttendedInv'
  <2>1. /\ state[a] = "AMBIGUOUS" /\ UNCHANGED <<task, phase, revoked>>
    BY <1>16 DEF ReconcileSettle, PromiseInv, ReconKnows, historyVars
  <2>2. PICK p \in Operations :
            LatestOperation(p) /\ (Completion(a, p) \/ \E e \in Errors : Failure(a, p, e))
    BY <1>16 DEF ReconcileSettle, Errors
  <2>3. /\ \A b \in Attempts : state'[b] \in
               {state[b], "CANCELLED", "AMBIGUOUS", "FAILED_DEFINITE"} \cup Completed
        /\ \A b \in Attempts \ {a} : state'[b] \in {state[b], "CANCELLED"}
        /\ operation'[p] \in {"SUCCEEDED", "AMBIGUOUS", "FAILED"}
        /\ \A q \in Operations \ {p} : operation'[q] = operation[q]
    BY <1>t, <2>2 DEF Completion, Failure, Moved
  <2>4. RowsAgree
    BY <2>2, <2>3 DEF RowsAgree, LatestOperation
  <2>. QED
    BY <2>1, <2>3, <2>4, OthersAttend DEF InFlight, Early, Submitted,
       Unfinished, Completed
<1>17. CASE ReconcileDone
  <2>1. UNCHANGED <<task, operation, state, revoked>> /\ phase # "closing"
    BY <1>17 DEF ReconcileDone, taskVars, attemptVars, historyVars
  <2>. QED
    BY <2>1, OthersAttend DEF RowsAgree
<1>18. CASE UNCHANGED vars
  BY <1>18, OthersAttend DEF vars, taskVars, attemptVars, processVars,
     historyVars, RowsAgree
<1>. QED
  BY <1>1, <1>2, <1>3, <1>4, <1>5, <1>6, <1>7, <1>8, <1>9, <1>10, <1>11,
     <1>12, <1>13, <1>14, <1>15, <1>16, <1>17, <1>18 DEF Next, TaskStep,
     OperatorStep, ReconcileStep

(* Nothing is in flight and no operation there before the first claim.     *)
LEMMA AttendedInit ==
    ASSUME Init
    PROVE  AttendedInv
BY DEF Init, AttendedInv, FlightsWorked, OperationsOwned, OperationsInOrder,
   NewestThere, OperationBehind, Flying, InFlight, Early, Submitted,
   Unfinished

(* Nobody is forgotten: every attempt in flight has its task, every open   *)
(* operation somebody who ends it, every outcome reconciliation has read   *)
(* an operation to record it on; so that fairness, which is assumed of     *)
(* tasks, is enough for attempts and operations to come to rest.           *)
THEOREM NobodyForgotten == Spec => []Attended
<1>1. SubmissionInv /\ PromiseInv /\ AttendedInv /\ [Next]_vars => AttendedInv'
  BY AttendedStep
<1>2. PromiseInv /\ AttendedInv => Attended
  <2>1. SUFFICES ASSUME PromiseInv, AttendedInv, NEW a \in Attempts,
                        recon[a] \in {"completed", "failed", "unsafe"}
                 PROVE  \E p \in Operations : LatestOperation(p)
    BY DEF AttendedInv, FlightsWorked, OperationsOwned, Attended
  <2>2. state[a] = "AMBIGUOUS"
    BY <2>1 DEF PromiseInv, ReconKnows
  <2>. QED
    BY <2>1, <2>2 DEF AttendedInv, OperationBehind, NewestThere
<1>. QED
  BY <1>1, <1>2, AttendedInit, Submission, PromiseBasis, PTL DEF Spec
==============================================================================
