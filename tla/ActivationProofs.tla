-------------------------- MODULE ActivationProofs --------------------------
(***************************************************************************)
(* Theorems about Activation for every value of its constants: the type    *)
(* invariant, and that no attempt is ever submitted twice.                 *)
(***************************************************************************)
EXTENDS Activation, TLAPS

(* Steps before the turn/start request of the attempt is written.          *)
BeforeSend == {"queued", "precheck", "waiting", "boot", "thread", "recheck",
               "mark", "send", "pause"}

(* An operations row that is not there has no task.                        *)
NoTaskYet == \A o \in Operations : operation[o] = "ABSENT" => task[o] = NoTask

(* A task past its admission has an attempt, and nobody else plans or      *)
(* admits that attempt again.                                              *)
TaskOwnsAttempt ==
    \A o \in Operations :
        /\ task[o].pc \in {"free", "created"} => task[o].of = 0
        /\ task[o].pc \notin {"free", "created"} =>
              /\ task[o].of \in Attempts
              /\ state[task[o].of] \notin {"ABSENT", "PLANNED"}

(* No two tasks work for one attempt.                                      *)
TasksApart ==
    \A o, p \in Operations :
        o # p /\ task[o].of # 0 => task[o].of # task[p].of

(* What has not been submitted yet: an attempt that may still be claimed,  *)
(* and one whose task is on its way to the submission or turned back.      *)
UnsentPlans ==
    \A a \in Attempts : state[a] \in {"ABSENT", "PLANNED"} => sends[a] = 0
Unsent(t) ==
    \/ t.pc \in BeforeSend
    \/ t.pc = "finish" /\ t.error = "ineligible"
UnsentTasks == \A o \in Operations : Unsent(task[o]) => sends[task[o].of] = 0

(* A task has no error before its managed run ends.                        *)
Late == {"finish", "pause", "fail", "incident"}
ErrorsLate ==
    \A o \in Operations : task[o].pc \notin Late => task[o].error = "none"

(* AtMostOneSubmission is not inductive by itself: a second task for the   *)
(* attempt, or one that starts again for an attempt already sent, would    *)
(* break it in two steps.                                                  *)
SubmissionInv ==
    /\ TypeOK
    /\ NoTaskYet
    /\ TaskOwnsAttempt
    /\ TasksApart
    /\ UnsentPlans
    /\ UnsentTasks
    /\ ErrorsLate
    /\ AtMostOneSubmission
-----------------------------------------------------------------------------
(* Consequences of the constants' assumptions used below.                  *)
LEMMA ConstantTypes ==
    /\ Duration \in Nat /\ Delay \in Nat /\ Day \in Nat /\ Day # 0
    /\ Resets \cup {0} \subseteq Nat
BY ScheduleAssumption, ActivationAssumption

(* What the planner decides is a decision: a key of one of the kinds, and  *)
(* natural numbers for the times.                                          *)
LEMMA DecisionType ==
    ASSUME TypeOK
    PROVE  DecideSchedule(Evidence) \in Decision
<1>1. LastProven \in Nat
  BY DEF LastProven, TypeOK, AttemptType
<1>2. usage.reset \in Resets \cup {0}
  BY DEF TypeOK, UsageType
<1>3. now \in Nat
  BY DEF TypeOK, UsageType
<1>4. /\ Evidence.short.reset = usage.reset /\ Evidence.now = now
      /\ Evidence.last = LastProven /\ Evidence.short.duration = Duration
      /\ Evidence.delay = Delay
  BY DEF Evidence
<1>5. /\ Evidence.short.reset \in Nat /\ Evidence.now \in Nat
      /\ Evidence.last \in Nat /\ Evidence.short.duration \in Nat
      /\ Evidence.delay \in Nat
  BY <1>1, <1>2, <1>3, <1>4, ConstantTypes
<1>6. \A c \in Confidences : Nothing(c) \in Decision
  BY DEF Nothing, Decision, Confidences, NoKey, Key, KeyKinds
<1>7. Initial(Evidence) \in Decision
  BY <1>5 DEF Initial, Decision, RunUnlessUsed, InitialKey, Key, KeyKinds,
     Confidences
<1>8. Estimate(Evidence) \in Decision
  BY <1>5 DEF Estimate, Decision, RunUnlessUsed, EstimatedKey, Key, KeyKinds,
     Confidences
<1>9. Reported(Evidence) \in Decision
  BY <1>5 DEF Reported, Decision, RunUnlessUsed, ReportedKey, Key, KeyKinds,
     Confidences
<1>. QED
  BY <1>6, <1>7, <1>8, <1>9 DEF DecideSchedule, Confidences

(* What close() leaves of a task: it ends, or goes on with the same attempt *)
(* to its clean-up or its failure, never towards a submission.             *)
LEMMA CancelledTask ==
    ASSUME NEW t \in Task
    PROVE  /\ Cancelled(t) \in Task
           /\ \/ Cancelled(t) = NoTask
              \/ Cancelled(t).of = t.of
           /\ t.pc \in {"free", "created"} => Cancelled(t) = t
           /\ \/ t.pc \in {"free", "created"}
              \/ Cancelled(t) = NoTask
              \/ Cancelled(t).pc \in {"finish", "fail"}
           /\ Unsent(Cancelled(t)) => Unsent(t) /\ Cancelled(t) = t
<1>. USE DEF Cancelled, Managed, NoTask
<1>0. PICK pc \in Steps, of \in Attempts \cup {0}, error \in Errors :
         t = [pc |-> pc, of |-> of, error |-> error]
  BY DEF Task
<1>1. CASE pc \in {"queued", "precheck", "waiting", "complete", "boot"}
  BY ZenonT(30), <1>0, <1>1 DEF Task, Steps, Errors, Unsent, BeforeSend
<1>2. CASE pc \in Managed \ {"boot", "finish"}
  BY ZenonT(30), <1>0, <1>2 DEF Task, Steps, Errors, Unsent, BeforeSend
<1>3. CASE pc = "finish"
  BY <1>0, <1>3 DEF Task, Steps, Errors, Unsent, BeforeSend
<1>4. CASE pc \in {"pause", "fail", "incident"}
  BY <1>0, <1>4 DEF Task, Steps, Errors, Unsent, BeforeSend
<1>5. CASE pc \in {"free", "created"}
  BY <1>0, <1>5 DEF Task, Steps, Errors, Unsent, BeforeSend
<1>. QED
  BY <1>0, <1>1, <1>2, <1>3, <1>4, <1>5 DEF Steps

(* A coroutine outside plan() carries no decision yet.                     *)
LEMMA IdleType ==
    IdlePlanner \in [pc : {"idle"}, decision : Decision, read : SUBSET Attempts]
BY DEF IdlePlanner, NoDecision, Nothing, Decision, NoKey, Key, KeyKinds,
   Confidences

(* The window that activate() writes for a request of the operator is one: *)
(* the reported reset, or the day of the clock.                            *)
LEMMA ManualType == ASSUME TypeOK PROVE ManualWindow \in Window
<1>1. now \in Nat /\ usage.reset \in Nat
  BY ConstantTypes DEF TypeOK, UsageType
<1>2. ReportedKey(usage.reset) \in Key
  BY <1>1 DEF ReportedKey, Key, KeyKinds
<1>3. now \div Day \in Nat
  BY <1>1, ConstantTypes
<1>4. ManualKey(now) \in Key
  BY <1>3 DEF ManualKey, Key, KeyKinds
<1>. QED
  BY <1>1, <1>2, <1>4 DEF ManualWindow, Window

(* A step that leaves a group of columns or coroutines alone leaves their  *)
(* types alone.                                                            *)
LEMMA TypeFrame ==
    ASSUME TypeOK
    PROVE  /\ UNCHANGED <<now, usageVars>> => UsageType'
           /\ UNCHANGED accountVars => AccountType'
           /\ UNCHANGED attemptVars => AttemptType'
           /\ UNCHANGED taskVars => TaskType'
           /\ UNCHANGED helperVars => HelperType'
           /\ UNCHANGED processVars => ProcessType'
           /\ UNCHANGED upstreamVars => UpstreamType'
           /\ UNCHANGED historyVars => HistoryType'
BY DEF TypeOK, UsageType, AccountType, TaskType, HelperType, ProcessType,
   UpstreamType, HistoryType, usageVars, accountVars, attemptVars, taskVars,
   helperVars, processVars, upstreamVars, historyVars, AttemptType

(* Every database job and every await of every coroutine writes values of  *)
(* the right kind, in particular plan() a well-formed window and the       *)
(* handlers of one task only states of its own attempt.                    *)
LEMMA TypeStep ==
    ASSUME TypeOK, TaskOwnsAttempt, [Next]_vars
    PROVE  TypeOK'
<1>1. ASSUME Tick
      PROVE  TypeOK'
  <2>1. UsageType'
    BY <1>1 DEF TypeOK, usageVars, Tick, UsageType
  <2>. QED
    BY <1>1, <2>1, TypeFrame DEF Tick, TypeOK
<1>2. ASSUME NEW a \in Attempts, UpstreamEnds(a)
      PROVE  TypeOK'
  <2>1. UpstreamType'
    BY <1>2 DEF TypeOK, UpstreamEnds, UpstreamType
  <2>. QED
    BY <1>2, <2>1, TypeFrame DEF UpstreamEnds, TypeOK
<1>3. ASSUME NEW o \in Operations, Claim(o)
      PROVE  TypeOK'
  <2>1. AccountType'
    BY <1>3 DEF TypeOK, ActivationStates, Early, Submitted, InFlight, Open,
       Blocked, Some, Earliest, NextOperation, DuePlans, Claim, AccountType
  <2>2. AttemptType'
    BY <1>3 DEF TypeOK, AttemptStates, Early, Submitted, InFlight, Open,
       Blocked, Some, Earliest, NextOperation, DuePlans, Claim, AttemptType
  <2>3. TaskType'
    <3>1. PICK a \in Attempts : task' = [task EXCEPT ![o] =
                  [pc |-> "queued", of |-> a, error |-> "none"]]
      BY <1>3 DEF Claim
    <3>. QED
      BY <1>3, <3>1 DEF Claim, TypeOK, TaskType, Task, Steps, Errors,
         OperationStates
  <2>. QED
    BY <1>3, <2>1, <2>2, <2>3, TypeFrame DEF Claim, TypeOK
<1>4. ASSUME NEW o \in Operations, ActivateRequest(o)
      PROVE  TypeOK'
  <2>1. TaskType'
    BY <1>4 DEF TypeOK, OperationStates, Blocked, Managed, Steps, Errors,
       NextOperation, Goto, ActivateRequest, TaskType, Task
  <2>. QED
    BY <1>4, <2>1, TypeFrame DEF ActivateRequest, TypeOK
<1>5. ASSUME NEW o \in Operations, ActivateAdmit(o)
      PROVE  TypeOK'
  <2>1. AttemptType'
    <3>1. now \in Nat
      BY DEF TypeOK, UsageType
    <3>2. ASSUME NEW a \in Attempts PROVE [window[a] EXCEPT !.due = now] \in Window
      BY <3>1 DEF TypeOK, Window, AttemptType
    <3>3. window' \in [Attempts -> Window]
      BY <1>5, <3>2, ManualType DEF TypeOK, ActivateAdmit, AdmitPlanned,
         AdmitNew, RejectDuplicate, AttemptType
    <3>4. state' \in [Attempts -> AttemptStates] /\ UNCHANGED provenAt
      BY <1>5 DEF TypeOK, AttemptStates, ActivateAdmit, AdmitPlanned,
         AdmitNew, RejectDuplicate, AdmitAttempt, AttemptType
    <3>. QED
      BY <3>3, <3>4 DEF TypeOK, AttemptType
  <2>2. TaskType'
    BY <1>5 DEF TypeOK, OperationStates, Early, Submitted, InFlight, Open,
       Managed, Steps, Errors, NoTask, Some, Earliest, NextAttempt, Return,
       Planned, AdmitAttempt, AdmitPlanned, AdmitNew, RejectDuplicate,
       ActivateAdmit, TaskType, Task
  <2>. QED
    BY <1>5, <2>1, <2>2, TypeFrame DEF ActivateAdmit, TypeOK
<1>6. ASSUME NEW o \in Operations, Start(o)
      PROVE  TypeOK'
  <2>1. TaskType'
    BY <1>6 DEF TypeOK, OperationStates, Managed, Steps, Errors, Goto, Start,
       TaskType, Task
  <2>. QED
    BY <1>6, <2>1, TypeFrame DEF Start, TypeOK
<1>7. ASSUME NEW o \in Operations, Precheck(o)
      PROVE  TypeOK'
  <2>1. TaskType'
    BY <1>7 DEF TypeOK, OperationStates, Managed, Steps, Errors, Goto, Raise,
       Precheck, TaskType, Task
  <2>. QED
    BY <1>7, <2>1, TypeFrame DEF Precheck, TypeOK
<1>8. ASSUME NEW o \in Operations, Acquire(o)
      PROVE  TypeOK'
  <2>1. AccountType'
    BY <1>8 DEF TypeOK, Goto, Raise, Acquire, AccountType
  <2>2. TaskType'
    BY <1>8 DEF TypeOK, OperationStates, Managed, Steps, Errors, Goto, Raise,
       Acquire, TaskType, Task
  <2>. QED
    BY <1>8, <2>1, <2>2, TypeFrame DEF Acquire, TypeOK
<1>9. ASSUME NEW o \in Operations, Boot(o)
      PROVE  TypeOK'
  <2>1. AccountType'
    BY <1>9 DEF TypeOK, Goto, Raise, Boot, AccountType
  <2>2. TaskType'
    BY <1>9 DEF TypeOK, OperationStates, Managed, Steps, Errors, Goto, Raise,
       Boot, TaskType, Task
  <2>. QED
    BY <1>9, <2>1, <2>2, TypeFrame DEF Boot, TypeOK
<1>10. ASSUME NEW o \in Operations, CreateThread(o)
      PROVE  TypeOK'
  <2>1. AttemptType'
    BY <1>10 DEF TypeOK, AttemptStates, Goto, Raise, CreateThread,
       AttemptType
  <2>2. TaskType'
    BY <1>10 DEF TypeOK, OperationStates, Managed, Steps, Errors, Goto,
       Raise, CreateThread, TaskType, Task
  <2>. QED
    BY <1>10, <2>1, <2>2, TypeFrame DEF CreateThread, TypeOK
<1>11. ASSUME NEW o \in Operations, Recheck(o)
      PROVE  TypeOK'
  <2>1. TaskType'
    BY <1>11 DEF TypeOK, OperationStates, Managed, Steps, Errors, Goto,
       Raise, Recheck, TaskType, Task
  <2>. QED
    BY <1>11, <2>1, TypeFrame DEF Recheck, TypeOK
<1>12. ASSUME NEW o \in Operations, MarkDispatching(o)
      PROVE  TypeOK'
  <2>1. AttemptType'
    BY <1>12 DEF TypeOK, AttemptStates, Goto, MarkDispatching, AttemptType
  <2>2. TaskType'
    BY <1>12 DEF TypeOK, OperationStates, Managed, Steps, Errors, Goto,
       MarkDispatching, TaskType, Task
  <2>. QED
    BY <1>12, <2>1, <2>2, TypeFrame DEF MarkDispatching, TypeOK
<1>13. ASSUME NEW o \in Operations, SendTurn(o)
      PROVE  TypeOK'
  <2>1. TaskType'
    BY <1>13 DEF TypeOK, OperationStates, Managed, Steps, Errors, Goto,
       SendTurn, TaskType, Task
  <2>2. UpstreamType'
    <3>1. task[o].of \in Attempts /\ sends[task[o].of] + 1 \in Nat
      BY <1>13 DEF SendTurn, TaskOwnsAttempt, TypeOK, UpstreamType
    <3>. QED
      BY <1>13, <3>1 DEF SendTurn, TypeOK, UpstreamType
  <2>. QED
    BY <1>13, <2>1, <2>2, TypeFrame DEF SendTurn, TypeOK
<1>14. ASSUME NEW o \in Operations, TurnReply(o)
      PROVE  TypeOK'
  <2>1. TaskType'
    BY <1>14 DEF TypeOK, OperationStates, Managed, Steps, Errors, Goto,
       Raise, TurnReply, TaskType, Task
  <2>2. UpstreamType'
    BY <1>14 DEF TypeOK, Goto, Raise, TurnReply, UpstreamType
  <2>. QED
    BY <1>14, <2>1, <2>2, TypeFrame DEF TurnReply, TypeOK
<1>15. ASSUME NEW o \in Operations, AcceptTurn(o)
      PROVE  TypeOK'
  <2>1. AttemptType'
    BY <1>15 DEF TypeOK, AttemptStates, Goto, AcceptTurn, AttemptType
  <2>2. TaskType'
    BY <1>15 DEF TypeOK, OperationStates, Managed, Steps, Errors, Goto,
       AcceptTurn, TaskType, Task
  <2>. QED
    BY <1>15, <2>1, <2>2, TypeFrame DEF AcceptTurn, TypeOK
<1>16. ASSUME NEW o \in Operations, AwaitTurn(o)
      PROVE  TypeOK'
  <2>1. TaskType'
    BY <1>16 DEF TypeOK, OperationStates, Managed, Steps, Errors, Goto,
       Raise, Notified, TurnOutcome, AwaitTurn, TaskType, Task
  <2>. QED
    BY <1>16, <2>1, TypeFrame DEF AwaitTurn, TypeOK
<1>17. ASSUME NEW o \in Operations, Finish(o)
      PROVE  TypeOK'
  <2>1. AccountType'
    BY <1>17 DEF TypeOK, ActivationStates, Moved, Goto, Raise, Quarantine,
       Finish, AccountType
  <2>2. AttemptType'
    BY <1>17 DEF TypeOK, AttemptStates, Moved, Goto, Raise, Quarantine,
       Finish, AttemptType
  <2>3. TaskType'
    BY <1>17 DEF TypeOK, OperationStates, Managed, Steps, Errors, Moved,
       Goto, Raise, Quarantine, AfterFinish, Finish, TaskType, Task
  <2>4. ProcessType'
    BY <1>17 DEF TypeOK, ReconSteps, Moved, Goto, Raise, Quarantine, Finish,
       ProcessType
  <2>. QED
    BY <1>17, <2>1, <2>2, <2>3, <2>4, TypeFrame DEF Finish, TypeOK
<1>18. ASSUME NEW o \in Operations, Complete(o)
      PROVE  TypeOK'
  <2>1. AccountType'
    BY <1>18 DEF TypeOK, ActivationStates, Completed, NoTask, Moved, Return,
       Completion, Complete, AccountType
  <2>2. AttemptType'
    BY ZenonT(30), <1>18 DEF TypeOK, AttemptStates, Completed, NoTask, Moved, Return,
       Completion, Complete, UsageType, AttemptType
  <2>3. TaskType'
    BY <1>18 DEF TypeOK, OperationStates, Completed, Managed, Steps, Errors,
       NoTask, Moved, Return, Completion, Complete, TaskType, Task
  <2>. QED
    BY <1>18, <2>1, <2>2, <2>3, TypeFrame DEF Complete, TypeOK
<1>19. ASSUME NEW o \in Operations, HandleIneligible(o)
      PROVE  TypeOK'
  <2>1. AccountType'
    BY <1>19 DEF TypeOK, ActivationStates, NoTask, Goto, Return, Rescheduled,
       Pause, HandleIneligible, AccountType
  <2>2. AttemptType'
    BY <1>19 DEF TypeOK, AttemptStates, NoTask, Goto, Return, Rescheduled,
       Pause, HandleIneligible, AttemptType
  <2>3. TaskType'
    BY <1>19 DEF TypeOK, OperationStates, Managed, Steps, Errors, NoTask,
       Goto, Return, Rescheduled, Pause, HandleIneligible, TaskType, Task
  <2>. QED
    BY <1>19, <2>1, <2>2, <2>3, TypeFrame DEF HandleIneligible, TypeOK
<1>20. ASSUME NEW o \in Operations, RecordFailure(o)
      PROVE  TypeOK'
  <2>1. AccountType'
    BY <1>20 DEF TypeOK, ActivationStates, NoTask, Goto, Return, Failure,
       RecordFailure, AccountType
  <2>2. AttemptType'
    BY <1>20 DEF TypeOK, AttemptStates, NoTask, Goto, Return, Failure,
       RecordFailure, AttemptType
  <2>3. TaskType'
    BY <1>20 DEF TypeOK, OperationStates, Managed, Steps, Errors, NoTask,
       Goto, Return, Failure, RecordFailure, TaskType, Task
  <2>. QED
    BY <1>20, <2>1, <2>2, <2>3, TypeFrame DEF RecordFailure, TypeOK
<1>21. ASSUME NEW o \in Operations, OpenIncident(o)
      PROVE  TypeOK'
  <2>1. AccountType'
    BY <1>21 DEF TypeOK, NoTask, Return, OpenIncident, AccountType
  <2>2. TaskType'
    BY <1>21 DEF TypeOK, OperationStates, Managed, Steps, Errors, NoTask,
       Return, OpenIncident, TaskType, Task
  <2>. QED
    BY <1>21, <2>1, <2>2, TypeFrame DEF OpenIncident, TypeOK
<1>22. ASSUME Disable
      PROVE  TypeOK'
  <2>1. AccountType'
    BY <1>22 DEF TypeOK, Early, Disable, AccountType
  <2>2. AttemptType'
    BY <1>22 DEF TypeOK, AttemptStates, Early, AfterDisable, Disable,
       AttemptType
  <2>3. TaskType'
    BY <1>22 DEF TypeOK, OperationStates, Early, Managed, Steps, Errors,
       Disable, TaskType, Task
  <2>4. HistoryType'
    BY <1>22 DEF TypeOK, Early, Disable, HistoryType
  <2>. QED
    BY <1>22, <2>1, <2>2, <2>3, <2>4, TypeFrame DEF Disable, TypeOK
<1>23. ASSUME Enable
      PROVE  TypeOK'
  <2>1. AccountType'
    BY <1>23 DEF TypeOK, StartPlanner, Enable, AccountType
  <2>2. HelperType'
    BY <1>23 DEF TypeOK, StartPlanner, Enable, HelperType
  <2>. QED
    BY <1>23, <2>1, <2>2, TypeFrame DEF Enable, TypeOK
<1>24. ASSUME Acknowledge
      PROVE  TypeOK'
  <2>1. AccountType'
    BY <1>24 DEF TypeOK, ActivationStates, Some, StartPlanner, Acknowledge,
       AccountType
  <2>2. AttemptType'
    BY <1>24 DEF TypeOK, AttemptStates, Some, StartPlanner, AfterReview,
       Acknowledge, AttemptType
  <2>3. HelperType'
    BY <1>24 DEF TypeOK, Some, StartPlanner, Acknowledge, HelperType
  <2>. QED
    BY <1>24, <2>1, <2>2, <2>3, TypeFrame DEF Acknowledge, TypeOK
<1>25. ASSUME Delete
      PROVE  TypeOK'
  <2>1. AccountType'
    BY <1>25 DEF TypeOK, Delete, AccountType
  <2>. QED
    BY <1>25, <2>1, TypeFrame DEF Delete, TypeOK
<1>26. ASSUME RecoverCredential
      PROVE  TypeOK'
  <2>1. AccountType'
    BY <1>26 DEF TypeOK, RecoverCredential, AccountType
  <2>. QED
    BY <1>26, <2>1, TypeFrame DEF RecoverCredential, TypeOK
<1>27. ASSUME Reauthenticate
      PROVE  TypeOK'
  <2>1. AccountType'
    BY <1>27 DEF TypeOK, Reauthenticate, AccountType
  <2>. QED
    BY <1>27, <2>1, TypeFrame DEF Reauthenticate, TypeOK
<1>45. ASSUME SignInLost
      PROVE  TypeOK'
  <2>1. AccountType'
    BY <1>45 DEF TypeOK, ActivationStates, Moved, Quarantine, SignInLost,
       AccountType
  <2>2. AttemptType'
    BY <1>45 DEF TypeOK, AttemptStates, Moved, Quarantine, SignInLost,
       AttemptType
  <2>3. ProcessType'
    BY <1>45 DEF TypeOK, ReconSteps, Moved, Quarantine, SignInLost,
       ProcessType
  <2>. QED
    BY <1>45, <2>1, <2>2, <2>3, TypeFrame DEF SignInLost, TypeOK
<1>28. ASSUME RefreshStart
      PROVE  TypeOK'
  <2>1. HelperType'
    BY <1>28 DEF TypeOK, RefreshStart, HelperType
  <2>. QED
    BY <1>28, <2>1, TypeFrame DEF RefreshStart, TypeOK
<1>29. ASSUME RefreshAcquire
      PROVE  TypeOK'
  <2>1. AccountType'
    BY <1>29 DEF TypeOK, RefreshAcquire, AccountType
  <2>2. HelperType'
    BY <1>29 DEF TypeOK, RefreshAcquire, HelperType
  <2>. QED
    BY <1>29, <2>1, <2>2, TypeFrame DEF RefreshAcquire, TypeOK
<1>30. ASSUME RefreshRead
      PROVE  TypeOK'
  <2>1. AccountType'
    BY <1>30 DEF TypeOK, ActivationStates, Moved, Quarantine, RefreshRead,
       AccountType
  <2>2. AttemptType'
    BY <1>30 DEF TypeOK, AttemptStates, Moved, Quarantine, RefreshRead,
       AttemptType
  <2>3. HelperType'
    BY <1>30 DEF TypeOK, Moved, Quarantine, RefreshRead, HelperType
  <2>4. ProcessType'
    BY <1>30 DEF TypeOK, ReconSteps, Moved, Quarantine, RefreshRead,
       ProcessType
  <2>. QED
    BY <1>30, <2>1, <2>2, <2>3, <2>4, TypeFrame DEF RefreshRead, TypeOK
<1>31. ASSUME CommitUsage
      PROVE  TypeOK'
  <2>1. UsageType'
    BY <1>31 DEF TypeOK, StartPlanner, CommitUsage, UsageType
  <2>2. HelperType'
    BY <1>31 DEF TypeOK, StartPlanner, CommitUsage, HelperType
  <2>. QED
    BY <1>31, <2>1, <2>2, TypeFrame DEF CommitUsage, TypeOK
<1>32. ASSUME RecordUsageFailure
      PROVE  TypeOK'
  <2>1. AccountType'
    BY <1>32 DEF TypeOK, ActivationStates, Moved, RecordUsageFailure,
       AccountType
  <2>2. AttemptType'
    BY <1>32 DEF TypeOK, AttemptStates, Moved, RecordUsageFailure,
       AttemptType
  <2>3. HelperType'
    BY <1>32 DEF TypeOK, Moved, RecordUsageFailure, HelperType
  <2>. QED
    BY <1>32, <2>1, <2>2, <2>3, TypeFrame DEF RecordUsageFailure, TypeOK
<1>33. ASSUME NEW p \in Planners, ResolveIncident(p)
      PROVE  TypeOK'
  <2>1. AccountType'
    BY <1>33 DEF TypeOK, PlannerAt, ResolveIncident, AccountType
  <2>2. HelperType'
    BY <1>33 DEF TypeOK, PlannerAt, ResolveIncident, HelperType
  <2>. QED
    BY <1>33, <2>1, <2>2, TypeFrame DEF ResolveIncident, TypeOK
<1>34. ASSUME NEW p \in Planners, PlanAccount(p)
      PROVE  TypeOK'
  <2>1. HelperType'
    BY <1>34, IdleType DEF TypeOK, NoKey, PlannerAt, PlannerDone,
       PlanAccount, HelperType
  <2>. QED
    BY <1>34, <2>1, TypeFrame DEF PlanAccount, TypeOK
<1>35. ASSUME NEW p \in Planners, PlanEvidence(p)
      PROVE  TypeOK'
  <2>1. HelperType'
    <3>1. CASE UNCHANGED planner \/ PlannerDone(p)
      BY <1>35, <3>1, IdleType DEF TypeOK, PlannerDone, PlanEvidence, HelperType
    <3>2. CASE planner' = [planner EXCEPT ![p] =
                  [pc |-> "create", decision |-> DecideSchedule(Evidence),
                   read |-> Existing]]
      BY <1>35, <3>2, DecisionType DEF TypeOK, PlanEvidence, HelperType,
         Existing
    <3>. QED
      BY <1>35, <3>1, <3>2 DEF PlanEvidence
  <2>. QED
    BY <1>35, <2>1, TypeFrame DEF PlanEvidence, TypeOK
<1>36. ASSUME NEW p \in Planners, PlanCreate(p)
      PROVE  TypeOK'
  <2>1. AccountType'
    BY <1>36 DEF TypeOK, NoKey, Nothing, ActivationStates, NoDecision,
       IdlePlanner, NextAttempt, PlannerDone, PlanInsert, PlanCreate,
       AccountType
  <2>2. AttemptType'
    <3>. DEFINE d == planner[p].decision
    <3>1. d \in Decision
      BY DEF TypeOK, HelperType
    <3>2. [key |-> d.key, basis |-> d.basis, due |-> d.runAt,
           confidence |-> d.confidence] \in Window
      BY <3>1 DEF Decision, Window
    <3>. QED
      BY <1>36, <3>2 DEF TypeOK, AttemptStates, PlanCreate, PlanInsert,
         AttemptType
  <2>3. HelperType'
    BY <1>36, IdleType DEF TypeOK, NoKey, NextAttempt, PlannerDone,
       PlanInsert, PlanCreate, HelperType
  <2>4. HistoryType'
    BY <1>36 DEF TypeOK, PlanCreate, PlanInsert, Existing, HistoryType
  <2>. QED
    BY <1>36, <2>1, <2>2, <2>3, <2>4, TypeFrame DEF PlanCreate, TypeOK
<1>37. ASSUME Close
      PROVE  TypeOK'
  <2>1. AccountType'
    BY <1>37 DEF TypeOK, NoKey, Nothing, ActivationStates, Completed,
       Managed, NoTask, NoDecision, IdlePlanner, Moved, Completion,
       Cancelled, NoJobRuns, CompletionRuns, Close, AccountType
  <2>2. AttemptType'
    <3>. UNCHANGED window
      BY <1>37 DEF Close
    <3>1. CASE NoJobRuns
      BY <3>1 DEF TypeOK, NoJobRuns, AttemptType
    <3>2. ASSUME NEW o \in Operations, CompletionRuns(o) PROVE AttemptType'
      <4>1. /\ now \in Nat
            /\ state \in [Attempts -> AttemptStates]
            /\ window \in [Attempts -> Window]
            /\ provenAt \in [Attempts -> Nat]
        BY DEF TypeOK, UsageType, AttemptType
      <4>2. Moved({"PLANNED"}, "CANCELLED") \in [Attempts -> AttemptStates]
        BY <4>1 DEF Moved, AttemptStates
      <4>3. PICK result \in Completed :
              /\ state' = [Moved({"PLANNED"}, "CANCELLED")
                             EXCEPT ![task[o].of] = result]
              /\ provenAt' = IF result = "COMPLETED_OK"
                             THEN [provenAt EXCEPT ![task[o].of] = now]
                             ELSE provenAt
        BY <3>2 DEF CompletionRuns, Completion
      <4>4. state' \in [Attempts -> AttemptStates]
        BY <4>2, <4>3 DEF Completed, AttemptStates
      <4>5. provenAt' \in [Attempts -> Nat]
        BY <4>1, <4>3
      <4>. QED
        BY <4>1, <4>4, <4>5 DEF AttemptType
    <3>. QED
      BY <1>37, <3>1, <3>2 DEF Close
  <2>3. TaskType'
    <3>1. task' \in [Operations -> Task]
      BY <1>37, CancelledTask DEF Close, TypeOK, TaskType
    <3>2. operation' \in [Operations -> OperationStates]
      BY <1>37 DEF Close, NoJobRuns, CompletionRuns, Completion, TypeOK,
         TaskType, OperationStates
    <3>. QED
      BY <3>1, <3>2 DEF TaskType
  <2>4. HelperType'
    BY <1>37, IdleType DEF TypeOK, NoKey, Completed, Managed, NoTask, Moved,
       Completion, Cancelled, NoJobRuns, CompletionRuns, Close, HelperType
  <2>5. ProcessType'
    BY <1>37 DEF TypeOK, NoKey, Nothing, Completed, Managed, NoTask,
       NoDecision, IdlePlanner, ReconSteps, Moved, Completion, Cancelled,
       NoJobRuns, CompletionRuns, Close, ProcessType
  <2>6. HistoryType'
    <3>1. \A o \in Operations : CompletionRuns(o) => task[o].of \in Attempts
      BY DEF CompletionRuns, TaskOwnsAttempt
    <3>. QED
      BY <1>37, <3>1 DEF Close, NoJobRuns, CompletionRuns, TypeOK,
         HistoryType
  <2>. QED
    BY <1>37, <2>1, <2>2, <2>3, <2>4, <2>5, <2>6, TypeFrame DEF Close, TypeOK
<1>38. ASSUME Restart
      PROVE  TypeOK'
  <2>1. AccountType'
    BY <1>38 DEF TypeOK, NoKey, Nothing, ActivationStates, Early, Submitted,
       NoTask, NoDecision, IdlePlanner, Some, CredentialUncertain, Restart,
       AccountType
  <2>2. AttemptType'
    BY <1>38 DEF TypeOK, NoKey, Nothing, AttemptStates, Early, Submitted,
       NoTask, NoDecision, IdlePlanner, Some, CredentialUncertain,
       AfterRestart, Restart, AttemptType
  <2>3. TaskType'
    BY <1>38 DEF TypeOK, NoKey, Nothing, OperationStates, Early, Submitted,
       Managed, Steps, Errors, NoTask, NoDecision, IdlePlanner, Some,
       CredentialUncertain, Restart, TaskType, Task
  <2>4. HelperType'
    BY <1>38, IdleType DEF TypeOK, NoKey, Early, Submitted, NoTask, Some,
       CredentialUncertain, Restart, HelperType
  <2>5. ProcessType'
    <3>1. recon' \in [Attempts -> ReconSteps]
      BY <1>38 DEF Restart, ReconSteps
    <3>2. held' \in BOOLEAN /\ phase' \in {"up", "closing", "starting"}
      BY <1>38 DEF Restart
    <3>3. restarts' \in Nat
      BY <1>38 DEF Restart, TypeOK, ProcessType
    <3>. QED
      BY <3>1, <3>2, <3>3 DEF ProcessType
  <2>. QED
    BY <1>38, <2>1, <2>2, <2>3, <2>4, <2>5, TypeFrame DEF Restart, TypeOK
<1>39. ASSUME NEW a \in Attempts, ReconcileStart(a)
      PROVE  TypeOK'
  <2>1. AccountType'
    BY <1>39 DEF TypeOK, ReconAt, ReconcileStart, AccountType
  <2>2. ProcessType'
    BY <1>39 DEF TypeOK, ReconSteps, ReconAt, ReconcileStart, ProcessType
  <2>. QED
    BY <1>39, <2>1, <2>2, TypeFrame DEF ReconcileStart, TypeOK
<1>40. ASSUME NEW a \in Attempts, ReconcileRead(a)
      PROVE  TypeOK'
  <2>1. AccountType'
    BY <1>40 DEF TypeOK, ActivationStates, Moved, Quarantine, ReconAt, Proof,
       ReconcileRead, AccountType
  <2>2. AttemptType'
    BY <1>40 DEF TypeOK, AttemptStates, Moved, Quarantine, ReconAt, Proof,
       ReconcileRead, AttemptType
  <2>3. ProcessType'
    BY <1>40 DEF TypeOK, ReconSteps, Moved, Quarantine, ReconAt, Proof,
       ReconcileRead, ProcessType
  <2>. QED
    BY <1>40, <2>1, <2>2, <2>3, TypeFrame DEF ReconcileRead, TypeOK
<1>41. ASSUME NEW a \in Attempts, ReconcileSettle(a)
      PROVE  TypeOK'
  <2>1. AccountType'
    BY <1>41 DEF TypeOK, ActivationStates, Completed, Moved, Completion,
       Failure, ReconAt, LatestOperation, ReconcileSettle, AccountType
  <2>2. AttemptType'
    <3>. UNCHANGED window
      BY <1>41 DEF ReconcileSettle
    <3>1. ASSUME NEW q \in Operations, Completion(a, q) PROVE AttemptType'
      BY <3>1 DEF Completion, Completed, Moved, TypeOK, UsageType,
         AttemptStates, AttemptType
    <3>2. ASSUME NEW q \in Operations, NEW e, Failure(a, q, e), UNCHANGED provenAt
          PROVE  AttemptType'
      BY <3>2 DEF Failure, TypeOK, AttemptStates, AttemptType
    <3>. QED
      BY <1>41, <3>1, <3>2 DEF ReconcileSettle
  <2>3. TaskType'
    BY <1>41 DEF TypeOK, OperationStates, Completed, Managed, Steps, Errors,
       Moved, Completion, Failure, ReconAt, LatestOperation, ReconcileSettle,
       TaskType, Task
  <2>4. ProcessType'
    BY <1>41 DEF TypeOK, Completed, ReconSteps, Moved, Completion, Failure,
       ReconAt, LatestOperation, ReconcileSettle, ProcessType
  <2>. QED
    BY <1>41, <2>1, <2>2, <2>3, <2>4, TypeFrame DEF ReconcileSettle, TypeOK
<1>42. ASSUME NEW a \in Attempts, ReconcileAnnounce(a)
      PROVE  TypeOK'
  <2>1. AccountType'
    BY <1>42 DEF TypeOK, ReconAt, ReconcileAnnounce, AccountType
  <2>2. ProcessType'
    BY <1>42 DEF TypeOK, ReconSteps, ReconAt, ReconcileAnnounce, ProcessType
  <2>. QED
    BY <1>42, <2>1, <2>2, TypeFrame DEF ReconcileAnnounce, TypeOK
<1>43. ASSUME ReconcileDone
      PROVE  TypeOK'
  <2>1. AccountType'
    BY <1>43 DEF TypeOK, ReconcileDone, AccountType
  <2>2. ProcessType'
    BY <1>43 DEF TypeOK, ReconSteps, ReconcileDone, ProcessType
  <2>. QED
    BY <1>43, <2>1, <2>2, TypeFrame DEF ReconcileDone, TypeOK
<1>44. CASE UNCHANGED vars
  BY <1>44, TypeFrame DEF vars, TypeOK
<1>. QED
  BY <1>1, <1>2, <1>3, <1>4, <1>5, <1>6, <1>7, <1>8, <1>9, <1>10, <1>11,
     <1>12, <1>13, <1>14, <1>15, <1>16, <1>17, <1>18, <1>19, <1>20, <1>21,
     <1>22, <1>23, <1>24, <1>25, <1>26, <1>27, <1>28, <1>29, <1>30, <1>31,
     <1>32, <1>33, <1>34, <1>35, <1>36, <1>37, <1>38, <1>39, <1>40, <1>41,
     <1>42, <1>43, <1>44, <1>45 DEF Next, TaskStep, RefreshStep, PlannerStep,
     OperatorStep, ReconcileStep
-----------------------------------------------------------------------------
(* No step but PlanCreate and Pause makes a row one that may be claimed.   *)
RowsKept ==
    \A a \in Attempts : state'[a] \in {"ABSENT", "PLANNED"} => state'[a] = state[a]
(* No step takes an operations row away.                                   *)
RowsThere ==
    \A p \in Operations : operation'[p] = "ABSENT" => operation[p] = "ABSENT"

(* The task of o goes on with its attempt and gets no closer to a second   *)
(* submission; or it ends.                                                 *)
MovesOn(o) ==
    /\ task[o].pc \notin {"free", "created"}
    /\ task'[o].pc \notin {"free", "created"}
    /\ task'[o].of = task[o].of
    /\ Unsent(task'[o]) => Unsent(task[o])
    /\ task'[o].pc \notin Late => task'[o].error = "none"
    /\ \A p \in Operations \ {o} : task'[p] = task[p]

Ends(o) == task' = [task EXCEPT ![o] = NoTask]

(* A task without an attempt names none: of = 0 is no row.                 *)
LEMMA Positive == 0 \notin Attempts
BY DEF Attempts

(* The await a task of _run_activation returns from keeps the invariant, as *)
(* long as it sends nothing.                                               *)
LEMMA MoveInv ==
    ASSUME SubmissionInv, TypeOK', NEW o \in Operations,
           MovesOn(o), RowsKept, RowsThere, UNCHANGED sends
    PROVE  SubmissionInv'
<1>. USE DEF SubmissionInv, MovesOn
<1>1. NoTaskYet'
  BY DEF NoTaskYet, RowsThere, NoTask
<1>2. TaskOwnsAttempt'
  BY DEF TaskOwnsAttempt, RowsKept
<1>3. TasksApart'
  BY DEF TasksApart
<1>4. UnsentPlans'
  BY DEF UnsentPlans, RowsKept
<1>5. UnsentTasks'
  BY DEF UnsentTasks
<1>6. ErrorsLate'
  BY DEF ErrorsLate, Late
<1>7. AtMostOneSubmission'
  BY DEF AtMostOneSubmission
<1>. QED
  BY <1>1, <1>2, <1>3, <1>4, <1>5, <1>6, <1>7

(* So does the return of a task: success, failure, pause or duplicate.     *)
LEMMA EndInv ==
    ASSUME SubmissionInv, TypeOK', NEW o \in Operations,
           Ends(o), RowsKept, RowsThere, UNCHANGED sends
    PROVE  SubmissionInv'
<1>. USE DEF SubmissionInv
<1>1. \A p \in Operations : task'[p] = IF p = o THEN NoTask ELSE task[p]
  BY DEF Ends, TypeOK, TaskType
<1>2. NoTaskYet'
  BY <1>1 DEF NoTaskYet, RowsThere
<1>3. TaskOwnsAttempt'
  BY <1>1 DEF TaskOwnsAttempt, RowsKept, NoTask
<1>4. TasksApart'
  BY <1>1 DEF TasksApart, NoTask
<1>5. UnsentPlans'
  BY DEF UnsentPlans, RowsKept
<1>6. UnsentTasks'
  BY <1>1 DEF UnsentTasks, Unsent, BeforeSend, NoTask
<1>7. ErrorsLate'
  BY <1>1 DEF ErrorsLate, NoTask
<1>8. AtMostOneSubmission'
  BY DEF AtMostOneSubmission
<1>. QED
  BY <1>2, <1>3, <1>4, <1>5, <1>6, <1>7, <1>8

(* So does what the operator, the planner, a refresh or reconciliation do  *)
(* beside the tasks.                                                       *)
LEMMA KeepInv ==
    ASSUME SubmissionInv, TypeOK', RowsKept, RowsThere,
           UNCHANGED task, UNCHANGED sends
    PROVE  SubmissionInv'
BY DEF SubmissionInv, NoTaskYet, TaskOwnsAttempt, RowsKept, RowsThere,
   TasksApart, UnsentPlans, UnsentTasks, ErrorsLate, AtMostOneSubmission
-----------------------------------------------------------------------------
(* The scheduler's claim and the admission of activate() give a task an    *)
(* attempt that was new or PLANNED, so never sent and of no other task.    *)
LEMMA Admission ==
    ASSUME SubmissionInv, TypeOK', NEW o \in Operations, NEW a \in Attempts,
           state[a] \in {"ABSENT", "PLANNED"},
           state' = [state EXCEPT ![a] = "QUEUED"],
           task'[o].pc = "queued", task'[o].of = a, task'[o].error = "none",
           \A p \in Operations \ {o} : task'[p] = task[p],
           \/ operation' = [operation EXCEPT ![o] = "QUEUED"]
           \/ /\ operation[o] # "ABSENT"
              /\ UNCHANGED operation,
           UNCHANGED sends
    PROVE  SubmissionInv'
<1>1. /\ task \in [Operations -> Task] /\ operation \in [Operations -> OperationStates]
      /\ state \in [Attempts -> AttemptStates] /\ a # 0
  BY Positive DEF SubmissionInv, TypeOK, TaskType, AttemptType
<1>2. \A p \in Operations : task[p].of # a
  BY <1>1 DEF SubmissionInv, TaskOwnsAttempt
<1>3. NoTaskYet'
  BY <1>1 DEF SubmissionInv, NoTaskYet
<1>4. TaskOwnsAttempt'
  BY <1>1, <1>2 DEF SubmissionInv, TaskOwnsAttempt
<1>5. TasksApart'
  BY <1>1, <1>2 DEF SubmissionInv, TasksApart
<1>6. UnsentPlans' /\ AtMostOneSubmission'
  BY <1>1 DEF SubmissionInv, UnsentPlans, AtMostOneSubmission
<1>7. UnsentTasks' /\ ErrorsLate'
  BY <1>1 DEF SubmissionInv, UnsentPlans, UnsentTasks, Unsent, BeforeSend,
     ErrorsLate
<1>. QED
  BY <1>3, <1>4, <1>5, <1>6, <1>7 DEF SubmissionInv

(* Every step keeps the invariant: the one that writes turn/start finds    *)
(* its attempt unsent, and leaves it to a task that does not send again.   *)
LEMMA SubmissionStep ==
    ASSUME SubmissionInv, [Next]_vars
    PROVE  SubmissionInv'
<1>. TypeOK'
  BY TypeStep DEF SubmissionInv
<1>t. /\ task \in [Operations -> Task]
      /\ operation \in [Operations -> OperationStates]
      /\ state \in [Attempts -> AttemptStates]
      /\ sends \in [Attempts -> Nat]
  BY DEF SubmissionInv, TypeOK, TaskType, UpstreamType, AttemptType
<1>1. ASSUME Tick
      PROVE  SubmissionInv'
  <2>1. RowsKept /\ RowsThere /\ UNCHANGED <<task, sends>>
    BY <1>1 DEF Tick, attemptVars, taskVars, upstreamVars, RowsKept,
       RowsThere
  <2>. QED
    BY <2>1, KeepInv
<1>2. ASSUME NEW a \in Attempts, UpstreamEnds(a)
      PROVE  SubmissionInv'
  <2>1. RowsKept /\ RowsThere /\ UNCHANGED <<task, sends>>
    BY <1>2 DEF UpstreamEnds, attemptVars, taskVars, RowsKept, RowsThere
  <2>. QED
    BY <2>1, KeepInv
<1>3. ASSUME NEW o \in Operations, Claim(o)
      PROVE  SubmissionInv'
  <2>1. PICK a \in Attempts :
           /\ state[a] = "PLANNED"
           /\ state' = [state EXCEPT ![a] = "QUEUED"]
           /\ task' = [task EXCEPT ![o] = [pc |-> "queued", of |-> a,
                                           error |-> "none"]]
    BY <1>3 DEF Claim, Earliest, DuePlans
  <2>2. UNCHANGED sends /\ operation' = [operation EXCEPT ![o] = "QUEUED"]
    BY <1>3 DEF Claim, upstreamVars
  <2>3. /\ task'[o].pc = "queued" /\ task'[o].of = a /\ task'[o].error = "none"
        /\ \A p \in Operations \ {o} : task'[p] = task[p]
    BY <2>1, <1>t
  <2>4. state[a] \in {"ABSENT", "PLANNED"}
    BY <2>1
  <2>. QED
    BY <2>1, <2>2, <2>3, <2>4, Admission
<1>4. ASSUME NEW o \in Operations, ActivateRequest(o)
      PROVE  SubmissionInv'
  <2>1. task[o] = NoTask
    BY <1>4 DEF ActivateRequest, NextOperation, SubmissionInv, NoTaskYet
  <2>2. /\ task' = [task EXCEPT ![o] = [NoTask EXCEPT !.pc = "created"]]
        /\ operation' = [operation EXCEPT ![o] = "QUEUED"]
        /\ UNCHANGED <<state, sends>>
    BY <1>4, <2>1 DEF ActivateRequest, Goto, attemptVars, upstreamVars
  <2>3. NoTaskYet' /\ TaskOwnsAttempt' /\ TasksApart'
    BY <2>1, <2>2, <1>t DEF SubmissionInv, NoTaskYet, TaskOwnsAttempt,
       TasksApart, NoTask
  <2>4. UnsentPlans' /\ UnsentTasks' /\ ErrorsLate' /\ AtMostOneSubmission'
    BY <2>1, <2>2 DEF SubmissionInv, UnsentPlans, UnsentTasks, Unsent,
       BeforeSend, ErrorsLate, AtMostOneSubmission, NoTask
  <2>. QED
    BY <2>3, <2>4 DEF SubmissionInv
<1>5. ASSUME NEW o \in Operations, ActivateAdmit(o)
      PROVE  SubmissionInv'
  <2>1. UNCHANGED sends
    BY <1>5 DEF ActivateAdmit, upstreamVars
  <2>2. CASE RejectDuplicate(o)
    <3>1. Ends(o) /\ RowsKept /\ RowsThere
      BY <2>2 DEF RejectDuplicate, Return, Ends, RowsKept, RowsThere
    <3>. QED
      BY <2>1, <3>1, EndInv
  <2>3. ASSUME NEW a \in Attempts, state[a] \in {"ABSENT", "PLANNED"},
               AdmitAttempt(o, a)
        PROVE  SubmissionInv'
    <3>1. task[o].error = "none"
      BY <1>5 DEF ActivateAdmit, SubmissionInv, ErrorsLate, Late
    <3>2. /\ task'[o].pc = "queued" /\ task'[o].of = a /\ task'[o].error = "none"
          /\ \A p \in Operations \ {o} : task'[p] = task[p]
      BY <2>3, <3>1, <1>t DEF AdmitAttempt, Task
    <3>3. state' = [state EXCEPT ![a] = "QUEUED"] /\ UNCHANGED operation
      BY <2>3 DEF AdmitAttempt
    <3>4. operation[o] # "ABSENT"
      BY <1>5 DEF ActivateAdmit, SubmissionInv, NoTaskYet, NoTask
    <3>. QED
      BY <2>1, <2>3, <3>2, <3>3, <3>4, Admission
  <2>. QED
    BY <1>5, <2>2, <2>3 DEF ActivateAdmit, AdmitPlanned, AdmitNew, Planned,
       Earliest, NextAttempt
<1>6. ASSUME NEW o \in Operations, Start(o)
      PROVE  SubmissionInv'
  <2>1. MovesOn(o)
    BY <1>6 DEF Start, Goto, MovesOn, Unsent, BeforeSend, Late, Task,
       SubmissionInv, ErrorsLate
  <2>2. RowsKept /\ RowsThere /\ UNCHANGED sends
    BY <1>6 DEF Start, attemptVars, upstreamVars, RowsKept, RowsThere
  <2>. QED
    BY <2>1, <2>2, MoveInv
<1>7. ASSUME NEW o \in Operations, Precheck(o)
      PROVE  SubmissionInv'
  <2>1. MovesOn(o)
    BY <1>7, <1>t DEF Precheck, Goto, Raise, MovesOn, Unsent, BeforeSend,
       Late, Task, SubmissionInv, ErrorsLate
  <2>2. RowsKept /\ RowsThere /\ UNCHANGED sends
    BY <1>7 DEF Precheck, attemptVars, upstreamVars, RowsKept, RowsThere
  <2>. QED
    BY <2>1, <2>2, MoveInv
<1>8. ASSUME NEW o \in Operations, Acquire(o)
      PROVE  SubmissionInv'
  <2>1. MovesOn(o)
    BY <1>8, <1>t DEF Acquire, Goto, Raise, MovesOn, Unsent, BeforeSend,
       Late, Task, SubmissionInv, ErrorsLate
  <2>2. RowsKept /\ RowsThere /\ UNCHANGED sends
    BY <1>8 DEF Acquire, attemptVars, upstreamVars, RowsKept, RowsThere
  <2>. QED
    BY <2>1, <2>2, MoveInv
<1>9. ASSUME NEW o \in Operations, Boot(o)
      PROVE  SubmissionInv'
  <2>1. MovesOn(o)
    BY <1>9, <1>t DEF Boot, Goto, Raise, MovesOn, Unsent, BeforeSend, Late,
       Task, SubmissionInv, ErrorsLate
  <2>2. RowsKept /\ RowsThere /\ UNCHANGED sends
    BY <1>9 DEF Boot, attemptVars, upstreamVars, RowsKept, RowsThere
  <2>. QED
    BY <2>1, <2>2, MoveInv
<1>10. ASSUME NEW o \in Operations, CreateThread(o)
      PROVE  SubmissionInv'
  <2>1. MovesOn(o)
    BY <1>10, <1>t DEF CreateThread, Goto, Raise, MovesOn, Unsent,
       BeforeSend, Late, Task, SubmissionInv, ErrorsLate
  <2>2. RowsKept /\ RowsThere /\ UNCHANGED sends
    BY <1>10, <1>t DEF CreateThread, upstreamVars, RowsKept, RowsThere
  <2>. QED
    BY <2>1, <2>2, MoveInv
<1>11. ASSUME NEW o \in Operations, Recheck(o)
      PROVE  SubmissionInv'
  <2>1. MovesOn(o)
    BY <1>11, <1>t DEF Recheck, Goto, Raise, MovesOn, Unsent, BeforeSend,
       Late, Task, SubmissionInv, ErrorsLate
  <2>2. RowsKept /\ RowsThere /\ UNCHANGED sends
    BY <1>11 DEF Recheck, attemptVars, upstreamVars, RowsKept, RowsThere
  <2>. QED
    BY <2>1, <2>2, MoveInv
<1>12. ASSUME NEW o \in Operations, MarkDispatching(o)
      PROVE  SubmissionInv'
  <2>1. MovesOn(o)
    BY <1>12 DEF MarkDispatching, Goto, MovesOn, Unsent, BeforeSend, Late,
       Task, SubmissionInv, ErrorsLate
  <2>2. RowsKept /\ RowsThere /\ UNCHANGED sends
    BY <1>12 DEF MarkDispatching, upstreamVars, RowsKept, RowsThere
  <2>. QED
    BY <2>1, <2>2, MoveInv
<1>13. ASSUME NEW o \in Operations, SendTurn(o)
      PROVE  SubmissionInv'
  <2>1. /\ task[o].pc = "send"
        /\ task' = [task EXCEPT ![o].pc = "reply"]
        /\ sends' = [sends EXCEPT ![task[o].of] = @ + 1]
        /\ UNCHANGED <<state, operation>>
    BY <1>13 DEF SendTurn, Goto, attemptVars
  <2>2. task[o].of \in Attempts /\ sends[task[o].of] = 0
    <3>1. task[o].of \in Attempts
      BY <2>1 DEF SubmissionInv, TaskOwnsAttempt
    <3>2. Unsent(task[o])
      BY <2>1 DEF Unsent, BeforeSend
    <3>. QED
      BY <3>1, <3>2 DEF SubmissionInv, UnsentTasks
  <2>3. NoTaskYet' /\ TaskOwnsAttempt' /\ TasksApart' /\ ErrorsLate'
    BY <2>1, <2>2 DEF SubmissionInv, NoTaskYet, TaskOwnsAttempt, TasksApart,
       ErrorsLate, Late, NoTask, Task
  <2>4. UnsentPlans' /\ AtMostOneSubmission'
    BY <2>1, <2>2 DEF SubmissionInv, TaskOwnsAttempt, UnsentPlans,
       AtMostOneSubmission
  <2>5. ASSUME NEW p \in Operations, Unsent(task'[p])
        PROVE  sends'[task'[p].of] = 0
    <3>1. p # o
      BY <2>1, <2>5, <1>t DEF Unsent, BeforeSend, Task
    <3>2. task'[p] = task[p] /\ task[p].pc \notin {"free", "created"}
      BY <2>1, <2>5, <3>1 DEF Unsent, BeforeSend
    <3>3. /\ task[p].of \in Attempts /\ task[o].of # task[p].of
          /\ sends[task[p].of] = 0
      BY <2>2, <2>5, <3>1, <3>2, Positive DEF SubmissionInv, TaskOwnsAttempt,
         TasksApart, UnsentTasks
    <3>. QED
      BY <2>1, <3>2, <3>3
  <2>. QED
    BY <2>3, <2>4, <2>5 DEF SubmissionInv, UnsentTasks
<1>14. ASSUME NEW o \in Operations, TurnReply(o)
      PROVE  SubmissionInv'
  <2>1. MovesOn(o)
    BY <1>14, <1>t DEF TurnReply, Goto, Raise, MovesOn, Unsent, BeforeSend,
       Late, Task, SubmissionInv, ErrorsLate
  <2>2. RowsKept /\ RowsThere /\ UNCHANGED sends
    BY <1>14 DEF TurnReply, attemptVars, RowsKept, RowsThere
  <2>. QED
    BY <2>1, <2>2, MoveInv
<1>15. ASSUME NEW o \in Operations, AcceptTurn(o)
      PROVE  SubmissionInv'
  <2>1. MovesOn(o)
    BY <1>15 DEF AcceptTurn, Goto, MovesOn, Unsent, BeforeSend, Late, Task,
       SubmissionInv, ErrorsLate
  <2>2. RowsKept /\ RowsThere /\ UNCHANGED sends
    BY <1>15 DEF AcceptTurn, upstreamVars, RowsKept, RowsThere
  <2>. QED
    BY <2>1, <2>2, MoveInv
<1>16. ASSUME NEW o \in Operations, AwaitTurn(o)
      PROVE  SubmissionInv'
  <2>1. MovesOn(o)
    BY <1>16, <1>t DEF AwaitTurn, Goto, Raise, Notified, TurnOutcome,
       MovesOn, Unsent, BeforeSend, Late, Task, SubmissionInv, ErrorsLate
  <2>2. RowsKept /\ RowsThere /\ UNCHANGED sends
    BY <1>16 DEF AwaitTurn, attemptVars, upstreamVars, RowsKept, RowsThere
  <2>. QED
    BY <2>1, <2>2, MoveInv
<1>17. ASSUME NEW o \in Operations, Finish(o)
      PROVE  SubmissionInv'
  <2>1. MovesOn(o)
    BY <1>17, <1>t DEF Finish, Goto, Raise, AfterFinish, MovesOn, Unsent,
       BeforeSend, Late, Task, SubmissionInv, ErrorsLate
  <2>2. RowsKept /\ RowsThere /\ UNCHANGED sends
    BY <1>17 DEF Moved, Quarantine, Finish, upstreamVars, RowsKept, RowsThere
  <2>. QED
    BY <2>1, <2>2, MoveInv
<1>18. ASSUME NEW o \in Operations, Complete(o)
      PROVE  SubmissionInv'
  <2>1. Ends(o)
    BY <1>18 DEF Complete, Return, Ends
  <2>2. RowsKept /\ RowsThere /\ UNCHANGED sends
    BY <1>18 DEF Completed, Moved, Completion, Complete, upstreamVars,
       RowsKept, RowsThere
  <2>. QED
    BY <2>1, <2>2, EndInv
<1>19. ASSUME NEW o \in Operations, HandleIneligible(o)
      PROVE  SubmissionInv'
  <2>. DEFINE a == task[o].of
  <2>1. task[o].pc = "pause" /\ UNCHANGED sends
    BY <1>19 DEF HandleIneligible, upstreamVars
  <2>2. a \in Attempts /\ sends[a] = 0
    <3>1. a \in Attempts
      BY <2>1 DEF SubmissionInv, TaskOwnsAttempt
    <3>2. Unsent(task[o])
      BY <2>1 DEF Unsent, BeforeSend
    <3>. QED
      BY <3>1, <3>2 DEF SubmissionInv, UnsentTasks
  <2>3. CASE Pausable(a)
    <3>1. /\ state' = [state EXCEPT ![a] = "PLANNED"]
          /\ task' = [task EXCEPT ![o] = NoTask]
          /\ operation' = [operation EXCEPT ![o] = "CANCELLED"]
      BY <1>19, <2>3 DEF HandleIneligible, Pause, Rescheduled, Return
    <3>2. \A p \in Operations \ {o} : task[p].of # a
      BY <2>2, Positive DEF SubmissionInv, TasksApart
    <3>3. NoTaskYet' /\ TaskOwnsAttempt' /\ TasksApart'
      BY <3>1, <3>2, <1>t DEF SubmissionInv, NoTaskYet, TaskOwnsAttempt,
         TasksApart, NoTask
    <3>4. UnsentPlans' /\ UnsentTasks' /\ ErrorsLate' /\ AtMostOneSubmission'
      BY <2>1, <2>2, <3>1 DEF SubmissionInv, UnsentPlans, UnsentTasks,
         Unsent, BeforeSend, ErrorsLate, AtMostOneSubmission, NoTask
    <3>. QED
      BY <3>3, <3>4 DEF SubmissionInv
  <2>4. CASE ~Pausable(a)
    <3>1. RowsKept /\ RowsThere
      BY <1>19, <2>4 DEF HandleIneligible, RowsKept, RowsThere
    <3>2. CASE Return(o)
      BY <2>1, <3>1, <3>2, EndInv DEF Return, Ends
    <3>3. CASE Goto(o, "fail")
      <4>1. MovesOn(o)
        BY <2>1, <3>3 DEF Goto, MovesOn, Unsent, BeforeSend, Late, Task
      <4>. QED
        BY <2>1, <3>1, <4>1, MoveInv
    <3>. QED
      BY <1>19, <2>4, <3>2, <3>3 DEF HandleIneligible
  <2>. QED
    BY <2>3, <2>4
<1>20. ASSUME NEW o \in Operations, RecordFailure(o)
      PROVE  SubmissionInv'
  <2>1. task[o].pc = "fail" /\ UNCHANGED sends
    BY <1>20 DEF RecordFailure, upstreamVars
  <2>2. RowsKept /\ RowsThere
    BY <1>20 DEF RecordFailure, Failure, RowsKept, RowsThere
  <2>3. CASE Return(o)
    BY <2>1, <2>2, <2>3, EndInv DEF Return, Ends
  <2>4. CASE Goto(o, "incident")
    <3>1. MovesOn(o)
      BY <2>1, <2>4 DEF Goto, MovesOn, Unsent, BeforeSend, Late, Task
    <3>. QED
      BY <2>1, <2>2, <3>1, MoveInv
  <2>. QED
    BY <1>20, <2>3, <2>4 DEF RecordFailure
<1>21. ASSUME NEW o \in Operations, OpenIncident(o)
      PROVE  SubmissionInv'
  <2>1. Ends(o)
    BY <1>21 DEF OpenIncident, Return, Ends
  <2>2. RowsKept /\ RowsThere /\ UNCHANGED sends
    BY <1>21 DEF OpenIncident, attemptVars, upstreamVars, RowsKept, RowsThere
  <2>. QED
    BY <2>1, <2>2, EndInv
<1>22. ASSUME Disable
      PROVE  SubmissionInv'
  <2>1. RowsKept /\ RowsThere /\ UNCHANGED <<task, sends>>
    BY <1>22 DEF AfterDisable, Disable, upstreamVars, RowsKept, RowsThere
  <2>. QED
    BY <2>1, KeepInv
<1>23. ASSUME Enable
      PROVE  SubmissionInv'
  <2>1. RowsKept /\ RowsThere /\ UNCHANGED <<task, sends>>
    BY <1>23 DEF Enable, attemptVars, taskVars, upstreamVars, RowsKept,
       RowsThere
  <2>. QED
    BY <2>1, KeepInv
<1>24. ASSUME Acknowledge
      PROVE  SubmissionInv'
  <2>1. RowsKept /\ RowsThere /\ UNCHANGED <<task, sends>>
    BY <1>24 DEF AfterReview, Acknowledge, taskVars, upstreamVars, RowsKept,
       RowsThere
  <2>. QED
    BY <2>1, KeepInv
<1>25. ASSUME Delete
      PROVE  SubmissionInv'
  <2>1. RowsKept /\ RowsThere /\ UNCHANGED <<task, sends>>
    BY <1>25 DEF Delete, attemptVars, taskVars, upstreamVars, RowsKept,
       RowsThere
  <2>. QED
    BY <2>1, KeepInv
<1>26. ASSUME RecoverCredential
      PROVE  SubmissionInv'
  <2>1. RowsKept /\ RowsThere /\ UNCHANGED <<task, sends>>
    BY <1>26 DEF RecoverCredential, attemptVars, taskVars, upstreamVars,
       RowsKept, RowsThere
  <2>. QED
    BY <2>1, KeepInv
<1>27. ASSUME Reauthenticate
      PROVE  SubmissionInv'
  <2>1. RowsKept /\ RowsThere /\ UNCHANGED <<task, sends>>
    BY <1>27 DEF Reauthenticate, attemptVars, taskVars, upstreamVars,
       RowsKept, RowsThere
  <2>. QED
    BY <2>1, KeepInv
<1>45. ASSUME SignInLost
      PROVE  SubmissionInv'
  <2>1. RowsKept /\ RowsThere /\ UNCHANGED <<task, sends>>
    BY <1>45 DEF Moved, Quarantine, SignInLost, taskVars, upstreamVars,
       RowsKept, RowsThere
  <2>. QED
    BY <2>1, KeepInv
<1>28. ASSUME RefreshStart
      PROVE  SubmissionInv'
  <2>1. RowsKept /\ RowsThere /\ UNCHANGED <<task, sends>>
    BY <1>28 DEF RefreshStart, attemptVars, taskVars, upstreamVars, RowsKept,
       RowsThere
  <2>. QED
    BY <2>1, KeepInv
<1>29. ASSUME RefreshAcquire
      PROVE  SubmissionInv'
  <2>1. RowsKept /\ RowsThere /\ UNCHANGED <<task, sends>>
    BY <1>29 DEF RefreshAcquire, attemptVars, taskVars, upstreamVars,
       RowsKept, RowsThere
  <2>. QED
    BY <2>1, KeepInv
<1>30. ASSUME RefreshRead
      PROVE  SubmissionInv'
  <2>1. RowsKept /\ RowsThere /\ UNCHANGED <<task, sends>>
    BY <1>30 DEF Moved, Quarantine, RefreshRead, taskVars, upstreamVars,
       RowsKept, RowsThere
  <2>. QED
    BY <2>1, KeepInv
<1>31. ASSUME CommitUsage
      PROVE  SubmissionInv'
  <2>1. RowsKept /\ RowsThere /\ UNCHANGED <<task, sends>>
    BY <1>31 DEF CommitUsage, attemptVars, taskVars, upstreamVars, RowsKept,
       RowsThere
  <2>. QED
    BY <2>1, KeepInv
<1>32. ASSUME RecordUsageFailure
      PROVE  SubmissionInv'
  <2>1. RowsKept /\ RowsThere /\ UNCHANGED <<task, sends>>
    BY <1>32 DEF Moved, RecordUsageFailure, taskVars, upstreamVars, RowsKept,
       RowsThere
  <2>. QED
    BY <2>1, KeepInv
<1>33. ASSUME NEW p \in Planners, ResolveIncident(p)
      PROVE  SubmissionInv'
  <2>1. RowsKept /\ RowsThere /\ UNCHANGED <<task, sends>>
    BY <1>33 DEF ResolveIncident, attemptVars, taskVars, upstreamVars,
       RowsKept, RowsThere
  <2>. QED
    BY <2>1, KeepInv
<1>34. ASSUME NEW p \in Planners, PlanAccount(p)
      PROVE  SubmissionInv'
  <2>1. RowsKept /\ RowsThere /\ UNCHANGED <<task, sends>>
    BY <1>34 DEF PlanAccount, attemptVars, taskVars, upstreamVars, RowsKept,
       RowsThere
  <2>. QED
    BY <2>1, KeepInv
<1>35. ASSUME NEW p \in Planners, PlanEvidence(p)
      PROVE  SubmissionInv'
  <2>1. RowsKept /\ RowsThere /\ UNCHANGED <<task, sends>>
    BY <1>35 DEF PlanEvidence, attemptVars, taskVars, upstreamVars, RowsKept,
       RowsThere
  <2>. QED
    BY <2>1, KeepInv
<1>36. ASSUME NEW p \in Planners, PlanCreate(p)
      PROVE  SubmissionInv'
  <2>1. UNCHANGED <<operation, task, sends>>
    BY <1>36 DEF PlanCreate, taskVars, upstreamVars
  <2>2. CASE UNCHANGED state
    BY <2>1, <2>2, KeepInv DEF RowsKept, RowsThere
  <2>3. CASE PlanInsert(planner[p].decision, planner[p].read)
    <3>1. PICK a \in Attempts :
             state[a] = "ABSENT" /\ state' = [state EXCEPT ![a] = "PLANNED"]
      BY <2>3 DEF PlanInsert, NextAttempt
    <3>2. NoTaskYet' /\ TaskOwnsAttempt' /\ TasksApart'
      BY <2>1, <3>1 DEF SubmissionInv, NoTaskYet, TaskOwnsAttempt, TasksApart
    <3>3. UnsentPlans' /\ UnsentTasks' /\ ErrorsLate' /\ AtMostOneSubmission'
      BY <2>1, <3>1 DEF SubmissionInv, UnsentPlans, UnsentTasks, ErrorsLate,
         AtMostOneSubmission
    <3>. QED
      BY <3>2, <3>3 DEF SubmissionInv
  <2>. QED
    BY <1>36, <2>2, <2>3 DEF PlanCreate
<1>37. ASSUME Close
      PROVE  SubmissionInv'
  <2>1. /\ UNCHANGED sends
        /\ task' = [o \in Operations |-> Cancelled(task[o])]
    BY <1>37 DEF Close, upstreamVars
  <2>2. RowsKept /\ RowsThere
    <3>1. CASE NoJobRuns
      BY <3>1 DEF NoJobRuns, RowsKept, RowsThere
    <3>2. ASSUME NEW o \in Operations, CompletionRuns(o) PROVE RowsKept /\ RowsThere
      BY <3>2 DEF CompletionRuns, Completion, Completed, Moved, RowsKept,
         RowsThere
    <3>. QED
      BY <1>37, <3>1, <3>2 DEF Close
  <2>3. ASSUME NEW o \in Operations
        PROVE  /\ task'[o] = Cancelled(task[o])
               /\ \/ task'[o] = NoTask
                  \/ task'[o].of = task[o].of
               /\ task[o].pc \in {"free", "created"} => task'[o] = task[o]
               /\ \/ task[o].pc \in {"free", "created"}
                  \/ task'[o] = NoTask
                  \/ task'[o].pc \in {"finish", "fail"}
               /\ Unsent(task'[o]) => task'[o] = task[o]
    BY <2>1, CancelledTask, <1>t
  <2>4. NoTaskYet'
    BY <2>2, <2>3 DEF SubmissionInv, NoTaskYet, RowsThere, NoTask
  <2>5. TaskOwnsAttempt'
    BY <2>2, <2>3 DEF SubmissionInv, TaskOwnsAttempt, RowsKept, NoTask
  <2>6. TasksApart'
    BY <2>3 DEF SubmissionInv, TasksApart, NoTask
  <2>7. UnsentPlans' /\ AtMostOneSubmission'
    BY <2>1, <2>2 DEF SubmissionInv, UnsentPlans, RowsKept,
       AtMostOneSubmission
  <2>8. UnsentTasks'
    BY <2>1, <2>3 DEF SubmissionInv, UnsentTasks
  <2>9. ErrorsLate'
    BY <2>3 DEF SubmissionInv, ErrorsLate, Late, NoTask
  <2>. QED
    BY <2>4, <2>5, <2>6, <2>7, <2>8, <2>9 DEF SubmissionInv
<1>38. ASSUME Restart
      PROVE  SubmissionInv'
  <2>1. UNCHANGED sends /\ task' = [o \in Operations |-> NoTask]
    BY <1>38 DEF Restart, upstreamVars
  <2>2. RowsKept
    BY <1>38 DEF Restart, AfterRestart, RowsKept
  <2>3. NoTaskYet' /\ TaskOwnsAttempt' /\ TasksApart' /\ UnsentTasks' /\ ErrorsLate'
    BY <2>1 DEF NoTaskYet, TaskOwnsAttempt, TasksApart, UnsentTasks, Unsent,
       BeforeSend, ErrorsLate, NoTask
  <2>4. UnsentPlans' /\ AtMostOneSubmission'
    BY <2>1, <2>2 DEF SubmissionInv, UnsentPlans, RowsKept,
       AtMostOneSubmission
  <2>. QED
    BY <2>3, <2>4 DEF SubmissionInv
<1>39. ASSUME NEW a \in Attempts, ReconcileStart(a)
      PROVE  SubmissionInv'
  <2>1. RowsKept /\ RowsThere /\ UNCHANGED <<task, sends>>
    BY <1>39 DEF ReconcileStart, attemptVars, taskVars, upstreamVars,
       RowsKept, RowsThere
  <2>. QED
    BY <2>1, KeepInv
<1>40. ASSUME NEW a \in Attempts, ReconcileRead(a)
      PROVE  SubmissionInv'
  <2>1. RowsKept /\ RowsThere /\ UNCHANGED <<task, sends>>
    BY <1>40 DEF Moved, Quarantine, ReconcileRead, taskVars, upstreamVars,
       RowsKept, RowsThere
  <2>. QED
    BY <2>1, KeepInv
<1>41. ASSUME NEW a \in Attempts, ReconcileSettle(a)
      PROVE  SubmissionInv'
  <2>1. RowsKept /\ RowsThere /\ UNCHANGED <<task, sends>>
    BY <1>41, <1>t DEF Completed, Moved, Completion, Failure,
       ReconcileSettle, upstreamVars, RowsKept, RowsThere
  <2>. QED
    BY <2>1, KeepInv
<1>42. ASSUME NEW a \in Attempts, ReconcileAnnounce(a)
      PROVE  SubmissionInv'
  <2>1. RowsKept /\ RowsThere /\ UNCHANGED <<task, sends>>
    BY <1>42 DEF ReconcileAnnounce, attemptVars, taskVars, upstreamVars,
       RowsKept, RowsThere
  <2>. QED
    BY <2>1, KeepInv
<1>43. ASSUME ReconcileDone
      PROVE  SubmissionInv'
  <2>1. RowsKept /\ RowsThere /\ UNCHANGED <<task, sends>>
    BY <1>43 DEF ReconcileDone, attemptVars, taskVars, upstreamVars,
       RowsKept, RowsThere
  <2>. QED
    BY <2>1, KeepInv
<1>44. CASE UNCHANGED vars
  BY <1>44, KeepInv DEF vars, attemptVars, taskVars, upstreamVars, RowsKept,
     RowsThere
<1>. QED
  BY <1>1, <1>2, <1>3, <1>4, <1>5, <1>6, <1>7, <1>8, <1>9, <1>10, <1>11,
     <1>12, <1>13, <1>14, <1>15, <1>16, <1>17, <1>18, <1>19, <1>20, <1>21,
     <1>22, <1>23, <1>24, <1>25, <1>26, <1>27, <1>28, <1>29, <1>30, <1>31,
     <1>32, <1>33, <1>34, <1>35, <1>36, <1>37, <1>38, <1>39, <1>40, <1>41,
     <1>42, <1>43, <1>44, <1>45 DEF Next, TaskStep, RefreshStep, PlannerStep,
     OperatorStep, ReconcileStep

(* The program starts with no attempt, no operation and nothing sent.      *)
LEMMA SubmissionInit ==
    ASSUME Init
    PROVE  SubmissionInv
<1>1. UsageType
  BY DEF Init, UsageType
<1>a. AccountType
  BY DEF Init, AccountType, ActivationStates
<1>2. NoWindow \in Window
  BY DEF NoWindow, Window, NoKey, Key, KeyKinds
<1>3. AttemptType
  BY <1>2 DEF Init, AttemptStates, AttemptType
<1>4. NoTask \in Task
  BY DEF NoTask, Task, Steps, Errors
<1>5. TaskType
  BY <1>4 DEF Init, TaskType, OperationStates
<1>6. HelperType
  BY IdleType DEF Init, HelperType
<1>7. ProcessType /\ UpstreamType /\ HistoryType
  BY DEF Init, ProcessType, ReconSteps, UpstreamType, HistoryType
<1>8. TypeOK
  BY <1>1, <1>a, <1>3, <1>5, <1>6, <1>7 DEF TypeOK
<1>. QED
  BY <1>8 DEF Init, SubmissionInv, NoTaskYet, TaskOwnsAttempt, TasksApart,
     UnsentPlans, UnsentTasks, Unsent, BeforeSend, ErrorsLate,
     AtMostOneSubmission, NoTask

(* Of any number of attempts, operations, planners and restarts: the rows  *)
(* and the tasks stay related as SubmissionInv says.                       *)
THEOREM Submission == Spec => []SubmissionInv
BY SubmissionInit, SubmissionStep, PTL DEF Spec

(* Every column and every coroutine keeps to its values.                   *)
THEOREM TypeCorrect == Spec => []TypeOK
<1>1. SubmissionInv => TypeOK
  BY DEF SubmissionInv
<1>. QED
  BY <1>1, Submission, PTL

(* No attempt is submitted twice, by whatever interleaving of claims,      *)
(* requests, pauses, disabling, acknowledgment, shutdowns and crashes.     *)
THEOREM OneSubmission == Spec => []AtMostOneSubmission
<1>1. SubmissionInv => AtMostOneSubmission
  BY DEF SubmissionInv
<1>. QED
  BY <1>1, Submission, PTL
=============================================================================
