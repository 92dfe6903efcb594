------------------------ MODULE ActivationWindowsProofs ------------------------
(***************************************************************************)
(* Which windows the attempts of Activation are for, for every value of    *)
(* its constants: no two submissions share a window key, and two whose     *)
(* resets lie within the tolerance were planned without knowledge of each  *)
(* other; where plans are made one after the other, there are none.        *)
(***************************************************************************)
EXTENDS ActivationPromiseProofs

(* UNIQUE(account_id, window_key), which create() and the admission of a   *)
(* request keep.                                                           *)
KeysApart == \A a, b \in Existing : a # b => window[a].key # window[b].key

(* Every row is for a window: a decision without one inserts nothing.      *)
RowsKeyed == \A a \in Existing : window[a].key # NoKey

(* Rows, whatever became of them, whose resets are near excuse each other. *)
ResetsApart == \A a, b \in Existing : a # b /\ SameReset(a, b) => Unread(a, b)

(* A decision that plan() carries to create() was taken against all rows   *)
(* it had read; those are there still, and for the same windows.           *)
Far(r, s) == r = 0 \/ s = 0 \/ ~Near(r, s)
DecisionsFar ==
    \A p \in Planners :
        planner[p].pc = "create" =>
            /\ planner[p].decision.key # NoKey
            /\ planner[p].read \subseteq Existing
            /\ \A b \in planner[p].read :
                   Far(planner[p].decision.basis, window[b].basis)

(* OneSubmissionPerWindow speaks of submissions; the invariant speaks of   *)
(* rows, since a row is filtered when it is planned and sent much later.   *)
WindowInv == KeysApart /\ RowsKeyed /\ ResetsApart /\ DecisionsFar
-----------------------------------------------------------------------------
(* A decision that plan() lets pass is for a window of its own, is due,    *)
(* and is far from every reset a row was planned from; it was taken for an *)
(* account with nothing unresolved and with usage left.                    *)
LEMMA DecisionAdmitted ==
    ASSUME NEW e, NEW keys, NEW bases, Admissible(DecideSchedule(e), keys, bases)
    PROVE  /\ DecideSchedule(e).key # NoKey
           /\ DecideSchedule(e).key \notin keys
           /\ DecideSchedule(e).runAt # 0
           /\ \/ DecideSchedule(e).basis = 0
              \/ \A b \in bases : ~Near(DecideSchedule(e).basis, b)
           /\ e.eligible /\ ~e.unresolved
           /\ ~Exhausted(e.weekly)
           /\ e.short.present => ~Exhausted(e.short.used)
<1>1. DecideSchedule(e).key # NoKey
  BY DEF Admissible
<1>2. \A c : Nothing(c).key = NoKey
  BY DEF Nothing
<1>3. e.eligible /\ ~e.unresolved
  <2>1. ~e.eligible \/ e.unresolved => DecideSchedule(e) = Nothing("UNKNOWN")
    BY DEF DecideSchedule
  <2>. QED
    BY <1>1, <1>2, <2>1
<1>4. ~Exhausted(e.weekly) /\ (e.short.present => ~Exhausted(e.short.used))
  <2>1. Exhausted(e.weekly) \/ (e.short.present /\ Exhausted(e.short.used))
           => DecideSchedule(e) = Nothing("CONFIRMED")
    BY <1>3 DEF DecideSchedule
  <2>. QED
    BY <1>1, <1>2, <2>1
<1>. QED
  BY <1>1, <1>3, <1>4 DEF Admissible

(* Nearness does not depend on which of two resets is looked at first.     *)
LEMMA NearSymmetric ==
    ASSUME NEW r \in Nat, NEW s \in Nat, Near(r, s)
    PROVE  Near(s, r)
BY DEF Near

(* The request of the operator names a window, too.                        *)
LEMMA ManualKeyed == ManualWindow.key # NoKey
BY DEF ManualWindow, ReportedKey, ManualKey, NoKey
-----------------------------------------------------------------------------
(* No row comes or goes or changes its window; no plan gets further.       *)
RowsFixed ==
    /\ \A a \in Attempts : state'[a] = "ABSENT" <=> state[a] = "ABSENT"
    /\ \A a \in Attempts : /\ window'[a].key = window[a].key
                           /\ window'[a].basis = window[a].basis
    /\ unread' = unread
PlannersFixed ==
    \A p \in Planners : planner'[p].pc = "create" => planner'[p] = planner[p]

(* Such a step keeps the invariant.                                        *)
LEMMA FixedInv ==
    ASSUME WindowInv, RowsFixed, PlannersFixed
    PROVE  WindowInv'
<1>1. Existing' = Existing
  BY DEF RowsFixed, Existing
<1>2. KeysApart' /\ RowsKeyed'
  BY <1>1 DEF WindowInv, RowsFixed, KeysApart, RowsKeyed, Existing
<1>3. ResetsApart'
  BY <1>1 DEF WindowInv, RowsFixed, ResetsApart, SameReset, Unread, Existing
<1>4. DecisionsFar'
  <2>1. SUFFICES ASSUME NEW p \in Planners, planner'[p].pc = "create"
                 PROVE  /\ planner'[p].decision.key # NoKey
                        /\ planner'[p].read \subseteq Existing'
                        /\ \A b \in planner'[p].read :
                               Far(planner'[p].decision.basis, window'[b].basis)
    BY DEF DecisionsFar
  <2>2. planner'[p] = planner[p]
    BY <2>1 DEF PlannersFixed
  <2>3. /\ planner[p].decision.key # NoKey
        /\ planner[p].read \subseteq Existing
        /\ \A b \in planner[p].read :
                   Far(planner[p].decision.basis, window[b].basis)
    BY <2>1, <2>2 DEF WindowInv, DecisionsFar
  <2>. QED
    BY <1>1, <2>2, <2>3 DEF Far, RowsFixed, Existing
<1>. QED
  BY <1>2, <1>3, <1>4 DEF WindowInv

(* One row a is added, under a key of its own, and either far from the     *)
(* rows there were or recorded as planned without them.                    *)
LEMMA AddedInv ==
    ASSUME TypeOK, TypeOK', WindowInv, PlannersFixed,
           NEW a \in Attempts, state[a] = "ABSENT",
           Existing' = Existing \cup {a},
           \A b \in Attempts \ {a} : window'[b] = window[b],
           unread \subseteq unread',
           window'[a].key # NoKey,
           \A b \in Existing : window'[a].key # window[b].key,
           \A b \in Existing : \/ Far(window'[a].basis, window[b].basis)
                               \/ <<b, a>> \in unread'
    PROVE  WindowInv'
<1>t. /\ \A b \in Attempts : window[b].basis \in Nat /\ window'[b].basis \in Nat
      /\ Existing \subseteq Attempts /\ a \notin Existing
  BY DEF TypeOK, AttemptType, Window, Existing
<1>1. \A b \in Existing : b # a /\ window'[b] = window[b]
  BY <1>t
<1>2. KeysApart' /\ RowsKeyed'
  BY <1>1, <1>t DEF WindowInv, KeysApart, RowsKeyed
<1>3. ResetsApart'
  <2>1. SUFFICES ASSUME NEW b \in Existing', NEW c \in Existing', b # c,
                        SameReset(b, c)'
                 PROVE  Unread(b, c)'
    BY DEF ResetsApart
  <2>2. CASE b \in Existing /\ c \in Existing
    <3>1. SameReset(b, c)
      BY <1>1, <2>1, <2>2 DEF SameReset
    <3>2. Unread(b, c)
      BY <2>1, <2>2, <3>1 DEF WindowInv, ResetsApart
    <3>. QED
      BY <3>2 DEF Unread
  <2>3. CASE b = a /\ c \in Existing
    <3>1. ~Far(window'[a].basis, window[c].basis)
      BY <1>1, <2>1, <2>3 DEF SameReset, Far
    <3>. QED
      BY <2>3, <3>1 DEF Unread
  <2>4. CASE b \in Existing /\ c = a
    <3>1. Near(window'[a].basis, window[b].basis)
      BY <1>1, <1>t, <2>1, <2>4, NearSymmetric DEF SameReset
    <3>2. ~Far(window'[a].basis, window[b].basis)
      BY <1>1, <2>1, <2>4, <3>1 DEF SameReset, Far
    <3>. QED
      BY <2>4, <3>2 DEF Unread
  <2>. QED
    BY <2>1, <2>2, <2>3, <2>4
<1>4. DecisionsFar'
  <2>1. SUFFICES ASSUME NEW p \in Planners, planner'[p].pc = "create"
                 PROVE  /\ planner'[p].decision.key # NoKey
                        /\ planner'[p].read \subseteq Existing'
                        /\ \A b \in planner'[p].read :
                               Far(planner'[p].decision.basis, window'[b].basis)
    BY DEF DecisionsFar
  <2>2. planner'[p] = planner[p]
    BY <2>1 DEF PlannersFixed
  <2>3. /\ planner[p].decision.key # NoKey
        /\ planner[p].read \subseteq Existing
        /\ \A b \in planner[p].read :
                   Far(planner[p].decision.basis, window[b].basis)
    BY <2>1, <2>2 DEF WindowInv, DecisionsFar
  <2>. QED
    BY <1>1, <2>2, <2>3 DEF Far
<1>. QED
  BY <1>2, <1>3, <1>4 DEF WindowInv
-----------------------------------------------------------------------------
(* What a task does changes what becomes of rows, and neither which there  *)
(* are nor what they are for: a request for an attempt that is planned     *)
(* already only moves its due time.                                        *)
LEMMA TasksFix ==
    ASSUME TypeOK, TaskOwnsAttempt, NEW o \in Operations,
           \/ Claim(o) \/ ActivateRequest(o) \/ (TaskStep(o) /\ ~ActivateAdmit(o))
           \/ task[o].pc = "created" /\ (AdmitPlanned(o) \/ RejectDuplicate(o))
              /\ UNCHANGED <<helperVars, historyVars>>
    PROVE  RowsFixed /\ PlannersFixed
<1>t. /\ state \in [Attempts -> AttemptStates]
      /\ window \in [Attempts -> Window]
  BY DEF TypeOK, AttemptType
<1>p. task[o].pc \notin {"free", "created"} =>
          task[o].of \in Attempts /\ state[task[o].of] # "ABSENT"
  BY DEF TaskOwnsAttempt
<1>1. CASE Claim(o)
  BY <1>1, <1>t DEF Claim, Earliest, DuePlans, RowsFixed, PlannersFixed,
     helperVars, historyVars
<1>2. CASE ActivateRequest(o)
  BY <1>2 DEF ActivateRequest, RowsFixed, PlannersFixed, attemptVars,
     helperVars, historyVars
<1>3. CASE /\ task[o].pc = "created" /\ (AdmitPlanned(o) \/ RejectDuplicate(o))
           /\ UNCHANGED <<helperVars, historyVars>>
  BY <1>3, <1>t DEF AdmitPlanned, AdmitAttempt, RejectDuplicate, Earliest,
     Planned, RowsFixed, PlannersFixed, helperVars, historyVars, Window
<1>4. CASE Start(o) \/ Precheck(o) \/ Acquire(o) \/ Boot(o) \/ Recheck(o)
  BY <1>4 DEF Start, Precheck, Acquire, Boot, Recheck, RowsFixed,
     PlannersFixed, attemptVars, helperVars, historyVars
<1>5. CASE CreateThread(o) \/ MarkDispatching(o) \/ AcceptTurn(o)
  BY <1>5, <1>t, <1>p DEF CreateThread, MarkDispatching, AcceptTurn,
     RowsFixed, PlannersFixed, helperVars, historyVars
<1>6. CASE SendTurn(o) \/ TurnReply(o) \/ AwaitTurn(o) \/ OpenIncident(o)
  BY <1>6 DEF SendTurn, TurnReply, AwaitTurn, OpenIncident, RowsFixed,
     PlannersFixed, attemptVars, helperVars, historyVars
<1>7. CASE Finish(o)
  BY <1>7, <1>t DEF Finish, Quarantine, Moved, RowsFixed, PlannersFixed,
     helperVars, historyVars
<1>8. CASE Complete(o)
  BY <1>8, <1>t, <1>p DEF Complete, Completion, Completed, Moved, RowsFixed,
     PlannersFixed, helperVars, historyVars
<1>9. CASE HandleIneligible(o)
  BY <1>9, <1>t, <1>p DEF HandleIneligible, Pause, Rescheduled, RowsFixed,
     PlannersFixed, helperVars, historyVars
<1>10. CASE RecordFailure(o)
  BY <1>10, <1>t, <1>p DEF RecordFailure, Failure, RowsFixed, PlannersFixed,
     helperVars, historyVars
<1>. QED
  BY <1>1, <1>2, <1>3, <1>4, <1>5, <1>6, <1>7, <1>8, <1>9, <1>10 DEF TaskStep

(* The clock, upstream, a usage refresh and the commands of the operator   *)
(* but the request of an attempt leave the rows and the plans alone.       *)
LEMMA BesideFix ==
    ASSUME TypeOK,
           \/ Tick \/ (\E a \in Attempts : UpstreamEnds(a)) \/ RefreshStep
           \/ Disable \/ Enable \/ Acknowledge \/ Delete \/ RecoverCredential
           \/ Reauthenticate \/ SignInLost \/ RefreshStart
    PROVE  RowsFixed /\ PlannersFixed
<1>t. /\ state \in [Attempts -> AttemptStates]
      /\ planner \in [Planners -> [pc : {"idle", "resolve", "account", "evidence",
                                        "create"}, decision : Decision,
                                  read : SUBSET Attempts]]
  BY DEF TypeOK, AttemptType, HelperType
<1>s. \A pc \in {"resolve", "account"} : StartPlanner(pc) => PlannersFixed
  BY <1>t DEF StartPlanner, PlannersFixed
<1>1. CASE Tick \/ (\E a \in Attempts : UpstreamEnds(a)) \/ Delete
           \/ RecoverCredential \/ Reauthenticate
  BY <1>1 DEF Tick, UpstreamEnds, Delete, RecoverCredential, Reauthenticate,
     RowsFixed, PlannersFixed, attemptVars, helperVars, historyVars
<1>2. CASE RefreshAcquire \/ RefreshStart
  BY <1>2 DEF RefreshAcquire, RefreshStart, RowsFixed, PlannersFixed,
     attemptVars, historyVars
<1>3. CASE RefreshRead \/ RecordUsageFailure \/ SignInLost
  BY <1>3, <1>t DEF RefreshRead, RecordUsageFailure, SignInLost, Quarantine,
     Moved, RowsFixed, PlannersFixed, helperVars, historyVars
<1>4. CASE CommitUsage \/ Enable
  BY <1>4, <1>s DEF CommitUsage, Enable, RowsFixed, PlannersFixed,
     attemptVars, historyVars
<1>5. CASE Disable
  BY <1>5, <1>t DEF Disable, AfterDisable, Early, RowsFixed, PlannersFixed,
     helperVars
<1>6. CASE Acknowledge
  BY <1>6, <1>t, <1>s DEF Acknowledge, AfterReview, RowsFixed, historyVars
<1>. QED
  BY <1>1, <1>2, <1>3, <1>4, <1>5, <1>6 DEF RefreshStep

(* Nor do a shutdown, a crash and the reconciliation after it, which end   *)
(* every plan on its way.                                                  *)
LEMMA ProcessFixes ==
    ASSUME TypeOK, TaskOwnsAttempt, ReconKnows,
           \/ Close \/ Restart \/ (\E a \in Attempts : ReconcileStep(a))
           \/ ReconcileDone
    PROVE  RowsFixed /\ PlannersFixed
<1>t. state \in [Attempts -> AttemptStates]
  BY DEF TypeOK, AttemptType
<1>1. CASE Close
  <2>1. PlannersFixed
    BY <1>1 DEF Close, PlannersFixed, IdlePlanner
  <2>2. window' = window /\ unread' = unread
    BY <1>1 DEF Close
  <2>3. CASE NoJobRuns
    BY <2>1, <2>2, <2>3 DEF NoJobRuns, RowsFixed
  <2>4. ASSUME NEW o \in Operations, CompletionRuns(o)
        PROVE  RowsFixed
    <3>1. task[o].of \in Attempts /\ state[task[o].of] # "ABSENT"
      BY <2>4 DEF CompletionRuns, TaskOwnsAttempt
    <3>. QED
      BY <1>t, <2>2, <2>4, <3>1 DEF CompletionRuns, Completion, Completed,
         Moved, RowsFixed
  <2>. QED
    BY <1>1, <2>1, <2>3, <2>4 DEF Close
<1>2. CASE Restart
  BY <1>2, <1>t DEF Restart, AfterRestart, Submitted, Early, RowsFixed,
     PlannersFixed, IdlePlanner, historyVars
<1>3. ASSUME NEW a \in Attempts, ReconcileStart(a) \/ ReconcileAnnounce(a)
      PROVE  RowsFixed /\ PlannersFixed
  BY <1>3 DEF ReconcileStart, ReconcileAnnounce, RowsFixed, PlannersFixed,
     attemptVars, helperVars, historyVars
<1>4. ASSUME NEW a \in Attempts, ReconcileRead(a)
      PROVE  RowsFixed /\ PlannersFixed
  BY <1>4, <1>t DEF ReconcileRead, Quarantine, Moved, RowsFixed,
     PlannersFixed, helperVars, historyVars
<1>5. ASSUME NEW a \in Attempts, ReconcileSettle(a)
      PROVE  RowsFixed /\ PlannersFixed
  <2>1. state[a] = "AMBIGUOUS"
    BY <1>5 DEF ReconcileSettle, ReconKnows
  <2>. QED
    BY <1>5, <1>t, <2>1 DEF ReconcileSettle, Completion, Completed, Failure,
       Moved, RowsFixed, PlannersFixed, helperVars, historyVars
<1>6. CASE ReconcileDone
  BY <1>6 DEF ReconcileDone, RowsFixed, PlannersFixed, attemptVars,
     helperVars, historyVars
<1>. QED
  BY <1>1, <1>2, <1>3, <1>4, <1>5, <1>6 DEF ReconcileStep
-----------------------------------------------------------------------------
(* Rows are added by a request of the operator, which looks at the keys    *)
(* and the resets of all rows in the job that inserts its own, and by      *)
(* create(), which looks at the keys only: that it is far from the rows    *)
(* that were there when its decision was taken is what plan() has seen to. *)
LEMMA WindowStep ==
    ASSUME SubmissionInv, PromiseInv, TypeOK', WindowInv, [Next]_vars
    PROVE  WindowInv'
<1>t. /\ TypeOK /\ TaskOwnsAttempt /\ ReconKnows
      /\ state \in [Attempts -> AttemptStates]
      /\ window \in [Attempts -> Window]
      /\ planner \in [Planners -> [pc : {"idle", "resolve", "account", "evidence",
                                        "create"}, decision : Decision,
                                  read : SUBSET Attempts]]
  BY DEF SubmissionInv, PromiseInv, TypeOK, AttemptType, HelperType
<1>1. ASSUME NEW o \in Operations, AdmitNew(o), ActivateAdmit(o)
      PROVE  WindowInv'
  <2>1. PICK a \in Attempts :
            /\ state[a] = "ABSENT" /\ state' = [state EXCEPT ![a] = "QUEUED"]
            /\ window' = [window EXCEPT ![a] = ManualWindow]
    BY <1>1 DEF AdmitNew, NextAttempt, AdmitAttempt
  <2>2. unread' = unread /\ PlannersFixed
    BY <1>1 DEF ActivateAdmit, historyVars, helperVars, PlannersFixed
  <2>3. Existing' = Existing \cup {a}
    BY <1>t, <2>1 DEF Existing
  <2>4. window'[a] = ManualWindow /\ \A b \in Attempts \ {a} : window'[b] = window[b]
    BY <1>t, <2>1
  <2>5. \A b \in Existing : /\ window[b].key # ManualWindow.key
                            /\ Far(ManualWindow.basis, window[b].basis)
    <3>1. ASSUME NEW b \in Existing
          PROVE  /\ window[b].key # ManualWindow.key
                 /\ \/ ManualWindow.basis = 0 \/ window[b].basis = 0
                    \/ ~Near(window[b].basis, ManualWindow.basis)
      BY <1>1 DEF AdmitNew, WindowTaken, Existing
    <3>2. \A b \in Existing : window[b].basis \in Nat
      BY <1>t DEF Existing, Window
    <3>3. ManualWindow.basis \in Nat
      BY <1>t, ManualType DEF Window
    <3>. QED
      BY <3>1, <3>2, <3>3, NearSymmetric DEF Far
  <2>. QED
    BY <1>t, <2>1, <2>2, <2>3, <2>4, <2>5, ManualKeyed, AddedInv
<1>2. ASSUME NEW p \in Planners, PlanCreate(p)
      PROVE  WindowInv'
  <2>. DEFINE d == planner[p].decision
  <2>1. PlannersFixed
    BY <1>2, <1>t DEF PlanCreate, PlannerDone, IdlePlanner, PlannersFixed
  <2>2. CASE UNCHANGED <<state, window, unread>>
    BY <2>1, <2>2, FixedInv DEF RowsFixed
  <2>3. CASE ~PlanRefused(d) /\ PlanInsert(d, planner[p].read)
    <3>1. PICK a \in Attempts :
              /\ state[a] = "ABSENT" /\ state' = [state EXCEPT ![a] = "PLANNED"]
              /\ window' = [window EXCEPT ![a] =
                              [key |-> d.key, basis |-> d.basis, due |-> d.runAt,
                               confidence |-> d.confidence]]
              /\ unread' = IF d.basis = 0 THEN unread
                            ELSE unread \cup
                                 {<<b, a>> : b \in Existing \ planner[p].read}
      BY <2>3 DEF PlanInsert, NextAttempt
    <3>2. Existing' = Existing \cup {a}
      BY <1>t, <3>1 DEF Existing
    <3>3. /\ window'[a].key = d.key /\ window'[a].basis = d.basis
          /\ \A b \in Attempts \ {a} : window'[b] = window[b]
      BY <1>t, <3>1
    <3>4. /\ d.key # NoKey
          /\ \A b \in planner[p].read : Far(d.basis, window[b].basis)
      BY <1>2 DEF PlanCreate, WindowInv, DecisionsFar
    <3>5. \A b \in Existing : d.key # window[b].key
      BY <2>3 DEF PlanRefused, Keys
    <3>6. \A b \in Existing : Far(d.basis, window[b].basis) \/ <<b, a>> \in unread'
      BY <3>1, <3>4 DEF Far
    <3>7. unread \subseteq unread'
      BY <3>1
    <3>. QED
      BY <1>t, <2>1, <3>1, <3>2, <3>3, <3>4, <3>5, <3>6, <3>7, AddedInv
  <2>. QED
    BY <1>2, <2>2, <2>3 DEF PlanCreate
<1>3. ASSUME NEW p \in Planners, PlanEvidence(p)
      PROVE  WindowInv'
  <2>. DEFINE d == DecideSchedule(Evidence)
  <2>1. RowsFixed /\ Existing' = Existing
    BY <1>3 DEF PlanEvidence, RowsFixed, attemptVars, historyVars, Existing
  <2>2. CASE PlannerDone(p)
    <3>1. PlannersFixed
      BY <1>t, <2>2 DEF PlannerDone, IdlePlanner, PlannersFixed
    <3>. QED
      BY <2>1, <3>1, FixedInv
  <2>3. CASE /\ Admissible(d, Keys, Bases)
             /\ planner' = [planner EXCEPT ![p] =
                              [pc |-> "create", decision |-> d, read |-> Existing]]
    <3>1. /\ planner'[p].decision = d /\ planner'[p].read = Existing
          /\ \A q \in Planners \ {p} : planner'[q] = planner[q]
      BY <1>t, <2>3
    <3>2. d.key # NoKey
      BY <2>3 DEF Admissible
    <3>3. ASSUME NEW b \in Existing
          PROVE  Far(d.basis, window[b].basis)
      BY <2>3 DEF Admissible, Bases, Far
    <3>4. UNCHANGED window
      BY <1>3 DEF PlanEvidence, attemptVars
    <3>5. DecisionsFar'
      BY <2>1, <3>1, <3>2, <3>3, <3>4 DEF WindowInv, DecisionsFar
    <3>6. KeysApart' /\ RowsKeyed' /\ ResetsApart'
      BY <2>1, <3>4 DEF WindowInv, KeysApart, RowsKeyed, ResetsApart,
         SameReset, Unread, RowsFixed
    <3>. QED
      BY <3>5, <3>6 DEF WindowInv
  <2>. QED
    BY <1>3, <2>2, <2>3 DEF PlanEvidence
<1>4. ASSUME NEW p \in Planners, ResolveIncident(p) \/ PlanAccount(p)
      PROVE  WindowInv'
  <2>1. RowsFixed
    BY <1>4 DEF ResolveIncident, PlanAccount, RowsFixed, attemptVars,
       historyVars
  <2>2. PlannersFixed
    BY <1>4, <1>t DEF ResolveIncident, PlanAccount, PlannerAt, PlannerDone,
       IdlePlanner, PlannersFixed
  <2>. QED
    BY <2>1, <2>2, FixedInv
<1>5. ASSUME NEW o \in Operations, Claim(o) \/ TaskStep(o) \/ ActivateRequest(o),
             ~(ActivateAdmit(o) /\ AdmitNew(o))
      PROVE  WindowInv'
  <2>1. \/ Claim(o) \/ ActivateRequest(o) \/ (TaskStep(o) /\ ~ActivateAdmit(o))
        \/ /\ task[o].pc = "created" /\ (AdmitPlanned(o) \/ RejectDuplicate(o))
           /\ UNCHANGED <<helperVars, historyVars>>
    BY <1>5 DEF ActivateAdmit
  <2>. QED
    BY <1>t, <2>1, TasksFix, FixedInv
<1>6. CASE \/ Tick \/ (\E a \in Attempts : UpstreamEnds(a)) \/ RefreshStep
           \/ Disable \/ Enable \/ Acknowledge \/ Delete \/ RecoverCredential
           \/ Reauthenticate \/ SignInLost \/ RefreshStart
  BY <1>t, <1>6, BesideFix, FixedInv
<1>7. CASE \/ Close \/ Restart \/ (\E a \in Attempts : ReconcileStep(a))
           \/ ReconcileDone
  BY <1>t, <1>7, ProcessFixes, FixedInv
<1>8. CASE UNCHANGED vars
  BY <1>8, FixedInv DEF vars, attemptVars, helperVars, historyVars, RowsFixed,
     PlannersFixed
<1>. QED
  BY <1>1, <1>2, <1>3, <1>4, <1>5, <1>6, <1>7, <1>8 DEF Next, PlannerStep,
     OperatorStep, TaskStep

(* An account starts without rows and without plans.                       *)
LEMMA WindowInit ==
    ASSUME Init
    PROVE  WindowInv
BY DEF Init, WindowInv, KeysApart, RowsKeyed, ResetsApart, DecisionsFar,
   Existing, IdlePlanner

(* The rows of an account are for different windows, whatever became of    *)
(* them, as far as each was planned with the others in sight; and so is    *)
(* every decision that a plan still carries to its insert.                 *)
THEOREM WindowBasis == Spec => []WindowInv
<1>1. SubmissionInv => TypeOK
  BY DEF SubmissionInv
<1>2. SubmissionInv /\ SubmissionInv' /\ PromiseInv /\ WindowInv /\ [Next]_vars
      => WindowInv'
  BY <1>1, WindowStep DEF SubmissionInv
<1>. QED
  BY <1>2, WindowInit, Submission, PromiseBasis, PTL DEF Spec

(* No two attempts of an account submit for the same window: not under one *)
(* key, and not for resets within the tolerance of each other, unless one  *)
(* was planned from evidence read before the other was there.              *)
THEOREM OneWindowEach == Spec => []OneSubmissionPerWindow
<1>1. SubmissionInv /\ WindowInv => OneSubmissionPerWindow
  <2>1. SUFFICES ASSUME SubmissionInv, WindowInv,
                        NEW a \in Submissions, NEW b \in Submissions, a # b
                 PROVE  /\ window[a].key # window[b].key
                        /\ SameReset(a, b) => Unread(a, b)
    BY DEF OneSubmissionPerWindow
  <2>2. a \in Existing /\ b \in Existing
    BY <2>1 DEF Submissions, Existing, SubmissionInv, UnsentPlans
  <2>. QED
    BY <2>1, <2>2 DEF WindowInv, KeysApart, ResetsApart
<1>. QED
  BY <1>1, Submission, WindowBasis, PTL
-----------------------------------------------------------------------------
(* An account without requests of the operator for which one plan is made  *)
(* at a time: what the excuse above does not need.                         *)
SingleFile == "activate" \notin Commands /\ \A p, q \in Planners : p = q

(* Then no row comes between the evidence of a plan and its row.           *)
SingleFileInv ==
    SingleFile =>
        /\ \A o \in Operations : task[o].pc # "created"
        /\ \A p \in Planners : planner[p].pc = "create" => planner[p].read = Existing
        /\ unread = {}

(* Only a request of the operator waits for its admission.                 *)
LEMMA CreatedByRequest ==
    ASSUME TypeOK, [Next]_vars, NEW o \in Operations, task'[o].pc = "created"
    PROVE  task[o].pc = "created" \/ ActivateRequest(o)
<1>t. task \in [Operations -> Task]
  BY DEF TypeOK, TaskType
<1>1. ASSUME NEW p \in Operations, Claim(p)
      PROVE  task[o].pc = "created"
  BY <1>1, <1>t DEF Claim
<1>2. ASSUME NEW p \in Operations, ActivateRequest(p)
      PROVE  task[o].pc = "created" \/ ActivateRequest(o)
  BY <1>2, <1>t DEF ActivateRequest, Goto, Task
<1>3. ASSUME NEW p \in Operations, TaskStep(p)
      PROVE  task[o].pc = "created"
  <2>1. CASE ActivateAdmit(p)
    BY <2>1, <1>t DEF ActivateAdmit, AdmitPlanned, AdmitNew, AdmitAttempt,
       RejectDuplicate, Return, NoTask, Task
  <2>2. CASE Start(p) \/ MarkDispatching(p) \/ SendTurn(p) \/ AcceptTurn(p)
    BY <2>2, <1>t DEF Start, MarkDispatching, SendTurn, AcceptTurn, Goto, Task
  <2>3. CASE Precheck(p) \/ Acquire(p) \/ Boot(p) \/ CreateThread(p) \/ Recheck(p)
             \/ TurnReply(p)
    BY <2>3, <1>t DEF Precheck, Acquire, Boot, CreateThread, Recheck,
       TurnReply, Goto, Raise, Task
  <2>4. CASE AwaitTurn(p) \/ Finish(p)
    BY <2>4, <1>t DEF AwaitTurn, TurnOutcome, Notified, Finish, AfterFinish,
       Goto, Raise, Task
  <2>5. CASE Complete(p) \/ HandleIneligible(p) \/ RecordFailure(p)
             \/ OpenIncident(p)
    BY <2>5, <1>t DEF Complete, HandleIneligible, Pause, RecordFailure,
       OpenIncident, Goto, Return, NoTask, Task
  <2>. QED
    BY <1>3, <2>1, <2>2, <2>3, <2>4, <2>5 DEF TaskStep
<1>4. CASE Close
  <2>1. task'[o] = Cancelled(task[o]) /\ task[o] \in Task
    BY <1>4, <1>t DEF Close
  <2>2. Cancelled(task[o]) = NoTask \/ Cancelled(task[o]).pc \in {"finish", "fail"}
        \/ task[o].pc \in {"free", "created"}
    BY <2>1, CancelledTask
  <2>3. task[o].pc \in {"free", "created"} => Cancelled(task[o]) = task[o]
    BY <2>1, CancelledTask
  <2>. QED
    BY <2>1, <2>2, <2>3 DEF NoTask
<1>5. CASE Restart
  BY <1>5 DEF Restart, NoTask
<1>6. CASE \/ Tick \/ (\E a \in Attempts : UpstreamEnds(a)) \/ RefreshStep
           \/ (\E p \in Planners : PlannerStep(p))
  BY <1>6 DEF Tick, UpstreamEnds, RefreshStep, RefreshAcquire, RefreshRead,
     CommitUsage, RecordUsageFailure, PlannerStep, ResolveIncident,
     PlanAccount, PlanEvidence, PlanCreate, taskVars
<1>7. CASE \/ Disable \/ Enable \/ Acknowledge \/ Delete \/ RecoverCredential
           \/ Reauthenticate \/ SignInLost \/ RefreshStart
  BY <1>7 DEF Disable, Enable, Acknowledge, Delete, RecoverCredential,
     Reauthenticate, SignInLost, RefreshStart, taskVars
<1>8. CASE (\E a \in Attempts : ReconcileStep(a)) \/ ReconcileDone
  BY <1>8 DEF ReconcileStep, ReconcileStart, ReconcileRead, ReconcileSettle,
     ReconcileAnnounce, ReconcileDone, taskVars
<1>9. CASE UNCHANGED vars
  BY <1>9 DEF vars, taskVars
<1>. QED
  BY <1>1, <1>2, <1>3, <1>4, <1>5, <1>6, <1>7, <1>8, <1>9 DEF Next,
     OperatorStep

(* One plan after the other keeps every row in the sight of the next.      *)
LEMMA SingleFileStep ==
    ASSUME SubmissionInv, PromiseInv, SingleFileInv, [Next]_vars
    PROVE  SingleFileInv'
<1>t. /\ TypeOK /\ TaskOwnsAttempt /\ ReconKnows
      /\ planner \in [Planners -> [pc : {"idle", "resolve", "account", "evidence",
                                        "create"}, decision : Decision,
                                  read : SUBSET Attempts]]
  BY DEF SubmissionInv, PromiseInv, TypeOK, HelperType
<1>1. SUFFICES ASSUME SingleFile
               PROVE  SingleFileInv'
  BY DEF SingleFileInv, SingleFile
<1>2. /\ \A o \in Operations : task[o].pc # "created"
      /\ \A p \in Planners : planner[p].pc = "create" => planner[p].read = Existing
      /\ unread = {}
  BY <1>1 DEF SingleFileInv
<1>3. \A o \in Operations : ~ActivateRequest(o) /\ ~ActivateAdmit(o)
  BY <1>1, <1>2 DEF SingleFile, ActivateRequest, ActivateAdmit
<1>4. \A o \in Operations : task'[o].pc # "created"
  BY <1>t, <1>2, <1>3, CreatedByRequest
<1>5. CASE RowsFixed /\ PlannersFixed
  <2>1. Existing' = Existing /\ unread' = {}
    BY <1>2, <1>5 DEF RowsFixed, Existing
  <2>2. \A p \in Planners : planner'[p].pc = "create" => planner'[p].read = Existing
    BY <1>2, <1>5 DEF PlannersFixed
  <2>. QED
    BY <1>4, <2>1, <2>2 DEF SingleFileInv
<1>6. ASSUME NEW p \in Planners, PlanCreate(p)
      PROVE  SingleFileInv'
  <2>1. unread' = {}
    BY <1>2, <1>6 DEF PlanCreate, PlanInsert
  <2>2. \A q \in Planners : planner'[q].pc # "create"
    BY <1>t, <1>1, <1>6 DEF SingleFile, PlanCreate, PlannerDone, IdlePlanner
  <2>. QED
    BY <1>4, <2>1, <2>2 DEF SingleFileInv
<1>7. ASSUME NEW p \in Planners,
             PlanEvidence(p) \/ ResolveIncident(p) \/ PlanAccount(p)
      PROVE  SingleFileInv'
  <2>1. Existing' = Existing /\ unread' = {}
    BY <1>2, <1>7 DEF PlanEvidence, ResolveIncident, PlanAccount, Existing,
       attemptVars, historyVars
  <2>2. \A q \in Planners : planner'[q].pc = "create" => planner'[q].read = Existing
    BY <1>t, <1>2, <1>7 DEF PlanEvidence, ResolveIncident, PlanAccount,
       PlannerAt, PlannerDone, IdlePlanner
  <2>. QED
    BY <1>4, <2>1, <2>2 DEF SingleFileInv
<1>8. ASSUME NEW o \in Operations, Claim(o) \/ TaskStep(o) \/ ActivateRequest(o)
      PROVE  SingleFileInv'
  BY <1>t, <1>3, <1>5, <1>8, TasksFix
<1>9. CASE \/ Tick \/ (\E a \in Attempts : UpstreamEnds(a)) \/ RefreshStep
           \/ Disable \/ Enable \/ Acknowledge \/ Delete \/ RecoverCredential
           \/ Reauthenticate \/ SignInLost \/ RefreshStart
  BY <1>t, <1>5, <1>9, BesideFix
<1>10. CASE \/ Close \/ Restart \/ (\E a \in Attempts : ReconcileStep(a))
            \/ ReconcileDone
  BY <1>t, <1>5, <1>10, ProcessFixes
<1>11. CASE UNCHANGED vars
  BY <1>5, <1>11 DEF vars, attemptVars, helperVars, historyVars, RowsFixed,
     PlannersFixed
<1>. QED
  BY <1>6, <1>7, <1>8, <1>9, <1>10, <1>11 DEF Next, PlannerStep, OperatorStep

(* The resets of no two submissions are within the tolerance of each       *)
(* other, however often a read has moved the reset in between.             *)
ResetsFar ==
    SingleFile => \A a, b \in Submissions : a # b => ~SameReset(a, b)

(* Where plans are made one after the other and the operator requests no   *)
(* attempt, no window is submitted for twice, by key or by reset.          *)
THEOREM OneResetEach == Spec => []ResetsFar
<1>1. Init => SingleFileInv
  BY DEF Init, SingleFileInv, IdlePlanner, NoTask
<1>2. SubmissionInv /\ PromiseInv /\ SingleFileInv /\ [Next]_vars => SingleFileInv'
  BY SingleFileStep
<1>3. OneSubmissionPerWindow /\ SingleFileInv => ResetsFar
  BY DEF OneSubmissionPerWindow, SingleFileInv, ResetsFar, Unread
<1>. QED
  BY <1>1, <1>2, <1>3, Submission, PromiseBasis, OneWindowEach, PTL DEF Spec
=============================================================================
