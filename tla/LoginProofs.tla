---------------------------- MODULE LoginProofs ----------------------------
(***************************************************************************)
(* Theorems about Login for any number of sign-ins, credentials, trees and *)
(* restarts: its types, that an unfinished sign-in is attended to, that a  *)
(* registered runtime has an owner, that the newest managed credential is  *)
(* never lost and an account that looks healthy has it stored, and that a  *)
(* cancelled sign-in promotes nothing.                                     *)
(***************************************************************************)
EXTENDS Login, TLAPS

(* A sign-in with a runtime of its own; at "finish" it has just given it   *)
(* up.                                                                     *)
WithRuntime == {"begin", "ask", "ready", "user", "verifying", "verify", "promote",
                "discard", "drop", "keep", "keepLate", "rotate", "capture",
                "persist", "clean", "unfork"}
CallWithRuntime == CallLocked \cup {"discard", "keep"}

(* The credential lock of the account has one holder.                      *)
LockExclusive ==
    /\ \A a, b \in Logins :
          task[a].pc \in Holding /\ task[b].pc \in Holding => a = b
    /\ \A a \in Logins : ~(task[a].pc \in Holding /\ call.pc \in CallHolds)

(* The tree of a fork and of a managed call is there as long as the lock   *)
(* of its runtime is held: stop() waits for that lock.                     *)
TreesThere ==
    /\ \A a \in Logins :
          /\ task[a].pc \in WithRuntime \cup {"finish", "unfinish"}
                => task[a].tree \in Trees
          /\ task[a].pc \in {"rotate", "capture"} =>
                slot = task[a].tree /\ file[slot] # Gone
    /\ call.pc \in CallWithRuntime => call.tree \in Trees
    /\ call.pc \in {"call", "check"} => slot = call.tree /\ file[slot] # Gone

(* A runtime that is registered, and that no cancelled cleanup has left    *)
(* behind, is that of the holder of the lock, who is not past its removal. *)
Owned ==
    slot # None /\ ~leaked =>
        \/ \E a \in Logins : task[a].pc \in WithRuntime /\ task[a].tree = slot
        \/ call.pc \in CallWithRuntime /\ call.tree = slot
RuntimeInv == LockExclusive /\ TreesThere /\ Owned
-----------------------------------------------------------------------------
(* A row of operations that is not there has no sign-in; one that is not   *)
(* in login_attempts has not been cancelled, and before the interaction is *)
(* published nobody can cancel it.                                         *)
Unpublished == {"asked", "created", "starting", "boot", "begin", "ask"}
Beginnings ==
    \A a \in Logins :
        /\ operation[a] = "ABSENT" => task[a].pc = "free"
        /\ task[a].pc \in {"free", "asked"} => ~task[a].cut
        /\ task[a].pc \in {"free", "asked", "created"} => task[a].kind = "ACTIVE"
        /\ login[a] = "ABSENT" => task[a].pc \in {"free", "asked"} /\ cancel[a] = "none"
        /\ task[a].pc = "asked" => login[a] = "ABSENT"
        /\ login[a] = "ABSENT" \/ task[a].pc \in Unpublished =>
              cancel[a] = "none" /\ a \notin interactions

(* An accepted cancellation takes the sign-in out of every state that      *)
(* leads on, and is not done before the row is final; only then, or at a   *)
(* shutdown, the task itself is cancelled.                                 *)
CancelAccepted ==
    \A a \in Logins :
        /\ cancel[a] \notin {"none", "asked"} =>
              login[a] \notin Cancellable \cup {"CHECKPOINTING_CREDENTIAL"}
        /\ cancel[a] \in {"operation", "own", "SUCCEEDED"} => login[a] \notin Unfinished
        /\ task[a].cut => cancel[a] = "SUCCEEDED" \/ phase = "closing"
AttendedInv == Beginnings /\ CancelAccepted /\ UnfinishedIsAttended
-----------------------------------------------------------------------------
(* The newest credential of the managed lineage is the active one, unless  *)
(* the account was deleted meanwhile.                                      *)
Stored == live = active \/ (deleted /\ live = None)

(* No credential is newer than the last one issued.                        *)
IssuedBefore ==
    /\ active <= issued /\ live <= issued /\ call.source <= issued
    /\ \A t \in Trees : file[t] <= issued
    /\ \A a \in Logins : task[a].source <= issued /\ task[a].payload <= issued

(* Where a sign-in stands while the newest credential is stored, and where *)
(* it has it in its tree or in its memory.                                 *)
Settled == {"discard", "use", "fork", "abandon", "clean", "finish", "branch", "commit"}
Using   == {"fork", "rotate", "capture", "persist", "clean", "finish", "abandon"}
Keeps(a) ==
    /\ task[a].pc \in Settled => Stored
    /\ task[a].pc \in Holding /\ task[a].kind = "EXPORT" => Stored
    /\ task[a].pc \in {"begin", "ask", "ready", "user", "drop"} =>
          file[task[a].tree] \in {None, Gone}
    /\ task[a].pc = "rotate" => Stored
    /\ task[a].pc = "capture" /\ task[a].kind = "ACTIVE" =>
          live = file[task[a].tree] \/ (deleted /\ live = None)
    /\ task[a].pc = "persist" /\ task[a].kind = "ACTIVE" =>
          live = task[a].payload \/ (deleted /\ live = None)
    /\ task[a].pc \in Using => worker = "IN_USE"
    /\ task[a].pc \in {"unfork", "unfinish"} => Stored \/ worker = "IN_USE"
    /\ task[a].pc = "unfinish" => held = task[a].tree \/ task[a].kind = "EXPORT"
LoginKeeps == \A a \in Logins : Keeps(a)

CallKeeps ==
    /\ call.pc \in CallHolds \ {"use"} => worker = "IN_USE"
    /\ call.pc \in {"use", "start", "call"} =>
          call.source = active \/ (deleted /\ live = None)
    /\ call.pc \in {"start", "call", "discard", "release"} =>
          Stored \/ auth = "AUTH_REQUIRED"
    /\ call.pc = "call" => file[call.tree] = call.source
    /\ call.pc = "check" =>
          \/ live = file[call.tree] /\ call.source # live
          \/ deleted /\ live = None
          \/ /\ file[call.tree] = call.source /\ call.source = active
             /\ Stored \/ auth = "AUTH_REQUIRED"
    /\ call.pc = "promote" => call.source = live \/ (deleted /\ live = None)
    /\ call.pc = "discard" => Stored \/ file[call.tree] # live

(* An account whose newest credential is not stored does not look healthy. *)
Marked == Stored \/ auth = "AUTH_REQUIRED" \/ worker # "STOPPED"
CredentialInv ==
    IssuedBefore /\ LoginKeeps /\ CallKeeps /\ Marked /\ CredentialKept
-----------------------------------------------------------------------------
(* Consequences of the constants' assumptions.                             *)
LEMMA ConstantTypes ==
    MaxLogins \in Nat /\ MaxCredentials \in Nat /\ MaxTrees \in Nat /\ MaxRestarts \in Nat
BY LoginAssumption

(* An exception leads to a cleanup, or past the last of them.              *)
LEMMA Handlers ==
    ASSUME NEW a \in Logins
    PROVE  Handler(a) \in Cleanup \cup {"fail", "commit"}
BY DEF Handler, Cleanup

(* What an exception, and a job that may have been cancelled, make of the  *)
(* task.                                                                   *)
LEMMA RaisedTask ==
    ASSUME TypeOK, NEW a \in Logins, NEW to, Raises(a, to)
    PROVE  /\ \A b \in Logins \ {a} : task'[b] = task[b]
           /\ task'[a].pc = Handler(a) /\ task'[a].to = to /\ ~task'[a].cut
           /\ task'[a].tree = task[a].tree /\ task'[a].source = task[a].source
           /\ task'[a].payload = task[a].payload /\ task'[a].kind = task[a].kind
           /\ task'[a].recover = task[a].recover
           /\ to \in {"RESTART_REQUIRED"} \cup Failed => task' \in [Logins -> Task]
<1>1. Handler(a) \in Steps
  BY Handlers DEF Steps, Holding
<1>2. task \in [Logins -> Task]
  BY DEF TypeOK
<1>3. /\ task' = [task EXCEPT ![a] = task'[a]]
      /\ task'[a] = [task[a] EXCEPT !.pc = Handler(a), !.to = to, !.cut = FALSE]
  BY <1>2 DEF Raises
<1>4. /\ task'[a].pc = Handler(a) /\ task'[a].to = to /\ ~task'[a].cut
      /\ task'[a].tree = task[a].tree /\ task'[a].source = task[a].source
      /\ task'[a].payload = task[a].payload /\ task'[a].kind = task[a].kind
      /\ task'[a].recover = task[a].recover
  BY <1>2, <1>3 DEF Task
<1>5. to \in {"RESTART_REQUIRED"} \cup Failed => task'[a] \in Task
  BY ZenonT(30), <1>1, <1>2, <1>3 DEF Task
<1>. QED
  BY <1>2, <1>3, <1>4, <1>5

LEMMA ContinuedTask ==
    ASSUME TypeOK, NEW a \in Logins, NEW step, Continues(a, step)
    PROVE  /\ \A b \in Logins \ {a} : task'[b] = task[b]
           /\ task'[a].pc = IF task[a].cut THEN Handler(a) ELSE step
           /\ ~task'[a].cut
           /\ task'[a].tree = task[a].tree /\ task'[a].source = task[a].source
           /\ task'[a].payload = task[a].payload /\ task'[a].kind = task[a].kind
           /\ task'[a].recover = task[a].recover
           /\ step \in Steps => task' \in [Logins -> Task]
<1>1. CASE task[a].cut
  <2>1. Raises(a, "RESTART_REQUIRED")
    BY <1>1 DEF Continues, Cancelled
  <2>. QED
    BY <1>1, <2>1, RaisedTask
<1>2. CASE ~task[a].cut
  BY SMTT(30), <1>2 DEF TypeOK, Task, Continues
<1>. QED
  BY <1>1, <1>2

LEMMA Handled ==
    ASSUME NEW a \in Logins
    PROVE  /\ task[a].pc \in {"begin", "ask", "ready", "user"} => Handler(a) = "drop"
           /\ task[a].pc \in {"verifying", "verify"} => Handler(a) = "keep"
           /\ task[a].pc = "promote" => Handler(a) = "keepLate"
           /\ task[a].pc = "fork" => Handler(a) = "abandon"
           /\ task[a].pc \in {"rotate", "capture", "finish"} => Handler(a) = "unfork"
           /\ task[a].pc = "use" => \/ Handler(a) = "fail"
                                    \/ Handler(a) = "commit" /\ task[a].kind = "EXPORT"
           /\ task[a].pc \in {"created", "starting", "boot", "discard", "branch", "commit"}
                 => Handler(a) = "fail"
BY DEF Handler

(* A runtime that starts fresh for a sign-in, or does not.                 *)
LEMMA Booted ==
    ASSUME TypeOK, NEW a \in Logins, BootLogin(a) \/ BootFork(a)
    PROVE  /\ \A b \in Logins \ {a} : task'[b] = task[b]
           /\ task'[a].kind = task[a].kind /\ task'[a].payload = task[a].payload
           /\ task'[a].source = task[a].source
           /\ BootLogin(a) => task[a].pc = "boot" /\ task'[a].pc \in {"begin", "fail"}
           /\ BootFork(a) => task[a].pc = "fork" /\ task'[a].pc \in {"rotate", "abandon"}
           /\ task[a].cut = FALSE /\ task'[a].cut = FALSE
           /\ task' \in [Logins -> Task]
           /\ \/ task'[a].pc \in {"fail", "abandon"} /\ UNCHANGED runtimeVars
              \/ /\ task'[a].pc \in {"begin", "rotate"}
                 /\ slot = None /\ held = None /\ held' = held
                 /\ \E t \in Trees :
                       /\ slot' = t /\ task'[a].tree = t /\ file[t] = Gone
                       /\ file' = [file EXCEPT ![t] =
                                      IF task'[a].pc = "begin" THEN None ELSE task[a].source]
<1>1. /\ task \in [Logins -> Task] /\ task[a].cut = FALSE
      /\ BootLogin(a) => task[a].pc = "boot"
      /\ BootFork(a) => task[a].pc = "fork"
  BY DEF TypeOK, Task, BootLogin, BootFork, Reaches, At
<1>2. CASE \E to \in {"RESTART_REQUIRED"} \cup Failed : Raises(a, to) /\ UNCHANGED runtimeVars
  <2>1. PICK to \in {"RESTART_REQUIRED"} \cup Failed : Raises(a, to) /\ UNCHANGED runtimeVars
    BY <1>2
  <2>. QED
    BY <1>1, <2>1, RaisedTask, Handled
<1>3. ASSUME NEW t \in Trees, NEW step \in {"begin", "rotate"}, NEW c,
             task' = [task EXCEPT ![a].pc = step, ![a].tree = t], StartFresh(t, c),
             step = IF BootLogin(a) THEN "begin" ELSE "rotate",
             c = IF step = "begin" THEN None ELSE task[a].source
      PROVE  /\ \A b \in Logins \ {a} : task'[b] = task[b]
             /\ task'[a].kind = task[a].kind /\ task'[a].payload = task[a].payload
             /\ task'[a].source = task[a].source
             /\ task'[a].pc = step /\ task'[a].cut = FALSE /\ task'[a].tree = t
             /\ task' \in [Logins -> Task]
             /\ slot = None /\ held = None /\ held' = held /\ slot' = t /\ file[t] = Gone
             /\ file' = [file EXCEPT ![t] = c]
  <2>1. [task[a] EXCEPT !.pc = step, !.tree = t] \in Task
    BY ZenonT(30), <1>1 DEF Task, Steps, Holding, Locked
  <2>2. /\ task' = [task EXCEPT ![a] = [task[a] EXCEPT !.pc = step, !.tree = t]]
        /\ task'[a] = [task[a] EXCEPT !.pc = step, !.tree = t]
    BY <1>1, <1>3
  <2>3. /\ task'[a].kind = task[a].kind /\ task'[a].payload = task[a].payload
        /\ task'[a].source = task[a].source
        /\ task'[a].pc = step /\ task'[a].cut = FALSE /\ task'[a].tree = t
    BY <1>1, <2>2 DEF Task
  <2>. QED
    BY <1>1, <1>3, <2>1, <2>2, <2>3 DEF StartFresh, Unused
<1>4. CASE BootLogin(a) /\ ~UNCHANGED runtimeVars
  BY <1>1, <1>3, <1>4 DEF BootLogin
<1>5. CASE BootFork(a) /\ ~UNCHANGED runtimeVars
  <2>1. ~BootLogin(a)
    BY <1>1, <1>5
  <2>. QED
    BY <1>1, <1>3, <1>5, <2>1 DEF BootFork
<1>6. CASE UNCHANGED runtimeVars
  <2>1. ~(\E c : \E t \in Trees : StartFresh(t, c))
    BY <1>6 DEF StartFresh, runtimeVars, TypeOK, None, Trees
  <2>. QED
    BY <1>2, <1>6, <2>1 DEF BootLogin, BootFork, Rejected, Failed
<1>. QED
  BY <1>4, <1>5, <1>6

(* It changes nothing but its task and the runtime.                        *)
LEMMA BootFrame ==
    ASSUME NEW a \in Logins, BootLogin(a) \/ BootFork(a)
    PROVE  UNCHANGED <<login, operation, interactions, cancel, call, stop, auth, worker,
                       deleted, active, export, phase, restarts, issued, live, leaked,
                       erased>>
<1>1. UNCHANGED <<loginVars, interactions, cancel, call, stop, accountVars, bundleVars,
                  processVars, issueVars, leaked, erased>>
  BY DEF BootLogin, BootFork
<1>. QED
  BY <1>1 DEF loginVars, accountVars, bundleVars, processVars, issueVars

LEMMA NoTaskType == NoTask \in Task
BY DEF NoTask, Task, Steps, None, Failed

LEMMA NoCallType == NoCall \in Call
BY DEF NoCall, Call, None

(* A credential the upstream issues has its type.                          *)
LEMMA IssueTypes ==
    ASSUME TypeOK, NEW t \in Trees, NEW lineage \in BOOLEAN, Issues(t, lineage)
    PROVE  /\ file' \in [Trees -> Credentials \cup {None, Gone}]
           /\ issued' \in 0 .. MaxCredentials /\ live' \in Credentials \cup {None}
<1>1. /\ file \in [Trees -> Credentials \cup {None, Gone}]
      /\ issued \in 0 .. MaxCredentials /\ live \in Credentials \cup {None}
      /\ MaxCredentials \in Nat
  BY ConstantTypes DEF TypeOK
<1>2. issued + 1 \in Credentials
  BY <1>1 DEF Issues, Credentials
<1>. QED
  BY <1>1, <1>2 DEF Issues, Credentials

(* What keeps an owner in place.                                           *)
LEMMA OwnedFrame ==
    ASSUME Owned, slot' \in {None, slot}, leaked' = leaked \/ slot' = None,
           \A a \in Logins : task[a].pc \in WithRuntime =>
              task'[a].pc \in WithRuntime /\ task'[a].tree = task[a].tree,
           call.pc \in CallWithRuntime =>
              call'.pc \in CallWithRuntime /\ call'.tree = call.tree
    PROVE  Owned'
BY DEF Owned

(* A cancellation that hits a sign-in at an awaited call.                  *)
LEMMA Interruptions ==
    ASSUME TypeOK, NEW a \in Logins, Interrupted(a)
    PROVE  /\ task[a].pc \in WithRuntime => task'[a].pc \in {"drop", "keep", "unfork"}
           /\ task'[a].pc \in Holding => task[a].pc \in Holding
           /\ task'[a].pc \in WithRuntime => task[a].pc \in WithRuntime
           /\ task'[a].pc \notin {"rotate", "capture", "finish", "unfinish"}
           /\ task[a].pc \notin {"promote", "finish", "free", "asked"}
           /\ task'[a].tree = task[a].tree /\ task'[a].pc = Handler(a)
<1>. Raises(a, "RESTART_REQUIRED") /\ task[a].pc \in Interruptible
  BY DEF Interrupted, Cancelled
<1>. task'[a].pc = Handler(a) /\ task'[a].tree = task[a].tree
  BY RaisedTask
<1>. QED
  BY DEF Handler, Interruptible, Holding, Locked, WithRuntime, Cleanup, Shielded

(* A step of the holder of the lock says nothing of the other sign-ins.    *)
LEMMA HolderKeeps ==
    ASSUME LockExclusive, NEW a \in Logins, task[a].pc \in Holding,
           \A b \in Logins \ {a} : task'[b] = task[b], Keeps(a)'
    PROVE  LoginKeeps'
<1>1. ASSUME NEW b \in Logins \ {a}
      PROVE  Keeps(b)'
  <2>1. task'[b].pc \notin Holding
    BY DEF LockExclusive
  <2>2. task'[b].pc \notin Settled \cup Using \cup {"begin", "ask", "ready", "user", "drop", "rotate", "capture", "persist", "unfork", "unfinish"}
    BY <2>1 DEF Holding, Locked, Shielded, Cleanup, Settled, Using
  <2>. QED
    BY <2>1, <2>2 DEF Keeps
<1>. QED
  BY <1>1 DEF LoginKeeps

-----------------------------------------------------------------------------
(* The tasks have their type.                                              *)
LEMMA TaskTypes ==
    ASSUME TypeOK, TreesThere, [Next]_vars
    PROVE  task' \in [Logins -> Task]
<1>t. task \in [Logins -> Task]
  BY DEF TypeOK
<1>1. CASE UNCHANGED <<task>>
  BY <1>1 DEF TypeOK
<1>2. ASSUME NEW a \in Logins, CancelRequest(a) \/ CancelLogin(a) \/
             CancelBegin(a) \/ CancelLook(a) \/ CancelSend(a) \/
             CancelState(a) \/ CancelOperation(a) \/
             CancelUndo(a) \/ CancelInterrupted(a)
      PROVE  task' \in [Logins -> Task]
  BY <1>1, <1>2 DEF CancelRequest, CancelLogin, CancelBegin, CancelLook,
     CancelSend, CancelState,
     CancelOperation, CancelUndo, CancelInterrupted
<1>3. CASE CallRequest \/ CallEnter \/ CallUse \/ CallStart \/ CallCodex \/
           CallCheckpoint \/ CallPromote \/ CallCleanUp \/ CallFinish
  BY <1>1, <1>3 DEF CallRequest, CallEnter, CallUse, CallStart, CallCodex,
     CallCheckpoint, CallPromote, CallCleanUp, CallFinish
<1>4. CASE CallRecord \/ CallInterrupted \/ StopLook \/ StopRuntime \/
           CloseRuntimes \/ DeleteAccount \/ UNCHANGED vars
  BY <1>1, <1>4 DEF CallRecord, CallInterrupted, StopLook, StopRuntime,
     CloseRuntimes, DeleteAccount, vars
<1>5. ASSUME NEW deletes \in BOOLEAN, StopRequest(deletes)
      PROVE  task' \in [Logins -> Task]
  BY <1>1, <1>5 DEF StopRequest
<1>6. ASSUME NEW a \in Logins, EnterLogin(a)
      PROVE  task' \in [Logins -> Task]
  <2>1. [task[a] EXCEPT !.pc = "starting"] \in Task
    BY <1>t DEF Task, Steps, Holding
  <2>. QED
    BY <1>t, <1>6, <2>1 DEF EnterLogin
<1>7. ASSUME NEW a \in Logins, StartingRuntime(a) \/ DiscardSource(a) \/
             FinishFork(a)
      PROVE  task' \in [Logins -> Task]
  BY <1>7, ContinuedTask DEF StartingRuntime, DiscardSource, FinishFork,
     Steps, Holding
<1>8. ASSUME NEW a \in Logins, StartingLogin(a)
      PROVE  task' \in [Logins -> Task]
  BY <1>8, ContinuedTask DEF StartingLogin, Steps, Holding, Locked
<1>9. ASSUME NEW a \in Logins, Ready(a) \/ ForkUse(a)
      PROVE  task' \in [Logins -> Task]
  BY <1>9, ContinuedTask, RaisedTask DEF Ready, ForkUse, Rejected, Steps,
     Holding, Failed
<1>10. ASSUME NEW a \in Logins, Verifying(a)
       PROVE  task' \in [Logins -> Task]
  BY <1>10, ContinuedTask, RaisedTask DEF Verifying, Rejected, Steps,
     Holding, Locked, Failed
<1>11. ASSUME NEW a \in Logins, PromoteLogin(a)
       PROVE  task' \in [Logins -> Task]
  BY SMTT(30), <1>11, RaisedTask DEF PromoteLogin, TypeOK, Task, Steps, Holding,
     Locked, Shielded, Cleanup, None, Failed, Gone, TreesThere
<1>12. ASSUME NEW a \in Logins, CleanUp(a)
       PROVE  task' \in [Logins -> Task]
  BY SMTT(30), <1>12 DEF CleanUp, TypeOK, Task, Steps
<1>13. ASSUME NEW a \in Logins, FailLogin(a)
       PROVE  task' \in [Logins -> Task]
  BY <1>13 DEF FailLogin, NoTask, TypeOK, Task, Steps, Failed
<1>14. ASSUME NEW a \in Logins, Rotate(a)
       PROVE  task' \in [Logins -> Task]
  BY <1>14, RaisedTask, Handled DEF Rotate, Failed, TypeOK, Task, Steps,
     Holding, Locked, Shielded
<1>15. ASSUME NEW a \in Logins, CaptureFork(a)
       PROVE  task' \in [Logins -> Task]
  BY SMTT(30), <1>15, RaisedTask DEF CaptureFork, TypeOK, Task, Steps, Holding,
     Shielded, Failed, WithRuntime
<1>16. ASSUME NEW a \in Logins, PersistFork(a)
       PROVE  task' \in [Logins -> Task]
  BY SMTT(30), <1>16 DEF PersistFork, TypeOK, Task, Steps, Holding, Locked, Shielded
<1>17. ASSUME NEW a \in Logins, Interrupted(a)
       PROVE  task' \in [Logins -> Task]
  BY <1>17, RaisedTask DEF Interrupted, Cancelled
<1>18. CASE Restart
  BY <1>18 DEF Restart, NoTask, Task, Steps, Failed
<1>19. ASSUME NEW a \in Logins, NEW recover \in BOOLEAN, StartLogin(a, recover) PROVE task' \in [Logins -> Task]
  <2>1. [task[a] EXCEPT !.pc = "asked", !.recover = recover] \in Task
    BY <1>t DEF Task, Steps
  <2>. QED
    BY <1>t, <1>19, <2>1 DEF StartLogin
<1>20. ASSUME NEW a \in Logins, RecordLogin(a) PROVE task' \in [Logins -> Task]
  <2>1. [task[a] EXCEPT !.pc = "created"] \in Task
    BY <1>t DEF Task, Steps
  <2>. QED
    BY <1>t, <1>20, <2>1, NoTaskType DEF RecordLogin
<1>21. ASSUME NEW a \in Logins, AskLogin(a) PROVE task' \in [Logins -> Task]
  <2>1. [task[a] EXCEPT !.pc = "ready"] \in Task
    BY <1>t DEF Task, Steps, Holding
  <2>. QED
    BY <1>t, <1>21, <2>1, RaisedTask DEF AskLogin
<1>22. ASSUME NEW a \in Logins, AbandonFork(a) PROVE task' \in [Logins -> Task]
  <2>1. AfterFork(a) \in Steps
    BY DEF AfterFork, Steps, Holding
  <2>2. /\ [task[a] EXCEPT !.pc = AfterFork(a), !.to = @, !.cut = FALSE] \in Task
        /\ [task[a] EXCEPT !.pc = "fail", !.to = "RESTART_REQUIRED", !.cut = FALSE] \in Task
    BY <1>t, <2>1 DEF Task, Steps
  <2>. QED
    BY <1>t, <1>22, <2>2 DEF AbandonFork
<1>23. ASSUME NEW a \in Logins, Unfork(a) \/ UnfinishFork(a) PROVE task' \in [Logins -> Task]
  <2>1. AfterFork(a) \in Steps
    BY DEF AfterFork, Steps, Holding
  <2>2. /\ [task[a] EXCEPT !.pc = AfterFork(a), !.cut = FALSE] \in Task
        /\ [task[a] EXCEPT !.pc = "unfinish", !.cut = FALSE] \in Task
    BY ZenonT(30), <1>t, <2>1 DEF Task, Steps, Holding, Cleanup
  <2>. QED
    BY <1>t, <1>23, <2>2 DEF Unfork, UnfinishFork
<1>24. ASSUME NEW a \in Logins, CommitLogin(a) PROVE task' \in [Logins -> Task]
    BY <1>t, <1>24, NoTaskType, RaisedTask DEF CommitLogin, Rejected, Cancelled, Failed
<1>25. ASSUME NEW a \in Logins, CancelTask(a) PROVE task' \in [Logins -> Task]
  <2>1. [task[a] EXCEPT !.cut = @ \/ ~At(a, "free")] \in Task
    BY <1>t DEF Task
  <2>. QED
    BY <1>t, <1>25, <2>1 DEF CancelTask
<1>26. ASSUME Close PROVE task' \in [Logins -> Task]
  <2>1. ASSUME NEW b \in Logins PROVE [task[b] EXCEPT !.cut = @ \/ task[b].pc \notin {"free", "asked"}] \in Task
    BY <1>t DEF Task
  <2>. QED
    BY <1>t, <1>26, <2>1 DEF Close
<1>27. ASSUME NEW a \in Logins, BootLogin(a) \/ BootFork(a) PROVE task' \in [Logins -> Task]
  BY <1>27, Booted
<1>28. ASSUME NEW a \in Logins, AwaitUser(a) PROVE task' \in [Logins -> Task]
  <2>1. task \in [Logins -> Task] /\ [task[a] EXCEPT !.pc = "verifying"] \in Task
    BY DEF TypeOK, Task, Steps, Holding
  <2>. QED
    BY <1>28, <2>1, RaisedTask DEF AwaitUser, Rejected, Failed
<1>29. ASSUME NEW a \in Logins, CleanFork(a) \/ BranchFork(a) PROVE task' \in [Logins -> Task]
  <2>1. /\ [task[a] EXCEPT !.pc = "finish"] \in Task
        /\ [task[a] EXCEPT !.pc = "commit"] \in Task
        /\ [task[a] EXCEPT !.pc = "use", !.kind = "EXPORT"] \in Task
    BY ZenonT(30), <1>t DEF Task, Steps, Holding, Shielded
  <2>. QED
    BY <1>t, <1>29, <2>1, RaisedTask DEF CleanFork, BranchFork, Rejected, Failed
<1>30. ASSUME NEW a \in Logins, Verify(a) PROVE task' \in [Logins -> Task]
  <2>1. task[a].tree \in Trees
    BY <1>30 DEF Verify, At, TreesThere, WithRuntime
  <2>2. file[task[a].tree] # Gone => file[task[a].tree] \in Credentials \cup {None}
    BY <2>1 DEF TypeOK
  <2>3. file[task[a].tree] # Gone =>
           [task[a] EXCEPT !.pc = "promote", !.cut = FALSE,
                           !.source = file[task[a].tree]] \in Task
    BY ZenonT(30), <1>t, <2>2 DEF Task, Steps, Holding, Shielded
  <2>. QED
    BY <1>t, <1>30, <2>3, RaisedTask DEF Verify, Failed
<1>. QED
  BY <1>1, <1>2, <1>3, <1>4, <1>5, <1>6, <1>7, <1>8, <1>9, <1>10, <1>11,
     <1>12, <1>13, <1>14, <1>15, <1>16, <1>17, <1>18, <1>19, <1>20, <1>21,
     <1>22, <1>23, <1>24, <1>25, <1>26, <1>27, <1>28, <1>29,
     <1>30 DEF Next, LoginStep, CancelStep, CallStep, StopStep

(* The managed call, and what stops a runtime, have theirs.                *)
LEMMA CallTypes ==
    ASSUME TypeOK, TreesThere, [Next]_vars
    PROVE  call' \in Call
<1>t. /\ call \in Call /\ slot \in Trees \cup {None}
      /\ file \in [Trees -> Credentials \cup {None, Gone}]
  BY DEF TypeOK
<1>s. ASSUME NEW step, CallGoes(step), step \in {"idle", "wait", "record"} \cup CallHolds
      PROVE  call' \in Call
  BY <1>t, <1>s DEF CallGoes, Call
<1>1. CASE UNCHANGED <<call>>
  BY <1>1 DEF TypeOK
<1>2. ASSUME NEW a \in Logins, NEW recover \in BOOLEAN, StartLogin(a, recover)
      PROVE  call' \in Call
  BY <1>1, <1>2 DEF StartLogin
<1>3. ASSUME NEW a \in Logins, RecordLogin(a) \/ EnterLogin(a) \/
             StartingRuntime(a) \/ BootLogin(a) \/ StartingLogin(a) \/
             AskLogin(a) \/ Ready(a) \/ AwaitUser(a) \/ Verifying(a)
      PROVE  call' \in Call
  BY <1>1, <1>3 DEF RecordLogin, EnterLogin, StartingRuntime, BootLogin,
     StartingLogin, AskLogin, Ready, AwaitUser, Verifying
<1>4. ASSUME NEW a \in Logins, Verify(a) \/ PromoteLogin(a) \/
             DiscardSource(a) \/ CleanUp(a) \/ FailLogin(a) \/ ForkUse(a) \/
             BootFork(a) \/ Rotate(a) \/ CaptureFork(a)
      PROVE  call' \in Call
  BY <1>1, <1>4 DEF Verify, PromoteLogin, DiscardSource, CleanUp, FailLogin,
     ForkUse, BootFork, Rotate, CaptureFork
<1>5. ASSUME NEW a \in Logins, PersistFork(a) \/ CleanFork(a) \/
             FinishFork(a) \/ AbandonFork(a) \/ Unfork(a) \/
             UnfinishFork(a) \/ BranchFork(a) \/ CommitLogin(a) \/
             Interrupted(a)
      PROVE  call' \in Call
  BY <1>1, <1>5 DEF PersistFork, CleanFork, FinishFork, AbandonFork, Unfork,
     UnfinishFork, BranchFork, CommitLogin, Interrupted
<1>6. ASSUME NEW a \in Logins, CancelRequest(a) \/ CancelLogin(a) \/
             CancelBegin(a) \/ CancelLook(a) \/ CancelSend(a) \/
             CancelState(a) \/ CancelOperation(a) \/
             CancelTask(a) \/ CancelUndo(a) \/ CancelInterrupted(a)
      PROVE  call' \in Call
  BY <1>1, <1>6 DEF CancelRequest, CancelLogin, CancelBegin, CancelLook,
     CancelSend, CancelState,
     CancelOperation, CancelTask, CancelUndo, CancelInterrupted
<1>7. CASE StopLook \/ StopRuntime \/ DeleteAccount \/ Close \/ CloseRuntimes \/
           UNCHANGED vars
  BY <1>1, <1>7 DEF StopLook, StopRuntime, DeleteAccount, Close, CloseRuntimes, vars
<1>8. ASSUME NEW deletes \in BOOLEAN, StopRequest(deletes)
      PROVE  call' \in Call
  BY <1>1, <1>8 DEF StopRequest
<1>9. CASE CallRequest
  BY <1>9 DEF CallRequest, CallGoes, TypeOK, Call
<1>10. CASE CallPromote \/ CallCleanUp
  BY <1>10 DEF CallPromote, CallCleanUp, CallGoes, TypeOK, Call, CallHolds
<1>11. CASE CallRecord
  BY <1>11 DEF CallRecord, NoCall, TypeOK, Call
<1>12. CASE CallInterrupted
  BY <1>12 DEF CallInterrupted, NoCall, TypeOK, Call
<1>13. CASE Restart
  BY <1>13 DEF Restart, NoCall, NoStop, Call, Stop
<1>14. ASSUME CallUse PROVE call' \in Call
  BY <1>14, <1>s, NoCallType DEF CallUse, CallHolds
<1>15. ASSUME CallStart PROVE call' \in Call
  <2>1. ASSUME NEW t \in Trees PROVE [call EXCEPT !.pc = "call", !.tree = t] \in Call
    BY <1>t DEF Call, CallHolds, CallLocked
  <2>. QED
    BY <1>15, <1>s, <2>1 DEF CallStart, CallHolds
<1>16. ASSUME CallCheckpoint PROVE call' \in Call
  <2>1. file[call.tree] # Gone /\ call.tree \in Trees
    BY <1>16 DEF CallCheckpoint, TreesThere, CallWithRuntime, CallLocked
  <2>2. [call EXCEPT !.pc = "promote", !.source = file[call.tree]] \in Call
    BY <1>t, <2>1 DEF Call, CallHolds, CallLocked
  <2>. QED
    BY <1>16, <1>s, <2>2 DEF CallCheckpoint, CallHolds
<1>17. ASSUME CallFinish PROVE call' \in Call
  <2>1. [NoCall EXCEPT !.pc = "record"] \in Call
    BY NoCallType DEF Call
  <2>. QED
    BY <1>17, <2>1, NoCallType DEF CallFinish
<1>18. ASSUME CallEnter PROVE call' \in Call
  <2>1. active # None => [call EXCEPT !.pc = "use", !.source = active] \in Call
    BY <1>t DEF TypeOK, Call, CallHolds
  <2>. QED
    BY <1>18, <2>1, NoCallType DEF CallEnter
<1>19. ASSUME CallCodex PROVE call' \in Call
  <2>1. \A fails \in BOOLEAN : [call EXCEPT !.pc = "check", !.failed = fails] \in Call
    BY <1>t DEF Call, CallHolds, CallLocked
  <2>. QED
    BY <1>19, <2>1 DEF CallCodex
<1>. QED
  BY <1>1, <1>2, <1>3, <1>4, <1>5, <1>6, <1>7, <1>8, <1>9, <1>10, <1>11,
     <1>12, <1>13, <1>14, <1>15, <1>16, <1>17, <1>18,
     <1>19 DEF Next, LoginStep, CancelStep, CallStep, StopStep


LEMMA StopTypes ==
    ASSUME TypeOK, [Next]_vars
    PROVE  stop' \in Stop
<1>1. CASE UNCHANGED <<stop>>
  BY <1>1 DEF TypeOK
<1>2. ASSUME NEW a \in Logins, NEW recover \in BOOLEAN, StartLogin(a, recover)
      PROVE  stop' \in Stop
  BY <1>1, <1>2 DEF StartLogin
<1>3. ASSUME NEW a \in Logins, RecordLogin(a) \/ EnterLogin(a) \/
             StartingRuntime(a) \/ BootLogin(a) \/ StartingLogin(a) \/
             AskLogin(a) \/ Ready(a) \/ AwaitUser(a) \/ Verifying(a)
      PROVE  stop' \in Stop
  BY <1>1, <1>3 DEF RecordLogin, EnterLogin, StartingRuntime, BootLogin,
     StartingLogin, AskLogin, Ready, AwaitUser, Verifying
<1>4. ASSUME NEW a \in Logins, Verify(a) \/ PromoteLogin(a) \/
             DiscardSource(a) \/ CleanUp(a) \/ FailLogin(a) \/ ForkUse(a) \/
             BootFork(a) \/ Rotate(a) \/ CaptureFork(a)
      PROVE  stop' \in Stop
  BY <1>1, <1>4 DEF Verify, PromoteLogin, DiscardSource, CleanUp, FailLogin,
     ForkUse, BootFork, Rotate, CaptureFork
<1>5. ASSUME NEW a \in Logins, PersistFork(a) \/ CleanFork(a) \/
             FinishFork(a) \/ AbandonFork(a) \/ Unfork(a) \/
             UnfinishFork(a) \/ BranchFork(a) \/ CommitLogin(a) \/
             Interrupted(a)
      PROVE  stop' \in Stop
  BY <1>1, <1>5 DEF PersistFork, CleanFork, FinishFork, AbandonFork, Unfork,
     UnfinishFork, BranchFork, CommitLogin, Interrupted
<1>6. ASSUME NEW a \in Logins, CancelRequest(a) \/ CancelLogin(a) \/
             CancelBegin(a) \/ CancelLook(a) \/ CancelSend(a) \/
             CancelState(a) \/ CancelOperation(a) \/
             CancelTask(a) \/ CancelUndo(a) \/ CancelInterrupted(a)
      PROVE  stop' \in Stop
  BY <1>1, <1>6 DEF CancelRequest, CancelLogin, CancelBegin, CancelLook,
     CancelSend, CancelState,
     CancelOperation, CancelTask, CancelUndo, CancelInterrupted
<1>7. CASE CallRequest \/ CallEnter \/ CallUse \/ CallStart \/ CallCodex \/
           CallCheckpoint \/ CallPromote \/ CallCleanUp \/ CallFinish
  BY <1>1, <1>7 DEF CallRequest, CallEnter, CallUse, CallStart, CallCodex,
     CallCheckpoint, CallPromote, CallCleanUp, CallFinish
<1>8. CASE CallRecord \/ CallInterrupted \/ Close \/ CloseRuntimes \/
           UNCHANGED vars
  BY <1>1, <1>8 DEF CallRecord, CallInterrupted, Close, CloseRuntimes, vars
<1>9. CASE DeleteAccount
  BY <1>9 DEF DeleteAccount, NoStop, TypeOK, Stop
<1>10. CASE Restart
  BY <1>10 DEF Restart, NoCall, NoStop, Call, Stop
<1>11. ASSUME NEW deletes \in BOOLEAN, StopRequest(deletes)
       PROVE  stop' \in Stop
  BY <1>11 DEF StopRequest, TypeOK, Stop
<1>12. CASE StopLook \/ StopRuntime
  <2>1. NoStop \in Stop /\ Stopped \in Stop /\ stop \in Stop /\ slot \in Trees \cup {None}
    BY DEF TypeOK, Stopped, NoStop, Stop, None
  <2>2. slot \in Trees => [stop EXCEPT !.pc = "stop", !.tree = slot] \in Stop
    BY <2>1 DEF Stop
  <2>. QED
    BY <1>12, <2>1, <2>2 DEF StopLook, StopRuntime
<1>. QED
  BY <1>1, <1>2, <1>3, <1>4, <1>5, <1>6, <1>7, <1>8, <1>9, <1>10, <1>11,
     <1>12 DEF Next, LoginStep, CancelStep, CallStep, StopStep

(* The rows and the interactions have theirs.                              *)
LEMMA RowTypes ==
    ASSUME TypeOK, [Next]_vars
    PROVE  /\ login' \in [Logins -> LoginStates]
           /\ operation' \in [Logins -> OperationStates]
           /\ cancel' \in [Logins -> CancelSteps] /\ interactions' \subseteq Logins
<1>. DEFINE Typed == /\ login \in [Logins -> LoginStates]
                    /\ operation \in [Logins -> OperationStates]
                    /\ cancel \in [Logins -> CancelSteps] /\ interactions \subseteq Logins
<1>1. CASE UNCHANGED <<login, operation, cancel, interactions>>
  BY <1>1 DEF TypeOK
<1>2. ASSUME NEW a \in Logins, BootLogin(a) \/ Verify(a) \/
             DiscardSource(a) \/ CleanUp(a) \/ ForkUse(a) \/ BootFork(a) \/
             Rotate(a) \/ CaptureFork(a) \/ PersistFork(a)
      PROVE  Typed'
  BY <1>1, <1>2 DEF BootLogin, Verify, DiscardSource, CleanUp, ForkUse,
     BootFork, Rotate, CaptureFork, PersistFork, loginVars
<1>3. ASSUME NEW a \in Logins, CleanFork(a) \/ FinishFork(a) \/
             AbandonFork(a) \/ Unfork(a) \/ UnfinishFork(a) \/ BranchFork(a)
      PROVE  Typed'
  BY <1>1, <1>3 DEF CleanFork, FinishFork, AbandonFork, Unfork, UnfinishFork,
     BranchFork, loginVars
<1>4. CASE CallRequest \/ CallEnter \/ CallUse \/ CallStart \/ CallCodex \/
           CallCheckpoint \/ CallPromote \/ CallCleanUp \/ CallFinish
  BY <1>1, <1>4 DEF CallRequest, CallEnter, CallUse, CallStart, CallCodex,
     CallCheckpoint, CallPromote, CallCleanUp, CallFinish, loginVars
<1>5. CASE CallRecord \/ CallInterrupted \/ StopLook \/ StopRuntime \/
           CloseRuntimes \/ DeleteAccount \/ Close \/ UNCHANGED vars
  BY <1>1, <1>5 DEF CallRecord, CallInterrupted, StopLook, StopRuntime,
     CloseRuntimes, DeleteAccount, Close, loginVars, vars
<1>6. ASSUME NEW deletes \in BOOLEAN, StopRequest(deletes)
      PROVE  Typed'
  BY <1>1, <1>6 DEF StopRequest, loginVars
<1>7. ASSUME NEW a \in Logins, NEW recover \in BOOLEAN, StartLogin(a, recover)
      PROVE  Typed'
  BY <1>7 DEF StartLogin, TypeOK, OperationStates
<1>8. ASSUME NEW a \in Logins, RecordLogin(a)
      PROVE  Typed'
  BY <1>8 DEF RecordLogin, Unfinished, Cancellable, TypeOK, LoginStates,
     OperationStates
<1>9. ASSUME NEW a \in Logins, EnterLogin(a)
      PROVE  Typed'
  BY <1>9 DEF EnterLogin, TypeOK, OperationStates
<1>10. ASSUME NEW a \in Logins, StartingRuntime(a) \/ StartingLogin(a) \/
             Verifying(a)
       PROVE  Typed'
  BY <1>10 DEF StartingRuntime, StartingLogin, Verifying, TypeOK,
     LoginStates, Unfinished, Cancellable
<1>11. ASSUME NEW a \in Logins, AskLogin(a) \/ AwaitUser(a) \/ Interrupted(a)
       PROVE  Typed'
  BY <1>11 DEF AskLogin, AwaitUser, Interrupted, loginVars, TypeOK
<1>12. ASSUME NEW a \in Logins, Ready(a)
       PROVE  Typed'
  BY <1>12 DEF Ready, loginVars, TypeOK, LoginStates, Unfinished,
     Cancellable, OperationStates
<1>13. ASSUME NEW a \in Logins, PromoteLogin(a)
       PROVE  Typed'
  BY <1>13 DEF PromoteLogin, TypeOK, LoginStates, Unfinished
<1>14. ASSUME NEW a \in Logins, CommitLogin(a)
       PROVE  Typed'
  BY <1>14 DEF CommitLogin, loginVars, TypeOK, LoginStates, Final,
     OperationStates
<1>15. ASSUME NEW a \in Logins, CancelRequest(a) \/ CancelBegin(a) \/
             CancelLook(a) \/ CancelSend(a) \/ CancelTask(a) \/
             CancelInterrupted(a)
       PROVE  Typed'
  BY <1>15 DEF CancelRequest, CancelBegin, CancelLook, CancelSend, CancelTask,
     CancelInterrupted, CancelAt, loginVars, TypeOK, CancelSteps, Requesting,
     Cancelling
<1>16. ASSUME NEW a \in Logins, CancelLogin(a)
       PROVE  Typed'
  BY <1>16 DEF CancelLogin, CancelAt, TypeOK, LoginStates, Unfinished,
     CancelSteps, Requesting
<1>17. ASSUME NEW a \in Logins, CancelState(a)
       PROVE  Typed'
  BY <1>17 DEF CancelState, CancelAt, TypeOK, LoginStates, Final, CancelSteps,
     Cancelling
<1>18. ASSUME NEW a \in Logins, CancelOperation(a)
       PROVE  Typed'
  BY <1>18 DEF CancelOperation, CancelAt, TypeOK, OperationStates,
     CancelSteps, Cancelling
<1>19. ASSUME NEW a \in Logins, CancelUndo(a)
       PROVE  Typed'
  BY <1>19 DEF CancelUndo, Undone, CancelAt, TypeOK, LoginStates, Final,
     Failed, CancelSteps
<1>20. CASE Restart
  BY <1>20 DEF Restart, TypeOK, LoginStates, Final, OperationStates,
     CancelSteps
<1>21. ASSUME NEW a \in Logins, FailLogin(a)
      PROVE  Typed'
  <2>1. /\ login \in [Logins -> LoginStates] /\ operation \in [Logins -> OperationStates]
        /\ task[a].to \in {"RESTART_REQUIRED"} \cup Failed
        /\ cancel' \in [Logins -> CancelSteps] /\ interactions' \subseteq Logins
    BY <1>21 DEF TypeOK, Task, FailLogin
  <2>. QED
    BY <1>21, <2>1 DEF FailLogin, LoginStates, Final, OperationStates, loginVars
<1>. QED
  BY <1>1, <1>2, <1>3, <1>4, <1>5, <1>6, <1>7, <1>8, <1>9, <1>10, <1>11,
     <1>12, <1>13, <1>14, <1>15, <1>16, <1>17, <1>18, <1>19, <1>20,
     <1>21 DEF Next, LoginStep, CancelStep, CallStep, StopStep

(* The runtime and the trees have theirs.                                  *)
LEMMA FileTypes ==
    ASSUME TypeOK, TreesThere, [Next]_vars
    PROVE  /\ slot' \in Trees \cup {None} /\ held' \in Trees \cup {None}
           /\ file' \in [Trees -> Credentials \cup {None, Gone}]
<1>. DEFINE Typed == /\ slot \in Trees \cup {None} /\ held \in Trees \cup {None}
                    /\ file \in [Trees -> Credentials \cup {None, Gone}]
<1>1. CASE UNCHANGED <<slot, held, file>>
  BY <1>1 DEF TypeOK
<1>2. ASSUME NEW a \in Logins, NEW recover \in BOOLEAN, StartLogin(a, recover)
      PROVE  Typed'
  BY <1>1, <1>2 DEF StartLogin, runtimeVars
<1>3. ASSUME NEW a \in Logins, RecordLogin(a) \/ EnterLogin(a) \/
             StartingRuntime(a) \/ StartingLogin(a) \/ AskLogin(a) \/
             Ready(a) \/ Verifying(a) \/ Verify(a) \/ PromoteLogin(a)
      PROVE  Typed'
  BY <1>1, <1>3 DEF RecordLogin, EnterLogin, StartingRuntime, StartingLogin,
     AskLogin, Ready, Verifying, Verify, PromoteLogin, runtimeVars
<1>4. ASSUME NEW a \in Logins, FailLogin(a) \/ ForkUse(a) \/
             CaptureFork(a) \/ PersistFork(a) \/ FinishFork(a) \/
             AbandonFork(a) \/ UnfinishFork(a) \/ BranchFork(a) \/
             CommitLogin(a)
      PROVE  Typed'
  BY <1>1, <1>4 DEF FailLogin, ForkUse, CaptureFork, PersistFork, FinishFork,
     AbandonFork, UnfinishFork, BranchFork, CommitLogin, runtimeVars
<1>5. ASSUME NEW a \in Logins, Interrupted(a) \/ CancelRequest(a) \/
             CancelLogin(a) \/ CancelBegin(a) \/ CancelLook(a) \/
             CancelSend(a) \/ CancelState(a) \/
             CancelOperation(a) \/ CancelTask(a) \/ CancelUndo(a) \/
             CancelInterrupted(a)
      PROVE  Typed'
  BY <1>1, <1>5 DEF Interrupted, CancelRequest, CancelLogin, CancelBegin,
     CancelLook, CancelSend,
     CancelState, CancelOperation, CancelTask, CancelUndo, CancelInterrupted,
     runtimeVars
<1>6. CASE CallRequest \/ CallEnter \/ CallUse \/ CallCheckpoint \/
           CallPromote \/ CallFinish \/ CallRecord \/ CallInterrupted \/
           StopLook
  BY <1>1, <1>6 DEF CallRequest, CallEnter, CallUse, CallCheckpoint,
     CallPromote, CallFinish, CallRecord, CallInterrupted, StopLook,
     runtimeVars
<1>7. CASE DeleteAccount \/ Close \/ UNCHANGED vars
  BY <1>1, <1>7 DEF DeleteAccount, Close, runtimeVars, vars
<1>8. ASSUME NEW deletes \in BOOLEAN, StopRequest(deletes)
      PROVE  Typed'
  BY <1>1, <1>8 DEF StopRequest, runtimeVars
<1>9. ASSUME NEW a \in Logins, BootLogin(a)
      PROVE  Typed'
  BY <1>9 DEF BootLogin, StartFresh, runtimeVars, TypeOK
<1>10. ASSUME NEW a \in Logins, DiscardSource(a) \/ CleanFork(a)
       PROVE  Typed'
  BY <1>10 DEF DiscardSource, CleanFork, At, Discard, Forget, TypeOK,
     TreesThere, WithRuntime
<1>11. ASSUME NEW a \in Logins, CleanUp(a)
       PROVE  Typed'
  BY <1>11 DEF CleanUp, Discard, Forget, Preserve, runtimeVars, TypeOK, Task
<1>12. ASSUME NEW a \in Logins, BootFork(a)
       PROVE  Typed'
  BY <1>12 DEF BootFork, StartFresh, runtimeVars, TypeOK, Task
<1>13. ASSUME NEW a \in Logins, Unfork(a)
       PROVE  Typed'
  BY <1>13 DEF Unfork, Archive, Forget, Preserve, TypeOK, Task
<1>14. CASE CallCleanUp
  BY <1>14 DEF CallCleanUp, Discard, Forget, Preserve, TypeOK, TreesThere,
     CallWithRuntime
<1>15. CASE Restart
  BY <1>15 DEF Restart, TypeOK
<1>16. ASSUME CallStart
      PROVE  Typed'
  <2>1. /\ call.source \in Credentials \cup {None}
        /\ file \in [Trees -> Credentials \cup {None, Gone}]
        /\ slot \in Trees \cup {None} /\ held \in Trees \cup {None}
    BY DEF TypeOK, Call
  <2>. QED
    BY <1>16, <2>1 DEF CallStart, StartFresh, runtimeVars
<1>17. ASSUME CallCodex
      PROVE  Typed'
  <2>1. call.tree \in Trees /\ UNCHANGED <<slot, held>>
    BY <1>17 DEF CallCodex, TreesThere, CallWithRuntime, CallLocked
  <2>2. file' = file \/ Issues(call.tree, TRUE)
    BY <1>17 DEF CallCodex
  <2>. QED
    BY <2>1, <2>2, IssueTypes DEF TypeOK
<1>18. ASSUME NEW a \in Logins, AwaitUser(a) \/ Rotate(a)
      PROVE  Typed'
  <2>1. task[a].tree \in Trees /\ slot' = slot /\ held' = held
    BY <1>18 DEF AwaitUser, Rotate, Reaches, At, TreesThere, WithRuntime
  <2>2. file' = file \/ \E lineage \in BOOLEAN : Issues(task[a].tree, lineage)
    BY <1>18 DEF AwaitUser, Rotate
  <2>. QED
    BY <2>1, <2>2, IssueTypes DEF TypeOK
<1>19. CASE StopRuntime \/ CloseRuntimes
  <2>1. /\ file \in [Trees -> Credentials \cup {None, Gone}]
        /\ slot \in Trees \cup {None} /\ held \in Trees \cup {None}
    BY DEF TypeOK
  <2>2. /\ held' = held /\ slot' \in {slot, None}
        /\ \E t \in {stop.tree, slot} : file' = [file EXCEPT ![t] = Gone]
    BY <1>19 DEF StopRuntime, CloseRuntimes, Discard, Forget, runtimeVars
  <2>. QED
    BY <2>1, <2>2
<1>. QED
  BY <1>1, <1>2, <1>3, <1>4, <1>5, <1>6, <1>7, <1>8, <1>9, <1>10, <1>11,
     <1>12, <1>13, <1>14, <1>15, <1>16, <1>17, <1>18,
     <1>19 DEF Next, LoginStep, CancelStep, CallStep, StopStep

(* The credentials in the database and upstream have theirs.               *)
LEMMA StoredTypes ==
    ASSUME TypeOK, TreesThere, [Next]_vars
    PROVE  /\ active' \in Credentials \cup {None} /\ export' \in Credentials \cup {None}
           /\ issued' \in 0 .. MaxCredentials /\ live' \in Credentials \cup {None}
<1>. DEFINE Typed == /\ active \in Credentials \cup {None} /\ export \in Credentials \cup {None}
                    /\ issued \in 0 .. MaxCredentials /\ live \in Credentials \cup {None}
<1>1. CASE UNCHANGED <<active, export, issued, live>>
  BY <1>1 DEF TypeOK
<1>2. ASSUME NEW a \in Logins, NEW recover \in BOOLEAN, StartLogin(a, recover)
      PROVE  Typed'
  BY <1>1, <1>2 DEF StartLogin, bundleVars, issueVars
<1>3. ASSUME NEW a \in Logins, RecordLogin(a) \/ EnterLogin(a) \/
             StartingRuntime(a) \/ BootLogin(a) \/ StartingLogin(a) \/
             AskLogin(a) \/ Ready(a) \/ Verifying(a) \/ Verify(a)
      PROVE  Typed'
  BY <1>1, <1>3 DEF RecordLogin, EnterLogin, StartingRuntime, BootLogin,
     StartingLogin, AskLogin, Ready, Verifying, Verify, bundleVars, issueVars
<1>4. ASSUME NEW a \in Logins, DiscardSource(a) \/ CleanUp(a) \/
             FailLogin(a) \/ ForkUse(a) \/ BootFork(a) \/ CaptureFork(a) \/
             CleanFork(a) \/ FinishFork(a) \/ AbandonFork(a)
      PROVE  Typed'
  BY <1>1, <1>4 DEF DiscardSource, CleanUp, FailLogin, ForkUse, BootFork,
     CaptureFork, CleanFork, FinishFork, AbandonFork, bundleVars, issueVars
<1>5. ASSUME NEW a \in Logins, Unfork(a) \/ UnfinishFork(a) \/
             BranchFork(a) \/ CommitLogin(a) \/ Interrupted(a) \/
             CancelRequest(a) \/ CancelLogin(a) \/ CancelBegin(a) \/
             CancelLook(a) \/ CancelSend(a) \/
             CancelState(a)
      PROVE  Typed'
  BY <1>1, <1>5 DEF Unfork, UnfinishFork, BranchFork, CommitLogin,
     Interrupted, CancelRequest, CancelLogin,
     CancelBegin, CancelLook,
     CancelSend, CancelState,
     bundleVars, issueVars
<1>6. ASSUME NEW a \in Logins, CancelOperation(a) \/ CancelTask(a) \/
             CancelUndo(a) \/ CancelInterrupted(a)
      PROVE  Typed'
  BY <1>1, <1>6 DEF CancelOperation, CancelTask, CancelUndo,
     CancelInterrupted, bundleVars, issueVars
<1>7. CASE CallRequest \/ CallEnter \/ CallUse \/ CallStart \/
           CallCheckpoint \/ CallCleanUp \/ CallFinish \/ CallRecord \/
           CallInterrupted
  BY <1>1, <1>7 DEF CallRequest, CallEnter, CallUse, CallStart,
     CallCheckpoint, CallCleanUp, CallFinish, CallRecord, CallInterrupted,
     bundleVars, issueVars
<1>8. CASE StopLook \/ StopRuntime \/ Close \/ CloseRuntimes \/ Restart \/
           UNCHANGED vars
  BY <1>1, <1>8 DEF StopLook, StopRuntime, Close, CloseRuntimes, Restart, bundleVars,
     issueVars, vars
<1>9. ASSUME NEW deletes \in BOOLEAN, StopRequest(deletes)
      PROVE  Typed'
  BY <1>1, <1>9 DEF StopRequest, bundleVars, issueVars
<1>10. ASSUME NEW a \in Logins, PromoteLogin(a)
       PROVE  Typed'
  BY <1>10 DEF PromoteLogin, TypeOK, Task
<1>11. ASSUME NEW a \in Logins, PersistFork(a)
       PROVE  Typed'
  BY <1>11 DEF PersistFork, issueVars, TypeOK, Task
<1>12. CASE DeleteAccount
  BY <1>12 DEF DeleteAccount, TypeOK
<1>13. ASSUME CallCodex
      PROVE  Typed'
  <2>1. call.tree \in Trees /\ UNCHANGED <<active, export>>
    BY <1>13 DEF CallCodex, TreesThere, CallWithRuntime, CallLocked, bundleVars
  <2>2. UNCHANGED <<issued, live>> \/ Issues(call.tree, TRUE)
    BY <1>13 DEF CallCodex, issueVars
  <2>. QED
    BY <2>1, <2>2, IssueTypes DEF TypeOK
<1>14. ASSUME CallPromote
      PROVE  Typed'
  BY <1>14 DEF CallPromote, TypeOK, Call, issueVars
<1>15. ASSUME NEW a \in Logins, AwaitUser(a) \/ Rotate(a)
      PROVE  Typed'
  <2>1. task[a].tree \in Trees /\ UNCHANGED <<active, export>>
    BY <1>15 DEF AwaitUser, Rotate, Reaches, At, TreesThere, WithRuntime, bundleVars
  <2>2. \/ UNCHANGED <<issued, live>>
        \/ \E lineage \in BOOLEAN : Issues(task[a].tree, lineage)
    BY <1>15 DEF AwaitUser, Rotate, issueVars
  <2>. QED
    BY <2>1, <2>2, IssueTypes DEF TypeOK
<1>. QED
  BY <1>1, <1>2, <1>3, <1>4, <1>5, <1>6, <1>7, <1>8, <1>9, <1>10, <1>11,
     <1>12, <1>13, <1>14,
     <1>15 DEF Next, LoginStep, CancelStep, CallStep, StopStep

(* So have the account and the process.                                    *)
LEMMA RestTypes ==
    ASSUME TypeOK, [Next]_vars
    PROVE  /\ auth' \in {"VERIFIED", "AUTH_REQUIRED"}
           /\ worker' \in {"STOPPED", "IN_USE", "QUARANTINED"}
           /\ deleted' \in BOOLEAN /\ phase' \in {"up", "closing"}
           /\ restarts' \in 0 .. MaxRestarts /\ leaked' \in BOOLEAN /\ erased' \in BOOLEAN
<1>. DEFINE Typed == /\ auth \in {"VERIFIED", "AUTH_REQUIRED"}
                    /\ worker \in {"STOPPED", "IN_USE", "QUARANTINED"}
                    /\ deleted \in BOOLEAN /\ phase \in {"up", "closing"}
                    /\ restarts \in 0 .. MaxRestarts /\ leaked \in BOOLEAN /\ erased \in BOOLEAN
<1>1. CASE UNCHANGED <<auth, worker, deleted, phase, restarts, leaked,
           erased>>
  BY <1>1 DEF TypeOK
<1>2. ASSUME NEW a \in Logins, NEW recover \in BOOLEAN, StartLogin(a, recover)
      PROVE  Typed'
  BY <1>1, <1>2 DEF StartLogin, accountVars, processVars
<1>3. ASSUME NEW a \in Logins, EnterLogin(a) \/ StartingRuntime(a) \/
             BootLogin(a) \/ StartingLogin(a) \/ AskLogin(a) \/ Ready(a) \/
             AwaitUser(a) \/ Verifying(a) \/ Verify(a)
      PROVE  Typed'
  BY <1>1, <1>3 DEF EnterLogin, StartingRuntime, BootLogin, StartingLogin,
     AskLogin, Ready, AwaitUser, Verifying, Verify, accountVars, processVars
<1>4. ASSUME NEW a \in Logins, PromoteLogin(a) \/ DiscardSource(a) \/
             BootFork(a) \/ Rotate(a) \/ CaptureFork(a) \/ PersistFork(a) \/
             CleanFork(a) \/ Unfork(a) \/ BranchFork(a)
      PROVE  Typed'
  BY <1>1, <1>4 DEF PromoteLogin, DiscardSource, BootFork, Rotate,
     CaptureFork, PersistFork, CleanFork, Unfork, BranchFork, accountVars,
     processVars
<1>5. ASSUME NEW a \in Logins, Interrupted(a) \/ CancelRequest(a) \/
             CancelLogin(a) \/ CancelBegin(a) \/ CancelLook(a) \/
             CancelSend(a) \/ CancelState(a) \/
             CancelOperation(a) \/ CancelTask(a) \/ CancelUndo(a) \/
             CancelInterrupted(a)
      PROVE  Typed'
  BY <1>1, <1>5 DEF Interrupted, CancelRequest, CancelLogin, CancelBegin,
     CancelLook, CancelSend,
     CancelState, CancelOperation, CancelTask, CancelUndo, CancelInterrupted,
     accountVars, processVars
<1>6. CASE CallRequest \/ CallEnter \/ CallStart \/ CallCodex \/
           CallCheckpoint \/ CallPromote \/ CallCleanUp \/ StopLook \/
           UNCHANGED vars
  BY <1>1, <1>6 DEF CallRequest, CallEnter, CallStart, CallCodex,
     CallCheckpoint, CallPromote, CallCleanUp, StopLook, accountVars,
     processVars, vars
<1>7. ASSUME NEW deletes \in BOOLEAN, StopRequest(deletes)
      PROVE  Typed'
  BY <1>1, <1>7 DEF StopRequest, accountVars, processVars
<1>8. ASSUME NEW a \in Logins, RecordLogin(a) \/ FailLogin(a) \/
             ForkUse(a) \/ FinishFork(a)
      PROVE  Typed'
  BY <1>8 DEF RecordLogin, FailLogin, ForkUse, FinishFork, processVars,
     TypeOK
<1>9. ASSUME NEW a \in Logins, AbandonFork(a) \/ CommitLogin(a)
      PROVE  Typed'
  BY <1>9 DEF AbandonFork, CommitLogin, processVars, TypeOK
<1>10. ASSUME NEW a \in Logins, UnfinishFork(a)
       PROVE  Typed'
  BY <1>10 DEF UnfinishFork, Quarantine, processVars, TypeOK
<1>11. CASE CallUse \/ CallRecord \/ CallInterrupted \/ DeleteAccount
  BY <1>11 DEF CallUse, CallRecord, CallInterrupted, DeleteAccount,
     processVars, TypeOK
<1>12. CASE CallFinish
  BY <1>12 DEF CallFinish, Quarantine, processVars, TypeOK
<1>13. CASE StopRuntime \/ CloseRuntimes
  BY <1>13 DEF StopRuntime, CloseRuntimes, accountVars, processVars, TypeOK
<1>14. CASE Close
  BY <1>14 DEF Close, accountVars, TypeOK
<1>15. ASSUME Restart
       PROVE  Typed'
  <2>1. /\ MaxRestarts \in Nat /\ restarts \in 0 .. MaxRestarts
        /\ worker \in {"STOPPED", "IN_USE", "QUARANTINED"}
        /\ auth \in {"VERIFIED", "AUTH_REQUIRED"} /\ erased \in BOOLEAN /\ deleted \in BOOLEAN
    BY ConstantTypes DEF TypeOK
  <2>2. restarts' \in 0 .. MaxRestarts /\ phase' = "up" /\ leaked' = FALSE /\ deleted' = deleted
    BY <2>1, <1>15 DEF Restart
  <2>3. /\ worker' \in {"STOPPED", "IN_USE", "QUARANTINED"}
        /\ auth' \in {"VERIFIED", "AUTH_REQUIRED"}
    BY <2>1, <1>15 DEF Restart, QuarantineUse, Quarantine
  <2>4. erased' \in BOOLEAN
    BY <2>1, <1>15 DEF Restart
  <2>. QED
    BY <2>1, <2>2, <2>3, <2>4
<1>16. ASSUME NEW a \in Logins, CleanUp(a)
       PROVE  Typed'
  <2>1. leaked' \in {leaked, TRUE}
    BY <1>16 DEF CleanUp
  <2>. QED
    BY <1>16, <2>1 DEF CleanUp, TypeOK, accountVars, processVars
<1>. QED
  BY <1>1, <1>2, <1>3, <1>4, <1>5, <1>6, <1>7, <1>8, <1>9, <1>10, <1>11,
     <1>12, <1>13, <1>14, <1>15,
     <1>16 DEF Next, LoginStep, CancelStep, CallStep, StopStep

(* So have the runtimes that cancellations have found.                     *)
LEMMA TargetTypes ==
    ASSUME TypeOK, [Next]_vars
    PROVE  target' \in [Logins -> Trees \cup {None}]
<1>t. target \in [Logins -> Trees \cup {None}] /\ slot \in Trees \cup {None}
  BY DEF TypeOK
<1>1. ASSUME NEW a \in Logins, \/ \E recover \in BOOLEAN : StartLogin(a, recover)
                                \/ EnterLogin(a) \/ LoginStep(a)
      PROVE  UNCHANGED target
  <2>1. CASE \/ \E recover \in BOOLEAN : StartLogin(a, recover)
             \/ EnterLogin(a) \/ RecordLogin(a) \/ StartingRuntime(a) \/ BootLogin(a)
             \/ StartingLogin(a) \/ AskLogin(a) \/ Ready(a) \/ AwaitUser(a)
             \/ Verifying(a) \/ Verify(a) \/ PromoteLogin(a) \/ DiscardSource(a)
    BY <2>1 DEF StartLogin, EnterLogin, RecordLogin, StartingRuntime, BootLogin,
       StartingLogin, AskLogin, Ready, AwaitUser, Verifying, Verify, PromoteLogin,
       DiscardSource
  <2>2. CASE \/ CleanUp(a) \/ FailLogin(a) \/ ForkUse(a) \/ BootFork(a) \/ Rotate(a)
             \/ CaptureFork(a) \/ PersistFork(a) \/ CleanFork(a) \/ FinishFork(a)
             \/ AbandonFork(a) \/ Unfork(a) \/ UnfinishFork(a) \/ BranchFork(a)
             \/ CommitLogin(a) \/ Interrupted(a)
    BY <2>2 DEF CleanUp, FailLogin, ForkUse, BootFork, Rotate, CaptureFork, PersistFork,
       CleanFork, FinishFork, AbandonFork, Unfork, UnfinishFork, BranchFork, CommitLogin,
       Interrupted
  <2>. QED
    BY <1>1, <2>1, <2>2 DEF LoginStep
<1>2. ASSUME NEW a \in Logins, CancelRequest(a) \/ CancelStep(a)
      PROVE  \E t \in Trees \cup {None} : target' \in {target, [target EXCEPT ![a] = t]}
  BY <1>t, <1>2 DEF CancelRequest, CancelStep, CancelLogin, CancelBegin, CancelLook,
     CancelSend, CancelState, CancelOperation, CancelTask, CancelUndo, CancelInterrupted
<1>3. CASE \/ CallRequest \/ CallEnter \/ CallStep
           \/ (\E deletes \in BOOLEAN : StopRequest(deletes))
           \/ StopStep \/ Close \/ CloseRuntimes \/ UNCHANGED vars
  BY <1>t, <1>3 DEF CallRequest, CallEnter, CallStep, CallUse, CallStart, CallCodex,
     CallCheckpoint, CallPromote, CallCleanUp, CallFinish, CallRecord, CallInterrupted,
     StopRequest, StopStep, StopLook, StopRuntime, DeleteAccount, Close, CloseRuntimes,
     vars
<1>4. CASE Restart
  BY <1>4 DEF Restart
<1>. QED
  BY <1>t, <1>1, <1>2, <1>3, <1>4 DEF Next

LEMMA TypeStep ==
    ASSUME TypeOK, TreesThere, [Next]_vars
    PROVE  TypeOK'
BY TaskTypes, CallTypes, StopTypes, RowTypes, FileTypes, StoredTypes, RestTypes,
   TargetTypes DEF TypeOK
-----------------------------------------------------------------------------
(* The lock has one holder: it is taken when it is free (EnterLogin,       *)
(* CallEnter), and every other step of a sign-in or a call is one of its   *)
(* holder or leaves it free.                                               *)
LEMMA LockStep ==
    ASSUME TypeOK, LockExclusive, [Next]_vars
    PROVE  LockExclusive'
<1>t. task \in [Logins -> Task]
  BY DEF TypeOK
<1>1. CASE UNCHANGED <<task, call>>
  BY <1>1 DEF LockExclusive
<1>2. ASSUME NEW a \in Logins, CancelRequest(a) \/ CancelLogin(a) \/
             CancelBegin(a) \/ CancelLook(a) \/ CancelSend(a) \/
             CancelState(a) \/ CancelOperation(a) \/
             CancelUndo(a) \/ CancelInterrupted(a)
      PROVE  LockExclusive'
  BY <1>1, <1>2 DEF CancelRequest, CancelLogin, CancelBegin, CancelLook,
     CancelSend, CancelState,
     CancelOperation, CancelUndo, CancelInterrupted
<1>3. CASE StopLook \/ StopRuntime \/ CloseRuntimes \/ DeleteAccount \/
           UNCHANGED vars
  BY <1>1, <1>3 DEF StopLook, StopRuntime, CloseRuntimes, DeleteAccount, vars
<1>4. ASSUME NEW deletes \in BOOLEAN, StopRequest(deletes)
      PROVE  LockExclusive'
  BY <1>1, <1>4 DEF StopRequest
<1>5. ASSUME NEW a \in Logins, NEW recover \in BOOLEAN, StartLogin(a, recover)
      PROVE  LockExclusive'
  BY <1>5 DEF StartLogin, TypeOK, Holding, Locked, Shielded, Cleanup,
     LockExclusive
<1>6. ASSUME NEW a \in Logins, EnterLogin(a)
      PROVE  LockExclusive'
  BY <1>6 DEF EnterLogin, LockFree, LockExclusive
<1>7. ASSUME NEW a \in Logins, StartingRuntime(a)
      PROVE  LockExclusive'
  BY <1>7, ContinuedTask DEF StartingRuntime, At, Holding, LockExclusive
<1>8. ASSUME NEW a \in Logins, StartingLogin(a)
      PROVE  LockExclusive'
  BY <1>8, ContinuedTask DEF StartingLogin, At, Holding, Locked,
     LockExclusive
<1>9. ASSUME NEW a \in Logins, AskLogin(a)
      PROVE  LockExclusive'
  BY <1>t, <1>9, RaisedTask, Handled DEF AskLogin, Reaches, At, Holding, Locked,
     LockExclusive
<1>10. ASSUME NEW a \in Logins, Ready(a)
       PROVE  LockExclusive'
  BY <1>10, ContinuedTask, RaisedTask DEF Ready, At, Rejected, Holding,
     LockExclusive
<1>11. ASSUME NEW a \in Logins, AwaitUser(a)
       PROVE  LockExclusive'
  BY SMTT(30), <1>11, RaisedTask DEF AwaitUser, Reaches, At, Issues, Rejected, TypeOK,
     Task, Steps, LockExclusive
<1>12. ASSUME NEW a \in Logins, Verifying(a) \/ ForkUse(a)
       PROVE  LockExclusive'
  BY SMTT(30), <1>12, ContinuedTask, RaisedTask DEF Verifying, ForkUse, At, Rejected,
     TypeOK, Task, Steps, LockExclusive
<1>13. ASSUME NEW a \in Logins, Verify(a)
       PROVE  LockExclusive'
  BY <1>13, RaisedTask DEF Verify, At, TypeOK, Holding, Locked, LockExclusive
<1>14. ASSUME NEW a \in Logins, PromoteLogin(a)
       PROVE  LockExclusive'
  BY SMTT(30), <1>14, RaisedTask DEF PromoteLogin, At, TypeOK, Task, Steps, Holding,
     Locked, LockExclusive
<1>15. ASSUME NEW a \in Logins, DiscardSource(a) \/ FinishFork(a)
       PROVE  LockExclusive'
  BY <1>15, ContinuedTask DEF DiscardSource, FinishFork, At, TypeOK, Task,
     Steps, LockExclusive
<1>16. ASSUME NEW a \in Logins, CleanUp(a)
       PROVE  LockExclusive'
  <2>1. task[a].pc \in Holding /\ UNCHANGED call
    BY <1>16 DEF CleanUp, Holding, Cleanup
  <2>2. task'[a].pc = "fail" /\ \A b \in Logins \ {a} : task'[b] = task[b]
    BY <1>t, <1>16 DEF CleanUp, Task
  <2>. QED
    BY <2>1, <2>2 DEF LockExclusive, Holding, Locked, Shielded, Cleanup
<1>17. ASSUME NEW a \in Logins, FailLogin(a)
       PROVE  LockExclusive'
  BY <1>17 DEF FailLogin, NoTask, Holding, Locked, Shielded, Cleanup,
     LockExclusive
<1>18. ASSUME NEW a \in Logins, Rotate(a)
       PROVE  LockExclusive'
  BY <1>18, RaisedTask DEF Rotate, Reaches, At, TypeOK, Holding, Locked,
     LockExclusive
<1>19. ASSUME NEW a \in Logins, CaptureFork(a)
       PROVE  LockExclusive'
  BY SMTT(30), <1>19, RaisedTask, Handled DEF CaptureFork, At, TypeOK, Task, Steps,
     Gone, LockExclusive
<1>20. ASSUME NEW a \in Logins, PersistFork(a) \/ CleanFork(a) \/
             Unfork(a) \/ UnfinishFork(a)
       PROVE  LockExclusive'
  BY SMTT(30), <1>20 DEF PersistFork, CleanFork, Unfork, UnfinishFork, At, TypeOK,
     Task, Steps, LockExclusive
<1>21. ASSUME NEW a \in Logins, BranchFork(a)
       PROVE  LockExclusive'
  BY SMTT(30), <1>21, RaisedTask DEF BranchFork, Reaches, At, Rejected, TypeOK, Task,
     Steps, LockExclusive
<1>22. ASSUME NEW a \in Logins, CommitLogin(a)
       PROVE  LockExclusive'
  BY <1>22, RaisedTask DEF CommitLogin, At, Cancelled, Rejected, TypeOK,
     Holding, LockExclusive
<1>23. ASSUME NEW a \in Logins, CancelTask(a)
       PROVE  LockExclusive'
  BY <1>23 DEF CancelTask, LockExclusive
<1>24. CASE CallRequest
  BY <1>24 DEF CallRequest, CallGoes, LockExclusive, CallHolds, CallLocked
<1>25. CASE CallEnter
  BY <1>25 DEF CallEnter, LockFree, LockExclusive
<1>26. CASE CallUse \/ CallCleanUp \/ CallFinish
  BY <1>26 DEF CallUse, CallCleanUp, CallFinish, LockExclusive, CallHolds
<1>27. CASE CallCodex \/ CallCheckpoint \/ CallPromote
  BY <1>27 DEF CallCodex, CallCheckpoint, CallPromote, LockExclusive,
     CallHolds, CallLocked
<1>28. CASE CallRecord \/ CallInterrupted
  BY <1>28 DEF CallRecord, CallInterrupted, NoCall, LockExclusive, CallHolds,
     CallLocked
<1>29. CASE Close
  BY <1>29 DEF Close, TypeOK, Task, Gone, LockExclusive
<1>30. CASE Restart
  BY <1>30 DEF Restart, NoTask, Holding, Locked, Shielded, Cleanup,
     LockExclusive
<1>31. ASSUME NEW a \in Logins, RecordLogin(a) \/ AbandonFork(a) \/ Interrupted(a) PROVE LockExclusive'
  <2>1. /\ \A b \in Logins \ {a} : task'[b] = task[b]
        /\ task'[a].pc \in Holding => task[a].pc \in Holding
    <3>1. CASE RecordLogin(a)
      BY <3>1 DEF RecordLogin, TypeOK, Task, NoTask, Holding, Locked, Shielded, Cleanup
    <3>2. CASE AbandonFork(a)
      BY <3>2 DEF AbandonFork, At, TypeOK, Task, Holding, Cleanup
    <3>3. CASE Interrupted(a)
      BY <3>3, Interruptions, RaisedTask DEF Interrupted, Cancelled
    <3>. QED
      BY <1>31, <3>1, <3>2, <3>3
  <2>2. call' = call
    BY <1>31 DEF RecordLogin, AbandonFork, Interrupted
  <2>. QED
    BY <2>1, <2>2 DEF LockExclusive
<1>32. ASSUME NEW a \in Logins, BootLogin(a) \/ BootFork(a) PROVE LockExclusive'
  <2>1. /\ task[a].pc \in Holding /\ \A b \in Logins \ {a} : task'[b] = task[b]
        /\ call' = call
    BY <1>32, Booted DEF Holding, BootLogin, BootFork
  <2>. QED
    BY <2>1 DEF LockExclusive
<1>33. CASE CallStart
  <2>1. call'.pc \in CallHolds => call.pc \in CallHolds
    BY <1>33 DEF CallStart, CallHolds
  <2>2. task' = task
    BY <1>33 DEF CallStart
  <2>. QED
    BY <2>1, <2>2 DEF LockExclusive
<1>. QED
  BY <1>1, <1>2, <1>3, <1>4, <1>5, <1>6, <1>7, <1>8, <1>9, <1>10, <1>11,
     <1>12, <1>13, <1>14, <1>15, <1>16, <1>17, <1>18, <1>19, <1>20, <1>21,
     <1>22, <1>23, <1>24, <1>25, <1>26, <1>27, <1>28, <1>29, <1>30, <1>31,
     <1>32, <1>33 DEF Next, LoginStep, CancelStep, CallStep, StopStep

(* A tree that is gone is not that of a runtime whose lock is held.        *)
LEMMA TreesStep ==
    ASSUME TypeOK, LockExclusive, TreesThere, [Next]_vars
    PROVE  TreesThere'
<1>t. task \in [Logins -> Task]
  BY DEF TypeOK
<1>1. CASE UNCHANGED <<task, call, slot, file>>
  BY <1>1 DEF TreesThere
<1>2. ASSUME NEW a \in Logins, CancelRequest(a) \/ CancelLogin(a) \/
             CancelBegin(a) \/ CancelLook(a) \/ CancelSend(a) \/
             CancelState(a) \/ CancelOperation(a) \/
             CancelUndo(a) \/ CancelInterrupted(a)
      PROVE  TreesThere'
  BY <1>1, <1>2 DEF CancelRequest, CancelLogin, CancelBegin, CancelLook,
     CancelSend, CancelState,
     CancelOperation, CancelUndo, CancelInterrupted, runtimeVars
<1>3. CASE StopLook \/ DeleteAccount \/ UNCHANGED vars
  BY <1>1, <1>3 DEF StopLook, DeleteAccount, runtimeVars, vars
<1>4. ASSUME NEW deletes \in BOOLEAN, StopRequest(deletes)
      PROVE  TreesThere'
  BY <1>1, <1>4 DEF StopRequest, runtimeVars
<1>5. ASSUME NEW a \in Logins, NEW recover \in BOOLEAN, StartLogin(a, recover)
      PROVE  TreesThere'
  BY <1>5 DEF StartLogin, runtimeVars, TypeOK, TreesThere, WithRuntime
<1>6. ASSUME NEW a \in Logins, RecordLogin(a)
      PROVE  TreesThere'
  BY SMTT(30), <1>6 DEF RecordLogin, NoTask, runtimeVars, TypeOK, Task, TreesThere,
     WithRuntime
<1>7. ASSUME NEW a \in Logins, EnterLogin(a)
      PROVE  TreesThere'
  BY <1>7 DEF EnterLogin, runtimeVars, TreesThere, WithRuntime
<1>8. ASSUME NEW a \in Logins, StartingRuntime(a) \/ StartingLogin(a)
      PROVE  TreesThere'
  BY <1>8, ContinuedTask, Handled DEF StartingRuntime, StartingLogin, At,
     runtimeVars, TreesThere, WithRuntime
<1>9. ASSUME NEW a \in Logins, AskLogin(a)
      PROVE  TreesThere'
  BY SMTT(30), <1>9, RaisedTask, Handled DEF AskLogin, Reaches, At, Failed,
     runtimeVars, TypeOK, Task, TreesThere, WithRuntime
<1>10. ASSUME NEW a \in Logins, Ready(a) \/ Verifying(a) \/ ForkUse(a)
       PROVE  TreesThere'
  BY <1>10, ContinuedTask, RaisedTask, Handled DEF Ready, Verifying, ForkUse,
     At, Rejected, runtimeVars, TreesThere, WithRuntime
<1>11. ASSUME NEW a \in Logins, Verify(a)
       PROVE  TreesThere'
  BY SMTT(30), <1>11, RaisedTask, Handled DEF Verify, At, Failed, runtimeVars, TypeOK,
     Task, LockExclusive, TreesThere, WithRuntime
<1>12. ASSUME NEW a \in Logins, PromoteLogin(a)
       PROVE  TreesThere'
  <2>1. /\ UNCHANGED <<slot, file, call>>
        /\ task[a].pc = "promote" /\ task'[a].pc \in {"discard", "keepLate"}
        /\ task'[a].tree = task[a].tree
        /\ \A b \in Logins \ {a} : task'[b] = task[b]
    BY <1>t, <1>12, RaisedTask, Handled DEF PromoteLogin, At, runtimeVars, Task
  <2>2. task'[a].tree \in Trees /\ task'[a].pc \notin {"rotate", "capture"}
    BY <2>1 DEF TreesThere, WithRuntime
  <2>. QED
    BY <2>1, <2>2 DEF TreesThere
<1>13. ASSUME NEW a \in Logins, DiscardSource(a)
       PROVE  TreesThere'
  BY <1>13, ContinuedTask, Handled DEF DiscardSource, At, Holding, Locked,
     Shielded, LockExclusive, CallHolds, CallLocked, TreesThere, WithRuntime
<1>14. ASSUME NEW a \in Logins, FailLogin(a)
       PROVE  TreesThere'
  BY <1>14 DEF FailLogin, NoTask, runtimeVars, TreesThere, WithRuntime
<1>15. ASSUME NEW a \in Logins, CaptureFork(a)
       PROVE  TreesThere'
  BY <1>t, <1>15, RaisedTask, Handled DEF CaptureFork, At, runtimeVars, Task,
     TreesThere, WithRuntime
<1>16. ASSUME NEW a \in Logins, PersistFork(a)
       PROVE  TreesThere'
  BY <1>16 DEF PersistFork, At, runtimeVars, TreesThere, WithRuntime
<1>17. ASSUME NEW a \in Logins, CleanFork(a)
       PROVE  TreesThere'
  BY <1>17 DEF CleanFork, At, Holding, Locked, Shielded, LockExclusive,
     CallHolds, CallLocked, TreesThere, WithRuntime
<1>18. ASSUME NEW a \in Logins, FinishFork(a)
       PROVE  TreesThere'
  BY <1>18, ContinuedTask, Handled DEF FinishFork, At, runtimeVars,
     TreesThere
<1>19. ASSUME NEW a \in Logins, AbandonFork(a)
       PROVE  TreesThere'
  BY SMTT(30), <1>19 DEF AbandonFork, AfterFork, runtimeVars, TypeOK, TreesThere,
     WithRuntime
<1>20. ASSUME NEW a \in Logins, UnfinishFork(a)
       PROVE  TreesThere'
  BY <1>20 DEF UnfinishFork, AfterFork, runtimeVars, TypeOK, TreesThere,
     WithRuntime
<1>21. ASSUME NEW a \in Logins, Unfork(a)
       PROVE  TreesThere'
  <2>1. /\ task[a].pc = "unfork" /\ UNCHANGED <<call, file>>
        /\ \A b \in Logins \ {a} : task'[b] = task[b]
        /\ task'[a].pc = "unfinish" /\ task'[a].tree = task[a].tree
    BY <1>t, <1>21 DEF Unfork, At, Archive, Preserve, Task
  <2>2. /\ call.pc \notin CallHolds
        /\ \A b \in Logins \ {a} : task[b].pc \notin Holding
    BY <2>1 DEF LockExclusive, Holding, Cleanup
  <2>. QED
    BY <2>1, <2>2 DEF Holding, Locked, CallHolds, CallLocked, TreesThere, WithRuntime
<1>22. ASSUME NEW a \in Logins, BranchFork(a)
       PROVE  TreesThere'
  BY <1>22, RaisedTask, Handled DEF BranchFork, Reaches, At, None, Rejected,
     runtimeVars, TypeOK, Task, TreesThere, WithRuntime
<1>23. ASSUME NEW a \in Logins, CancelTask(a)
       PROVE  TreesThere'
  BY <1>23 DEF CancelTask, runtimeVars, TreesThere
<1>24. CASE CallRequest
  BY <1>24 DEF CallRequest, CallGoes, runtimeVars, CallLocked, TreesThere,
     CallWithRuntime
<1>25. CASE CallPromote
  BY <1>25 DEF CallPromote, CallGoes, runtimeVars, CallLocked, TreesThere,
     CallWithRuntime
<1>26. CASE CallEnter
  BY <1>26 DEF CallEnter, CallLocked, NoCall, runtimeVars, TreesThere,
     CallWithRuntime
<1>27. CASE CallFinish
  BY <1>27 DEF CallFinish, NoCall, runtimeVars, CallLocked, TreesThere,
     CallWithRuntime
<1>28. CASE CallRecord
  BY <1>28 DEF CallRecord, NoCall, runtimeVars, CallLocked, TreesThere,
     CallWithRuntime
<1>29. CASE CallInterrupted
  BY <1>29 DEF CallInterrupted, NoCall, runtimeVars, CallLocked, TreesThere,
     CallWithRuntime
<1>30. CASE CallCodex
  BY <1>30 DEF CallCodex, Issues, TypeOK, Gone, CallLocked, TreesThere,
     CallWithRuntime
<1>31. CASE StopRuntime
  BY <1>31 DEF StopRuntime, RuntimeLocked, Locked, CallLocked, Discard,
     Forget, TreesThere
<1>32. CASE Close
  BY <1>32 DEF Close, runtimeVars, TypeOK, Task, LockExclusive, TreesThere
<1>c. CASE CloseRuntimes
  BY <1>c DEF CloseRuntimes, At, NoCall, CallLocked, TreesThere, WithRuntime,
     CallWithRuntime
<1>33. CASE Restart
  BY <1>33 DEF Restart, NoTask, NoCall, CallLocked, TreesThere, WithRuntime,
     CallWithRuntime
<1>34. ASSUME NEW a \in Logins, Interrupted(a) PROVE TreesThere'
  <2>1. \A b \in Logins \ {a} : task'[b] = task[b]
    BY <1>34, RaisedTask DEF Interrupted, Cancelled
  <2>. QED
    BY <1>34, <2>1, Interruptions DEF TreesThere, Interrupted, runtimeVars
<1>35. ASSUME CallUse PROVE TreesThere'
  <2>1. call'.pc \notin CallWithRuntime
    BY <1>35 DEF CallUse, CallGoes, NoCall, CallWithRuntime, CallLocked, TypeOK, Call
  <2>. QED
    BY <1>35, <2>1 DEF TreesThere, CallUse, runtimeVars, CallWithRuntime, CallLocked
<1>36. ASSUME CallStart PROVE TreesThere'
  <2>0. \A a \in Logins : task[a].pc \notin {"rotate", "capture"}
     BY <1>36 DEF CallStart, LockExclusive, Holding, Locked, CallHolds
  <2>1. CASE call'.pc = "release"
     BY <1>36, <2>0, <2>1 DEF CallStart, TreesThere, CallWithRuntime, CallLocked
  <2>2. CASE call'.pc # "release"
    <3>1. PICK t \in Trees : /\ slot' = t /\ call' = [call EXCEPT !.pc = "call", !.tree = t]
                             /\ file' = [file EXCEPT ![t] = call.source]
      BY <1>36, <2>2 DEF CallStart, StartFresh, CallGoes, TypeOK, Call
    <3>2. call'.pc = "call" /\ call'.tree = t
      BY <3>1 DEF TypeOK, Call
    <3>3. file'[t] # Gone
      BY <3>1 DEF TypeOK, Call, Gone, None, Credentials
    <3>. QED
      BY <1>36, <2>0, <3>1, <3>2, <3>3 DEF TreesThere, CallStart
  <2>. QED
    BY <2>1, <2>2
<1>37. ASSUME CallCheckpoint PROVE TreesThere'
  <2>1. call'.pc \notin {"call", "check"} /\ call'.tree = call.tree
    BY <1>37 DEF CallCheckpoint, CallGoes, TypeOK, Call
  <2>. QED
    BY <1>37, <2>1 DEF CallCheckpoint, runtimeVars, TreesThere, CallWithRuntime, CallLocked
<1>38. ASSUME CallCleanUp PROVE TreesThere'
  <2>0. \A a \in Logins : task[a].pc \notin {"rotate", "capture"}
     BY <1>38 DEF CallCleanUp, LockExclusive, Holding, Locked, CallHolds
  <2>1. call'.pc \in {"release", "quarantine"}
     BY <1>38 DEF CallCleanUp, CallGoes, TypeOK, Call
  <2>. QED
     BY <1>38, <2>0, <2>1 DEF CallCleanUp, TreesThere, CallWithRuntime, CallLocked
<1>39. ASSUME NEW a \in Logins, BootLogin(a) \/ BootFork(a) PROVE TreesThere'
  <2>1. /\ \A b \in Logins \ {a} : task[b].pc \notin Holding /\ task'[b] = task[b]
        /\ call' = call /\ call.pc \notin CallHolds
    BY <1>39, Booted, BootFrame DEF LockExclusive, Holding
  <2>2. /\ call'.pc \notin CallWithRuntime \cup {"call", "check"}
        /\ \A b \in Logins \ {a} :
              task'[b].pc \notin WithRuntime \cup {"finish", "unfinish", "rotate", "capture"}
    BY <2>1 DEF WithRuntime, CallWithRuntime, CallHolds, CallLocked, Holding, Locked,
                Shielded, Cleanup
  <2>3. CASE task'[a].pc \in {"fail", "abandon"}
    BY <2>2, <2>3 DEF TreesThere, WithRuntime
  <2>4. CASE task'[a].pc \in {"begin", "rotate"}
    <3>1. /\ task'[a].tree \in Trees /\ slot' = task'[a].tree
          /\ file'[slot'] = IF task'[a].pc = "begin" THEN None ELSE task[a].source
      BY ZenonT(30), <1>39, <2>4, Booted, BootFrame DEF TypeOK
    <3>2. file'[slot'] # Gone
      BY <3>1 DEF TypeOK, Task, Credentials, None, Gone
    <3>. QED
      BY <2>2, <2>4, <3>1, <3>2 DEF TreesThere
  <2>. QED
    BY <1>39, <2>3, <2>4, Booted, BootFrame
<1>40. ASSUME NEW a \in Logins, CommitLogin(a) PROVE TreesThere'
  <2>1. /\ \A b \in Logins \ {a} : task'[b] = task[b]
        /\ task'[a].pc \in {"fail", "free"} /\ UNCHANGED <<call, slot, file>>
    BY <1>40, RaisedTask, Handled DEF CommitLogin, At, Cancelled, Rejected, TypeOK, NoTask, runtimeVars
  <2>. QED
    BY <2>1 DEF TreesThere, WithRuntime
<1>41. ASSUME NEW a \in Logins, AwaitUser(a) PROVE TreesThere'
  <2>1. /\ \A b \in Logins \ {a} : task'[b] = task[b]
        /\ task[a].pc = "user" /\ task'[a].pc \in {"verifying", "drop"}
        /\ task'[a].tree = task[a].tree
    <3>1. CASE task' = [task EXCEPT ![a].pc = "verifying"]
      BY <1>41, <3>1 DEF AwaitUser, Reaches, At, TypeOK, Task
    <3>2. CASE Rejected(a)
      BY <1>41, <3>2, RaisedTask, Handled DEF AwaitUser, Reaches, At, Rejected
    <3>. QED
      BY <1>41, <3>1, <3>2 DEF AwaitUser
  <2>2. /\ UNCHANGED <<call, slot>>
        /\ slot \in Trees /\ file[slot] # Gone => file'[slot] # Gone
    BY <1>41 DEF AwaitUser, Issues, TypeOK, Gone
  <2>3. /\ call.pc \in CallWithRuntime => call.tree \in Trees
        /\ call.pc \in {"call", "check"} =>
              slot = call.tree /\ call.tree \in Trees /\ file[slot] # Gone
        /\ \A b \in Logins :
              /\ task[b].pc \in WithRuntime \cup {"finish", "unfinish"} => task[b].tree \in Trees
              /\ task[b].pc \in {"rotate", "capture"} =>
                    slot = task[b].tree /\ task[b].tree \in Trees /\ file[slot] # Gone
    BY DEF TreesThere, WithRuntime, CallWithRuntime, CallLocked
  <2>4. task[a].tree \in Trees
    BY <2>1, <2>3 DEF WithRuntime
  <2>. QED
    BY <2>1, <2>2, <2>3, <2>4 DEF TreesThere
<1>42. ASSUME NEW a \in Logins, CleanUp(a) PROVE TreesThere'
  <2>1. /\ \A b \in Logins \ {a} : task[b].pc \notin Holding /\ task'[b] = task[b]
        /\ call' = call /\ call.pc \notin CallHolds /\ task'[a].pc = "fail"
    BY <1>42 DEF CleanUp, LockExclusive, TypeOK, Task, Holding, Cleanup
  <2>. QED
    BY <2>1 DEF TreesThere, WithRuntime, CallWithRuntime, CallHolds, CallLocked, Holding,
                Locked, Shielded, Cleanup
<1>43. ASSUME NEW a \in Logins, Rotate(a) PROVE TreesThere'
  <2>1. /\ \A b \in Logins \ {a} : task[b].pc \notin Holding /\ task'[b] = task[b]
        /\ call' = call /\ call.pc \notin CallHolds /\ slot' = slot
    BY <1>43, RaisedTask DEF Rotate, Reaches, At, LockExclusive, TypeOK, Holding, Locked
  <2>2. /\ task[a].tree \in Trees /\ slot = task[a].tree /\ file[slot] # Gone
        /\ task'[a].tree = task[a].tree
    BY <1>43, RaisedTask DEF Rotate, Reaches, At, TreesThere, WithRuntime, TypeOK, Task
  <2>3. file'[slot] # Gone
    BY <1>43, <2>2 DEF Rotate, Issues, TypeOK, Gone
  <2>. QED
    BY <2>1, <2>2, <2>3 DEF TreesThere, WithRuntime, CallWithRuntime, CallHolds, CallLocked,
                            Holding, Locked, Shielded, Cleanup
<1>. QED
  BY <1>c, <1>1, <1>2, <1>3, <1>4, <1>5, <1>6, <1>7, <1>8, <1>9, <1>10, <1>11,
     <1>12, <1>13, <1>14, <1>15, <1>16, <1>17, <1>18, <1>19, <1>20, <1>21,
     <1>22, <1>23, <1>24, <1>25, <1>26, <1>27, <1>28, <1>29, <1>30, <1>31,
     <1>32, <1>33, <1>34, <1>35, <1>36, <1>37, <1>38, <1>39, <1>40, <1>41,
     <1>42, <1>43 DEF Next, LoginStep, CancelStep, CallStep, StopStep

(* A registered runtime keeps its owner.                                   *)
LEMMA OwnedStep ==
    ASSUME TypeOK, LockExclusive, TreesThere, Owned, Beginnings, [Next]_vars
    PROVE  Owned'
<1>t. task \in [Logins -> Task]
  BY DEF TypeOK
<1>1. CASE UNCHANGED <<task, call, slot, leaked>>
  BY <1>1 DEF Owned
<1>2. ASSUME NEW a \in Logins, CancelRequest(a) \/ CancelLogin(a) \/
             CancelBegin(a) \/ CancelLook(a) \/ CancelSend(a) \/
             CancelState(a) \/ CancelOperation(a) \/
             CancelUndo(a) \/ CancelInterrupted(a)
      PROVE  Owned'
  BY <1>1, <1>2 DEF CancelRequest, CancelLogin, CancelBegin, CancelLook,
     CancelSend, CancelState,
     CancelOperation, CancelUndo, CancelInterrupted, runtimeVars
<1>3. CASE StopLook \/ DeleteAccount \/ UNCHANGED vars
  BY <1>1, <1>3 DEF StopLook, DeleteAccount, runtimeVars, vars
<1>4. ASSUME NEW deletes \in BOOLEAN, StopRequest(deletes)
      PROVE  Owned'
  BY <1>1, <1>4 DEF StopRequest, runtimeVars
<1>5. ASSUME NEW a \in Logins, RecordLogin(a) \/ AbandonFork(a) \/
             UnfinishFork(a)
      PROVE  Owned'
  BY <1>5 DEF RecordLogin, AbandonFork, UnfinishFork, At, runtimeVars,
     TypeOK, WithRuntime, Owned
<1>6. ASSUME NEW a \in Logins, EnterLogin(a)
      PROVE  Owned'
  BY <1>6 DEF EnterLogin, Reaches, At, runtimeVars, WithRuntime, Owned
<1>7. ASSUME NEW a \in Logins, StartingRuntime(a) \/ ForkUse(a) \/
             FinishFork(a) \/ CommitLogin(a)
      PROVE  Owned'
  BY <1>7 DEF StartingRuntime, ForkUse, FinishFork, CommitLogin, At,
     runtimeVars, TypeOK, Task, Steps, LockExclusive, WithRuntime, Owned
<1>8. ASSUME NEW a \in Logins, StartingLogin(a)
      PROVE  Owned'
  BY <1>8, ContinuedTask, Handled DEF StartingLogin, At, runtimeVars,
     WithRuntime, Owned
<1>9. ASSUME NEW a \in Logins, AskLogin(a)
      PROVE  Owned'
  BY <1>9, RaisedTask, Handled DEF AskLogin, Reaches, At, runtimeVars,
     TypeOK, Task, WithRuntime, CallWithRuntime, Owned
<1>10. ASSUME NEW a \in Logins, Ready(a) \/ Verifying(a)
       PROVE  Owned'
  BY <1>10, ContinuedTask, RaisedTask, Handled DEF Ready, Verifying, At,
     Rejected, runtimeVars, WithRuntime, Owned
<1>11. ASSUME NEW a \in Logins, AwaitUser(a)
       PROVE  Owned'
  BY <1>11, RaisedTask, Handled DEF AwaitUser, Reaches, At, Issues, Rejected,
     TypeOK, Task, TreesThere, WithRuntime, Owned
<1>12. ASSUME NEW a \in Logins, PromoteLogin(a)
       PROVE  Owned'
  <2>1. /\ \A b \in Logins \ {a} : task'[b] = task[b]
        /\ task'[a].pc \in {"discard", "keepLate"} /\ task'[a].tree = task[a].tree
    BY <1>t, <1>12, RaisedTask, Handled DEF PromoteLogin, At, Task
  <2>. QED
    BY <1>12, <2>1, OwnedFrame DEF PromoteLogin, runtimeVars, WithRuntime
<1>13. ASSUME NEW a \in Logins, CaptureFork(a)
       PROVE  Owned'
  <2>1. /\ \A b \in Logins \ {a} : task'[b] = task[b]
        /\ task'[a].pc \in {"persist", "unfork"} /\ task'[a].tree = task[a].tree
    BY <1>t, <1>13, RaisedTask, Handled DEF CaptureFork, At, Task
  <2>. QED
    BY <1>13, <2>1, OwnedFrame DEF CaptureFork, runtimeVars, WithRuntime
<1>14. ASSUME NEW a \in Logins, DiscardSource(a)
       PROVE  Owned'
  BY <1>14 DEF DiscardSource, At, Discard, Forget, Holding, Locked, Shielded,
     Cleanup, LockExclusive, WithRuntime, Owned
<1>15. ASSUME NEW a \in Logins, CleanUp(a)
       PROVE  Owned'
  BY <1>15 DEF CleanUp, Discard, Forget, Preserve, TypeOK, Owned
<1>16. ASSUME NEW a \in Logins, FailLogin(a)
       PROVE  Owned'
  BY <1>16 DEF FailLogin, At, runtimeVars, WithRuntime, Owned
<1>17. ASSUME NEW a \in Logins, Rotate(a)
       PROVE  Owned'
  BY <1>17, RaisedTask, Handled DEF Rotate, Reaches, At, Failed, TypeOK,
     Task, Steps, WithRuntime, Owned
<1>18. ASSUME NEW a \in Logins, PersistFork(a)
       PROVE  Owned'
  BY <1>18 DEF PersistFork, runtimeVars, WithRuntime, Owned
<1>19. ASSUME NEW a \in Logins, CleanFork(a)
       PROVE  Owned'
  BY <1>19 DEF CleanFork, Discard, Forget, Owned
<1>20. ASSUME NEW a \in Logins, Unfork(a)
       PROVE  Owned'
  BY <1>20 DEF Unfork, Archive, Forget, Preserve, TypeOK, Owned
<1>21. ASSUME NEW a \in Logins, BranchFork(a)
       PROVE  Owned'
  BY <1>21 DEF BranchFork, Reaches, At, runtimeVars, TypeOK, Task, Steps,
     LockExclusive, WithRuntime, Owned
<1>22. ASSUME NEW a \in Logins, CancelTask(a)
       PROVE  Owned'
  BY <1>22 DEF CancelTask, runtimeVars, Owned
<1>23. CASE CallRequest \/ CallEnter \/ CallUse \/ CallFinish
  BY <1>23 DEF CallRequest, CallEnter, CallUse, CallFinish, runtimeVars,
     CallLocked, CallWithRuntime, Owned
<1>24. CASE CallRecord \/ CallInterrupted
  BY <1>24 DEF CallRecord, CallInterrupted, runtimeVars, CallLocked,
     CallWithRuntime, Owned
<1>25. CASE CallCodex
  BY <1>25 DEF CallCodex, CallLocked, CallWithRuntime, Owned
<1>26. CASE CallPromote
  BY <1>26 DEF CallPromote, CallGoes, runtimeVars, CallWithRuntime, Owned
<1>27. CASE CallCleanUp
  BY <1>27 DEF CallCleanUp, Discard, Forget, Preserve, Owned
<1>28. CASE StopRuntime
  BY <1>28 DEF StopRuntime, Discard, Forget, Owned
<1>c. CASE CloseRuntimes
  BY <1>c DEF CloseRuntimes, Discard, Forget, Owned
<1>29. CASE Restart
  BY <1>29 DEF Restart, Owned
<1>30. ASSUME NEW a \in Logins, NEW recover \in BOOLEAN, StartLogin(a, recover)
      PROVE  Owned'
  <2>1. task[a].pc = "free" /\ \A b \in Logins \ {a} : task'[b] = task[b]
    BY <1>30 DEF StartLogin, Beginnings, TypeOK
  <2>. QED
    BY <1>30, <2>1, OwnedFrame DEF StartLogin, WithRuntime, runtimeVars, Cleanup
<1>31. ASSUME NEW a \in Logins, Interrupted(a) PROVE Owned'
  <2>1. \A b \in Logins \ {a} : task'[b] = task[b]
    BY <1>31, RaisedTask DEF Interrupted, Cancelled
  <2>2. task[a].pc \in WithRuntime =>
              task'[a].pc \in WithRuntime /\ task'[a].tree = task[a].tree
    BY <1>31, Interruptions DEF WithRuntime
  <2>3. UNCHANGED <<slot, leaked, call>>
    BY <1>31 DEF Interrupted, runtimeVars
  <2>. QED
    BY <2>1, <2>2, <2>3, OwnedFrame
<1>32. ASSUME CallStart PROVE Owned'
  <2>1. CASE UNCHANGED runtimeVars
    BY <1>32, <2>1, OwnedFrame DEF CallStart, runtimeVars, CallWithRuntime, CallLocked
  <2>2. CASE ~UNCHANGED runtimeVars
    <3>1. PICK t \in Trees : slot' = t /\ call' = [call EXCEPT !.pc = "call", !.tree = t]
      BY <1>32, <2>2 DEF CallStart, StartFresh
    <3>2. call'.pc = "call" /\ call'.tree = t
      BY <3>1 DEF TypeOK, Call
    <3>. QED
      BY <3>1, <3>2 DEF Owned, CallWithRuntime, CallLocked
  <2>. QED
    BY <2>1, <2>2
<1>33. ASSUME CallCheckpoint PROVE Owned'
  <2>1. call'.pc \in CallWithRuntime /\ call'.tree = call.tree
    BY <1>33 DEF CallCheckpoint, CallGoes, CallWithRuntime, CallLocked, TypeOK, Call
  <2>. QED
    BY <1>33, <2>1, OwnedFrame DEF CallCheckpoint, runtimeVars
<1>34. ASSUME Close PROVE Owned'
  <2>1. \A a \in Logins : task'[a].pc = task[a].pc /\ task'[a].tree = task[a].tree
    BY <1>34 DEF Close, TypeOK, Task
  <2>. QED
    BY <1>34, <2>1, OwnedFrame DEF Close, runtimeVars
<1>35. ASSUME NEW a \in Logins, BootLogin(a) \/ BootFork(a) PROVE Owned'
  <2>1. CASE task'[a].pc \in {"begin", "rotate"}
    BY <1>35, <2>1, Booted, BootFrame DEF Owned, WithRuntime
  <2>2. CASE task'[a].pc \in {"fail", "abandon"}
    <3>1. /\ UNCHANGED <<slot, leaked, call>> /\ \A b \in Logins \ {a} : task'[b] = task[b]
          /\ task[a].pc \in {"boot", "fork"}
      BY <1>35, <2>2, Booted, BootFrame DEF runtimeVars
    <3>. QED
      BY <3>1, OwnedFrame DEF WithRuntime
  <2>. QED
    BY <1>35, <2>1, <2>2, Booted, BootFrame
<1>36. ASSUME NEW a \in Logins, Verify(a) PROVE Owned'
  <2>1. /\ \A b \in Logins \ {a} : task'[b] = task[b]
        /\ task'[a].pc \in {"promote", "keep"} /\ task'[a].tree = task[a].tree
    <3>1. CASE \E to \in Failed : Raises(a, to)
      BY <1>36, <3>1, RaisedTask, Handled DEF Verify, At
    <3>2. CASE ~\E to \in Failed : Raises(a, to)
      BY <1>36, <3>2 DEF Verify, TypeOK, Task
    <3>. QED
      BY <3>1, <3>2
  <2>2. UNCHANGED <<slot, leaked, call>>
    BY <1>36 DEF Verify, runtimeVars
  <2>. QED
    BY <2>1, <2>2, OwnedFrame DEF WithRuntime
<1>. QED
  BY <1>c, <1>1, <1>2, <1>3, <1>4, <1>5, <1>6, <1>7, <1>8, <1>9, <1>10, <1>11,
     <1>12, <1>13, <1>14, <1>15, <1>16, <1>17, <1>18, <1>19, <1>20, <1>21,
     <1>22, <1>23, <1>24, <1>25, <1>26, <1>27, <1>28, <1>29, <1>30, <1>31,
     <1>32, <1>33, <1>34, <1>35,
     <1>36 DEF Next, LoginStep, CancelStep, CallStep, StopStep

-----------------------------------------------------------------------------
(* Rows, tasks and cancellations begin in this order.                      *)
LEMMA BeginningsStep ==
    ASSUME TypeOK, Beginnings, [Next]_vars
    PROVE  Beginnings'
<1>1. CASE UNCHANGED <<operation, task, login, cancel, interactions>>
  BY <1>1 DEF Beginnings
<1>2. CASE CallRequest \/ CallEnter \/ CallUse \/ CallStart \/ CallCodex \/
           CallCheckpoint \/ CallPromote \/ CallCleanUp \/ CallFinish
  BY <1>1, <1>2 DEF CallRequest, CallEnter, CallUse, CallStart, CallCodex,
     CallCheckpoint, CallPromote, CallCleanUp, CallFinish, loginVars
<1>3. CASE CallRecord \/ CallInterrupted \/ StopLook \/ StopRuntime \/
           CloseRuntimes \/ DeleteAccount \/ UNCHANGED vars
  BY <1>1, <1>3 DEF CallRecord, CallInterrupted, StopLook, StopRuntime,
     CloseRuntimes, DeleteAccount, loginVars, vars
<1>4. ASSUME NEW deletes \in BOOLEAN, StopRequest(deletes)
      PROVE  Beginnings'
  BY <1>1, <1>4 DEF StopRequest, loginVars
<1>5. ASSUME NEW a \in Logins, NEW recover \in BOOLEAN, StartLogin(a, recover)
      PROVE  Beginnings'
  BY <1>5 DEF StartLogin, TypeOK, Beginnings
<1>6. ASSUME NEW a \in Logins, RecordLogin(a)
      PROVE  Beginnings'
  BY <1>6 DEF RecordLogin, At, NoTask, TypeOK, Task, Beginnings
<1>7. ASSUME NEW a \in Logins, EnterLogin(a)
      PROVE  Beginnings'
  BY <1>7 DEF EnterLogin, Reaches, At, Beginnings, Unpublished
<1>8. ASSUME NEW a \in Logins, StartingRuntime(a)
      PROVE  Beginnings'
  BY <1>8, ContinuedTask, Handled DEF StartingRuntime, At, Beginnings,
     Unpublished
<1>9. ASSUME NEW a \in Logins, StartingLogin(a)
      PROVE  Beginnings'
  BY <1>9, ContinuedTask, Handled DEF StartingLogin, At, Beginnings,
     Unpublished
<1>10. ASSUME NEW a \in Logins, AskLogin(a)
       PROVE  Beginnings'
  BY <1>10, RaisedTask, Handled DEF AskLogin, Reaches, At, Failed, loginVars,
     TypeOK, Task, Beginnings, Unpublished
<1>11. ASSUME NEW a \in Logins, Ready(a)
       PROVE  Beginnings'
  BY <1>11, ContinuedTask, RaisedTask, Handled DEF Ready, At, Rejected,
     loginVars, TypeOK, Beginnings, Unpublished
<1>12. ASSUME NEW a \in Logins, AwaitUser(a)
       PROVE  Beginnings'
  BY <1>12, RaisedTask, Handled DEF AwaitUser, Reaches, At, Issues, Rejected,
     loginVars, TypeOK, Task, Beginnings, Unpublished
<1>13. ASSUME NEW a \in Logins, Verifying(a)
       PROVE  Beginnings'
  BY <1>13, ContinuedTask, RaisedTask, Handled DEF Verifying, At, Rejected,
     TypeOK, Beginnings, Unpublished
<1>14. ASSUME NEW a \in Logins, PromoteLogin(a)
       PROVE  Beginnings'
  BY <1>14, RaisedTask, Handled DEF PromoteLogin, At, TypeOK, Task, Gone,
     Beginnings, Unpublished
<1>15. ASSUME NEW a \in Logins, DiscardSource(a) \/ FinishFork(a)
       PROVE  Beginnings'
  BY <1>15, ContinuedTask, Handled DEF DiscardSource, FinishFork, At,
     loginVars, Beginnings, Unpublished
<1>16. ASSUME NEW a \in Logins, CleanUp(a)
       PROVE  Beginnings'
  BY <1>16 DEF CleanUp, loginVars, TypeOK, Task, Beginnings, Unpublished
<1>17. ASSUME NEW a \in Logins, FailLogin(a)
       PROVE  Beginnings'
  BY <1>17 DEF FailLogin, NoTask, loginVars, TypeOK, Task, Failed,
     Beginnings, Unpublished
<1>18. ASSUME NEW a \in Logins, ForkUse(a)
       PROVE  Beginnings'
  BY <1>18, ContinuedTask, RaisedTask, Handled DEF ForkUse, At, Rejected,
     loginVars, Beginnings, Unpublished
<1>19. ASSUME NEW a \in Logins, Rotate(a)
       PROVE  Beginnings'
  BY SMTT(30), <1>19, RaisedTask, Handled DEF Rotate, Reaches, At, loginVars, TypeOK,
     Task, Beginnings, Unpublished
<1>20. ASSUME NEW a \in Logins, PersistFork(a)
       PROVE  Beginnings'
  BY <1>20 DEF PersistFork, At, loginVars, Beginnings, Unpublished
<1>21. ASSUME NEW a \in Logins, CleanFork(a)
       PROVE  Beginnings'
  BY <1>21 DEF CleanFork, At, loginVars, Beginnings, Unpublished
<1>22. ASSUME NEW a \in Logins, AbandonFork(a)
       PROVE  Beginnings'
  BY <1>22 DEF AbandonFork, At, AfterFork, loginVars, TypeOK, Beginnings,
     Unpublished
<1>23. ASSUME NEW a \in Logins, UnfinishFork(a)
       PROVE  Beginnings'
  BY <1>23 DEF UnfinishFork, At, AfterFork, loginVars, TypeOK, Beginnings,
     Unpublished
<1>24. ASSUME NEW a \in Logins, Unfork(a)
       PROVE  Beginnings'
  BY <1>24 DEF Unfork, At, loginVars, TypeOK, Beginnings, Unpublished
<1>25. ASSUME NEW a \in Logins, BranchFork(a)
       PROVE  Beginnings'
  BY <1>25, RaisedTask, Handled DEF BranchFork, Reaches, At, Rejected,
     loginVars, TypeOK, Task, Beginnings, Unpublished
<1>26. ASSUME NEW a \in Logins, CommitLogin(a)
       PROVE  Beginnings'
  BY <1>26, RaisedTask, Handled DEF CommitLogin, At, Cancelled, NoTask,
     Rejected, loginVars, TypeOK, Beginnings, Unpublished
<1>27. ASSUME NEW a \in Logins, Interrupted(a)
       PROVE  Beginnings'
  BY <1>27, RaisedTask, Handled DEF Interrupted, Interruptible, Locked,
     Cancelled, loginVars, Beginnings, Unpublished
<1>28. ASSUME NEW a \in Logins, CancelRequest(a)
       PROVE  Beginnings'
  BY <1>28 DEF CancelRequest, CancelAt, loginVars, Beginnings
<1>29. ASSUME NEW a \in Logins, CancelLogin(a)
       PROVE  Beginnings'
  BY <1>29 DEF CancelLogin, CancelAt, TypeOK, Beginnings
<1>30. ASSUME NEW a \in Logins, CancelBegin(a) \/ CancelLook(a) \/ CancelSend(a)
       PROVE  Beginnings'
  BY <1>30 DEF CancelBegin, CancelLook, CancelSend, CancelAt, loginVars, TypeOK,
     Beginnings
<1>31. ASSUME NEW a \in Logins, CancelState(a)
       PROVE  Beginnings'
  BY <1>31 DEF CancelState, CancelAt, Beginnings
<1>32. ASSUME NEW a \in Logins, CancelOperation(a)
       PROVE  Beginnings'
  BY <1>32 DEF CancelOperation, CancelAt, Beginnings
<1>33. ASSUME NEW a \in Logins, CancelTask(a)
       PROVE  Beginnings'
  BY <1>33 DEF CancelTask, CancelAt, At, loginVars, TypeOK, Task, Beginnings
<1>34. ASSUME NEW a \in Logins, CancelUndo(a)
       PROVE  Beginnings'
  BY <1>34 DEF CancelUndo, Undone, CancelAt, Beginnings
<1>35. ASSUME NEW a \in Logins, CancelInterrupted(a)
       PROVE  Beginnings'
  BY <1>35 DEF CancelInterrupted, Cancelling, CancelAt, loginVars, Beginnings
<1>36. CASE Close
  BY <1>36 DEF Close, loginVars, TypeOK, Task, Beginnings
<1>37. CASE Restart
  BY <1>37 DEF Restart, NoTask, Requesting, Cancelling, Beginnings, Unpublished
<1>38. ASSUME NEW a \in Logins, BootLogin(a) \/ BootFork(a) PROVE Beginnings'
  <2>1. /\ UNCHANGED <<login, operation, interactions, cancel>>
        /\ \A b \in Logins \ {a} : task'[b] = task[b]
        /\ task[a].pc \notin {"free", "asked"}
        /\ task'[a].pc \notin {"free", "asked", "created"}
        /\ task'[a].pc \in Unpublished => task[a].pc \in Unpublished
    BY <1>38, Booted, BootFrame DEF Unpublished
  <2>. QED
    BY <2>1 DEF Beginnings
<1>39. ASSUME NEW a \in Logins, CaptureFork(a) PROVE Beginnings'
  <2>1. /\ UNCHANGED <<login, operation, interactions, cancel>>
        /\ \A b \in Logins \ {a} : task'[b] = task[b]
        /\ task[a].pc = "capture" /\ task'[a].pc \in {"persist", "unfork"}
    BY <1>39, RaisedTask, Handled DEF CaptureFork, At, TypeOK, Task, loginVars
  <2>. QED
    BY <2>1 DEF Beginnings, Unpublished
<1>40. ASSUME NEW a \in Logins, Verify(a) PROVE Beginnings'
  <2>1. /\ UNCHANGED <<login, operation, interactions, cancel>>
        /\ \A b \in Logins \ {a} : task'[b] = task[b]
        /\ task[a].pc = "verify" /\ task'[a].pc \in {"promote", "keep"}
    BY <1>40, RaisedTask, Handled DEF Verify, At, TypeOK, Task, loginVars
  <2>. QED
    BY <2>1 DEF Beginnings, Unpublished
<1>. QED
  BY <1>1, <1>2, <1>3, <1>4, <1>5, <1>6, <1>7, <1>8, <1>9, <1>10, <1>11,
     <1>12, <1>13, <1>14, <1>15, <1>16, <1>17, <1>18, <1>19, <1>20, <1>21,
     <1>22, <1>23, <1>24, <1>25, <1>26, <1>27, <1>28, <1>29, <1>30, <1>31,
     <1>32, <1>33, <1>34, <1>35, <1>36, <1>37, <1>38, <1>39,
     <1>40 DEF Next, LoginStep, CancelStep, CallStep, StopStep

(* An accepted cancellation stays in force: the compare-and-set of every   *)
(* later step of the sign-in fails.                                        *)
LEMMA CancellationStep ==
    ASSUME TypeOK, Beginnings, CancelAccepted, [Next]_vars
    PROVE  CancelAccepted'
<1>t. task \in [Logins -> Task]
  BY DEF TypeOK
<1>1. CASE UNCHANGED <<cancel, login, task, phase>>
  BY <1>1 DEF CancelAccepted
<1>2. CASE CallRequest \/ CallEnter \/ CallUse \/ CallStart \/ CallCodex \/
           CallCheckpoint \/ CallPromote \/ CallCleanUp \/ CallFinish
  BY <1>1, <1>2 DEF CallRequest, CallEnter, CallUse, CallStart, CallCodex,
     CallCheckpoint, CallPromote, CallCleanUp, CallFinish, loginVars,
     processVars
<1>3. CASE CallRecord \/ CallInterrupted \/ StopLook \/ StopRuntime \/
           CloseRuntimes \/ DeleteAccount \/ UNCHANGED vars
  BY <1>1, <1>3 DEF CallRecord, CallInterrupted, StopLook, StopRuntime,
     CloseRuntimes, DeleteAccount, loginVars, processVars, vars
<1>4. ASSUME NEW deletes \in BOOLEAN, StopRequest(deletes)
      PROVE  CancelAccepted'
  BY <1>1, <1>4 DEF StopRequest, loginVars, processVars
<1>5. ASSUME NEW a \in Logins, NEW recover \in BOOLEAN, StartLogin(a, recover)
      PROVE  CancelAccepted'
  BY <1>5 DEF StartLogin, TypeOK, CancelAccepted
<1>6. ASSUME NEW a \in Logins, RecordLogin(a)
      PROVE  CancelAccepted'
  <2>1. /\ task[a].pc = "asked" /\ cancel[a] = "none" /\ UNCHANGED <<cancel, phase>>
        /\ \A b \in Logins \ {a} : task'[b] = task[b] /\ login'[b] = login[b]
        /\ ~task'[a].cut
    BY SMTT(30), <1>t, <1>6 DEF RecordLogin, At, NoTask, processVars, Task, Beginnings, Unpublished,
       TypeOK
  <2>. QED
    BY <2>1 DEF CancelAccepted
<1>7. ASSUME NEW a \in Logins, EnterLogin(a)
      PROVE  CancelAccepted'
  BY <1>7 DEF EnterLogin, processVars, CancelAccepted
<1>8. ASSUME NEW a \in Logins, StartingRuntime(a)
      PROVE  CancelAccepted'
  BY <1>8, ContinuedTask DEF StartingRuntime, At, processVars, Beginnings,
     Unpublished, CancelAccepted
<1>9. ASSUME NEW a \in Logins, StartingLogin(a)
      PROVE  CancelAccepted'
  BY <1>9, ContinuedTask DEF StartingLogin, At, processVars, Beginnings,
     Unpublished, CancelAccepted
<1>10. ASSUME NEW a \in Logins, AskLogin(a)
       PROVE  CancelAccepted'
  <2>1. /\ UNCHANGED <<login, cancel, phase>> /\ ~task[a].cut
        /\ \A b \in Logins \ {a} : task'[b] = task[b]
        /\ ~task'[a].cut
    BY <1>t, <1>10, RaisedTask DEF AskLogin, Reaches, loginVars, processVars, Task
  <2>. QED
    BY <2>1 DEF CancelAccepted
<1>11. ASSUME NEW a \in Logins, Ready(a)
       PROVE  CancelAccepted'
  BY <1>11, ContinuedTask, RaisedTask DEF Ready, Rejected, loginVars,
     processVars, TypeOK, CancelAccepted, Cancellable
<1>12. ASSUME NEW a \in Logins, AwaitUser(a)
       PROVE  CancelAccepted'
  BY <1>12, RaisedTask DEF AwaitUser, Issues, Rejected, loginVars,
     processVars, TypeOK, Task, CancelAccepted
<1>13. ASSUME NEW a \in Logins, Verifying(a)
       PROVE  CancelAccepted'
  BY <1>13, ContinuedTask, RaisedTask DEF Verifying, Rejected, processVars,
     TypeOK, CancelAccepted, Cancellable
<1>14. ASSUME NEW a \in Logins, Verify(a)
       PROVE  CancelAccepted'
  BY SMTT(30), <1>14, RaisedTask DEF Verify, loginVars, processVars, TypeOK, Task,
     Steps, Holding, Locked, Beginnings, Unpublished, CancelAccepted
<1>15. ASSUME NEW a \in Logins, PromoteLogin(a)
       PROVE  CancelAccepted'
  BY SMTT(30), <1>15, RaisedTask, Handled DEF PromoteLogin, Promotable, processVars,
     TypeOK, Task, CancelAccepted, Cancellable
<1>16. ASSUME NEW a \in Logins, DiscardSource(a) \/ FinishFork(a)
       PROVE  CancelAccepted'
  BY <1>16, ContinuedTask DEF DiscardSource, FinishFork, loginVars,
     processVars, CancelAccepted
<1>17. ASSUME NEW a \in Logins, CleanUp(a)
       PROVE  CancelAccepted'
  BY SMTT(30), <1>17 DEF CleanUp, loginVars, processVars, TypeOK, Task, CancelAccepted
<1>18. ASSUME NEW a \in Logins, FailLogin(a)
       PROVE  CancelAccepted'
  BY <1>18 DEF FailLogin, Unfinished, Cancellable, NoTask, loginVars,
     processVars, TypeOK, Task, Failed, CancelAccepted
<1>19. ASSUME NEW a \in Logins, Rotate(a)
       PROVE  CancelAccepted'
  BY <1>19, RaisedTask, Handled DEF Rotate, Issues, loginVars, processVars,
     TypeOK, Task, Steps, Holding, Locked, Shielded, Cleanup, Unpublished,
     CancelAccepted, Unfinished
<1>20. ASSUME NEW a \in Logins, CaptureFork(a)
       PROVE  CancelAccepted'
  BY SMTT(30), <1>20, RaisedTask DEF CaptureFork, At, loginVars, processVars, TypeOK,
     Task, CancelAccepted, Unfinished
<1>21. ASSUME NEW a \in Logins, PersistFork(a)
       PROVE  CancelAccepted'
  BY <1>21 DEF PersistFork, loginVars, processVars, CancelAccepted
<1>22. ASSUME NEW a \in Logins, CleanFork(a)
       PROVE  CancelAccepted'
  BY <1>22 DEF CleanFork, loginVars, processVars, CancelAccepted
<1>23. ASSUME NEW a \in Logins, AbandonFork(a)
       PROVE  CancelAccepted'
  BY <1>23 DEF AbandonFork, loginVars, processVars, TypeOK, CancelAccepted
<1>24. ASSUME NEW a \in Logins, Unfork(a)
       PROVE  CancelAccepted'
  BY <1>24 DEF Unfork, loginVars, processVars, TypeOK, CancelAccepted
<1>25. ASSUME NEW a \in Logins, UnfinishFork(a)
       PROVE  CancelAccepted'
  BY <1>25 DEF UnfinishFork, loginVars, processVars, TypeOK, CancelAccepted
<1>26. ASSUME NEW a \in Logins, BranchFork(a)
       PROVE  CancelAccepted'
  <2>1. /\ UNCHANGED <<login, cancel, phase>> /\ ~task[a].cut
        /\ \A b \in Logins \ {a} : task'[b] = task[b]
        /\ ~task'[a].cut
    BY <1>t, <1>26, RaisedTask DEF BranchFork, Rejected, Reaches, loginVars, processVars,
       Task
  <2>. QED
    BY <2>1 DEF CancelAccepted
<1>27. ASSUME NEW a \in Logins, CommitLogin(a)
       PROVE  CancelAccepted'
  BY <1>27, RaisedTask DEF CommitLogin, NoTask, Rejected, loginVars,
     processVars, TypeOK, CancelAccepted
<1>28. ASSUME NEW a \in Logins, Interrupted(a)
       PROVE  CancelAccepted'
  BY <1>28, RaisedTask DEF Interrupted, Cancelled, loginVars, processVars,
     CancelAccepted
<1>29. ASSUME NEW a \in Logins, CancelRequest(a)
       PROVE  CancelAccepted'
  BY <1>29 DEF CancelRequest, CancelAt, loginVars, CancelAccepted
<1>30. ASSUME NEW a \in Logins, CancelLogin(a)
       PROVE  CancelAccepted'
  BY <1>30 DEF CancelLogin, Cancellable, CancelAt, processVars, TypeOK,
     CancelAccepted
<1>31. ASSUME NEW a \in Logins, CancelBegin(a) \/ CancelLook(a) \/
             CancelSend(a) \/ CancelTask(a)
       PROVE  CancelAccepted'
  BY <1>31 DEF CancelBegin, CancelLook, CancelSend, CancelTask, CancelAt,
     loginVars, processVars, TypeOK, CancelAccepted
<1>32. ASSUME NEW a \in Logins, CancelState(a)
       PROVE  CancelAccepted'
  BY <1>32 DEF CancelState, CancelAt, processVars, TypeOK, CancelAccepted,
     Cancellable, Unfinished
<1>33. ASSUME NEW a \in Logins, CancelOperation(a)
       PROVE  CancelAccepted'
  BY <1>33 DEF CancelOperation, CancelAt, processVars, CancelAccepted
<1>34. ASSUME NEW a \in Logins, CancelUndo(a)
       PROVE  CancelAccepted'
  BY <1>34 DEF CancelUndo, Undone, CancelAt, CancelAccepted, Cancellable
<1>35. ASSUME NEW a \in Logins, CancelInterrupted(a)
       PROVE  CancelAccepted'
  BY <1>35 DEF CancelInterrupted, Cancelling, CancelAt, loginVars,
     processVars, CancelAccepted
<1>36. CASE Close
  BY <1>36 DEF Close, loginVars, CancelAccepted
<1>37. CASE Restart
  BY <1>37 DEF Restart, Unfinished, Cancellable, NoTask, Requesting,
     Cancelling, CancelAccepted
<1>38. ASSUME NEW a \in Logins, BootLogin(a) \/ BootFork(a)
      PROVE  CancelAccepted'
  <2>1. /\ UNCHANGED <<login, cancel, phase>> /\ task'[a].cut = FALSE
        /\ task'[a].pc # "free" /\ \A b \in Logins \ {a} : task'[b] = task[b]
    BY <1>38, Booted, BootFrame
  <2>. QED
    BY <2>1 DEF CancelAccepted, UnfinishedIsAttended
<1>39. ASSUME NEW a \in Logins, ForkUse(a) PROVE CancelAccepted'
  <2>1. /\ ~task'[a].cut /\ \A b \in Logins \ {a} : task'[b] = task[b]
    BY <1>39, RaisedTask, ContinuedTask DEF ForkUse, Rejected
  <2>. QED
    BY <1>39, <2>1 DEF ForkUse, CancelAccepted, loginVars, processVars
<1>. QED
  BY <1>1, <1>2, <1>3, <1>4, <1>5, <1>6, <1>7, <1>8, <1>9, <1>10, <1>11,
     <1>12, <1>13, <1>14, <1>15, <1>16, <1>17, <1>18, <1>19, <1>20, <1>21,
     <1>22, <1>23, <1>24, <1>25, <1>26, <1>27, <1>28, <1>29, <1>30, <1>31,
     <1>32, <1>33, <1>34, <1>35, <1>36, <1>37, <1>38,
     <1>39 DEF Next, LoginStep, CancelStep, CallStep, StopStep

(* A task leaves its row final, or a cancellation that will.               *)
LEMMA AttendedStep ==
    ASSUME TypeOK, Beginnings, CancelAccepted, UnfinishedIsAttended,
           [Next]_vars
    PROVE  UnfinishedIsAttended'
<1>t. task \in [Logins -> Task]
  BY DEF TypeOK
<1>1. CASE UNCHANGED <<login, task, cancel, phase>>
  BY <1>1 DEF UnfinishedIsAttended
<1>2. CASE CallRequest \/ CallEnter \/ CallUse \/ CallStart \/ CallCodex \/
           CallCheckpoint \/ CallPromote \/ CallCleanUp \/ CallFinish
  BY <1>1, <1>2 DEF CallRequest, CallEnter, CallUse, CallStart, CallCodex,
     CallCheckpoint, CallPromote, CallCleanUp, CallFinish, loginVars,
     processVars
<1>3. CASE CallRecord \/ CallInterrupted \/ StopLook \/ StopRuntime \/
           CloseRuntimes \/ DeleteAccount \/ UNCHANGED vars
  BY <1>1, <1>3 DEF CallRecord, CallInterrupted, StopLook, StopRuntime,
     CloseRuntimes, DeleteAccount, loginVars, processVars, vars
<1>4. ASSUME NEW deletes \in BOOLEAN, StopRequest(deletes)
      PROVE  UnfinishedIsAttended'
  BY <1>1, <1>4 DEF StopRequest, loginVars, processVars
<1>5. ASSUME NEW a \in Logins, NEW recover \in BOOLEAN, StartLogin(a, recover)
      PROVE  UnfinishedIsAttended'
  BY <1>5 DEF StartLogin, TypeOK, UnfinishedIsAttended
<1>6. ASSUME NEW a \in Logins, RecordLogin(a)
      PROVE  UnfinishedIsAttended'
  BY <1>6 DEF RecordLogin, At, Unfinished, Cancellable, processVars, TypeOK,
     Task, Beginnings, UnfinishedIsAttended
<1>7. ASSUME NEW a \in Logins, EnterLogin(a)
      PROVE  UnfinishedIsAttended'
  BY <1>7 DEF EnterLogin, processVars, UnfinishedIsAttended
<1>8. ASSUME NEW a \in Logins, CancelInterrupted(a)
      PROVE  UnfinishedIsAttended'
  BY <1>8 DEF CancelInterrupted, processVars, UnfinishedIsAttended
<1>9. ASSUME NEW a \in Logins, StartingRuntime(a)
      PROVE  UnfinishedIsAttended'
  BY <1>9, ContinuedTask DEF StartingRuntime, At, processVars, Beginnings,
     Unpublished, CancelAccepted, UnfinishedIsAttended
<1>10. ASSUME NEW a \in Logins, StartingLogin(a)
       PROVE  UnfinishedIsAttended'
  BY <1>10, ContinuedTask DEF StartingLogin, At, processVars, Beginnings,
     Unpublished, CancelAccepted, UnfinishedIsAttended
<1>11. ASSUME NEW a \in Logins, AskLogin(a)
       PROVE  UnfinishedIsAttended'
  BY SMTT(30), <1>11, RaisedTask, Handled DEF AskLogin, Reaches, At, loginVars,
     processVars, TypeOK, Task, Cancellable, Unfinished, UnfinishedIsAttended
<1>12. ASSUME NEW a \in Logins, Ready(a)
       PROVE  UnfinishedIsAttended'
  BY <1>12, ContinuedTask, RaisedTask, Handled DEF Ready, At, Rejected,
     loginVars, processVars, TypeOK, UnfinishedIsAttended
<1>13. ASSUME NEW a \in Logins, AwaitUser(a)
       PROVE  UnfinishedIsAttended'
  BY <1>13, RaisedTask, Handled DEF AwaitUser, Reaches, At, Issues, Rejected,
     loginVars, processVars, TypeOK, Task, UnfinishedIsAttended
<1>14. ASSUME NEW a \in Logins, Verifying(a)
       PROVE  UnfinishedIsAttended'
  BY <1>14, ContinuedTask, RaisedTask, Handled DEF Verifying, At, Rejected,
     processVars, TypeOK, UnfinishedIsAttended
<1>15. ASSUME NEW a \in Logins, Verify(a)
       PROVE  UnfinishedIsAttended'
  BY <1>15, RaisedTask, Handled DEF Verify, At, loginVars, processVars,
     TypeOK, Task, UnfinishedIsAttended
<1>16. ASSUME NEW a \in Logins, PromoteLogin(a)
       PROVE  UnfinishedIsAttended'
  BY <1>16, RaisedTask, Handled DEF PromoteLogin, At, processVars, TypeOK,
     Task, Steps, UnfinishedIsAttended, Cancelling
<1>17. ASSUME NEW a \in Logins, DiscardSource(a) \/ FinishFork(a)
       PROVE  UnfinishedIsAttended'
  BY <1>17, ContinuedTask DEF DiscardSource, FinishFork, loginVars,
     processVars, CancelAccepted, UnfinishedIsAttended
<1>18. ASSUME NEW a \in Logins, CleanUp(a)
       PROVE  UnfinishedIsAttended'
  BY <1>18, RaisedTask, Handlers DEF CleanUp, loginVars, processVars, TypeOK,
     Task, UnfinishedIsAttended, Cancelling
<1>19. ASSUME NEW a \in Logins, FailLogin(a)
       PROVE  UnfinishedIsAttended'
  <2>1. /\ UNCHANGED <<cancel, phase>> /\ \A b \in Logins \ {a} : task'[b] = task[b]
        /\ \A b \in Logins \ {a} : login'[b] = login[b]
    BY <1>t, <1>19 DEF FailLogin, loginVars, processVars, TypeOK
  <2>2. \/ login'[a] \notin Unfinished
        \/ login'[a] = login[a] /\ task[a].cut
    <3>1. task[a].to \notin Unfinished
      BY <1>t DEF Task, Failed, Unfinished, Cancellable
    <3>2. CASE LeftAlone(a) /\ UNCHANGED loginVars
      BY <3>2 DEF LeftAlone, loginVars, Unfinished, Cancellable
    <3>3. CASE task[a].cut /\ UNCHANGED loginVars
      BY <3>3 DEF loginVars
    <3>4. CASE login' = [login EXCEPT ![a] = task[a].to]
      BY <3>1, <3>4 DEF TypeOK
    <3>5. CASE login[a] \notin Failable /\ login' = login
      BY <3>5 DEF Failable
    <3>. QED
      BY <1>19, <3>2, <3>3, <3>4, <3>5 DEF FailLogin
  <2>3. login'[a] \in Unfinished => cancel[a] \in Cancelling \cup {"accepted"} \/ phase = "closing"
    BY <2>2 DEF CancelAccepted
  <2>. QED
    BY <2>1, <2>3 DEF UnfinishedIsAttended
<1>20. ASSUME NEW a \in Logins, ForkUse(a)
       PROVE  UnfinishedIsAttended'
  BY <1>20, ContinuedTask, RaisedTask, Handled DEF ForkUse, At, Rejected,
     loginVars, processVars, UnfinishedIsAttended
<1>21. ASSUME NEW a \in Logins, PersistFork(a)
       PROVE  UnfinishedIsAttended'
  BY <1>21 DEF PersistFork, loginVars, processVars, UnfinishedIsAttended
<1>22. ASSUME NEW a \in Logins, CleanFork(a)
       PROVE  UnfinishedIsAttended'
  BY <1>22 DEF CleanFork, loginVars, processVars, UnfinishedIsAttended
<1>23. ASSUME NEW a \in Logins, AbandonFork(a)
       PROVE  UnfinishedIsAttended'
  BY <1>23 DEF AbandonFork, AfterFork, loginVars, processVars, TypeOK,
     UnfinishedIsAttended
<1>24. ASSUME NEW a \in Logins, UnfinishFork(a)
       PROVE  UnfinishedIsAttended'
  BY <1>24 DEF UnfinishFork, AfterFork, loginVars, processVars, TypeOK,
     UnfinishedIsAttended
<1>25. ASSUME NEW a \in Logins, Unfork(a)
       PROVE  UnfinishedIsAttended'
  BY <1>25 DEF Unfork, loginVars, processVars, TypeOK, UnfinishedIsAttended
<1>26. ASSUME NEW a \in Logins, CommitLogin(a)
       PROVE  UnfinishedIsAttended'
  BY <1>26, RaisedTask, Handled DEF CommitLogin, At, Cancelled, Rejected,
     loginVars, processVars, TypeOK, Steps, Cancellable, Unfinished,
     UnfinishedIsAttended, Cancelling
<1>27. ASSUME NEW a \in Logins, Interrupted(a)
       PROVE  UnfinishedIsAttended'
  BY <1>27, RaisedTask DEF Interrupted, Cancelled, loginVars, processVars,
     CancelAccepted, UnfinishedIsAttended
<1>28. ASSUME NEW a \in Logins, CancelRequest(a)
       PROVE  UnfinishedIsAttended'
  BY <1>28 DEF CancelRequest, CancelAt, loginVars, UnfinishedIsAttended,
     Cancelling
<1>29. ASSUME NEW a \in Logins, CancelLogin(a) \/ CancelState(a) \/
             CancelOperation(a)
       PROVE  UnfinishedIsAttended'
  BY <1>29 DEF CancelLogin, CancelState, CancelOperation, CancelAt,
     processVars, TypeOK, UnfinishedIsAttended, Cancelling
<1>30. ASSUME NEW a \in Logins, CancelBegin(a) \/ CancelLook(a) \/ CancelSend(a)
       PROVE  UnfinishedIsAttended'
  BY <1>30 DEF CancelBegin, CancelLook, CancelSend, CancelAt, loginVars,
     processVars, TypeOK, UnfinishedIsAttended, Cancelling
<1>31. ASSUME NEW a \in Logins, CancelTask(a)
       PROVE  UnfinishedIsAttended'
  BY <1>31 DEF CancelTask, CancelAt, loginVars, CancelAccepted,
     UnfinishedIsAttended
<1>32. ASSUME NEW a \in Logins, CancelUndo(a)
       PROVE  UnfinishedIsAttended'
  BY <1>32 DEF CancelUndo, Undone, CancelAt, TypeOK, Cancellable, Unfinished,
     UnfinishedIsAttended
<1>33. CASE Close
  BY <1>33 DEF Close, UnfinishedIsAttended
<1>34. CASE Restart
  BY <1>34 DEF Restart, Unfinished, Cancellable, UnfinishedIsAttended
<1>35. ASSUME NEW a \in Logins, BootLogin(a) \/ BootFork(a)
      PROVE  UnfinishedIsAttended'
  <2>1. /\ UNCHANGED <<login, cancel, phase>> /\ task'[a].cut = FALSE
        /\ task'[a].pc # "free" /\ \A b \in Logins \ {a} : task'[b] = task[b]
    BY <1>35, Booted, BootFrame
  <2>. QED
    BY <2>1 DEF CancelAccepted, UnfinishedIsAttended
<1>36. ASSUME NEW a \in Logins, CaptureFork(a) \/ BranchFork(a) PROVE UnfinishedIsAttended'
  <2>1. /\ task'[a].pc # "free" /\ \A b \in Logins \ {a} : task'[b] = task[b]
    BY <1>36, RaisedTask, Handlers DEF CaptureFork, BranchFork, Rejected, TypeOK, Task, Cleanup
  <2>. QED
    BY <1>36, <2>1 DEF CaptureFork, BranchFork, UnfinishedIsAttended, loginVars, processVars
<1>37. ASSUME NEW a \in Logins, Rotate(a) PROVE UnfinishedIsAttended'
  <2>1. /\ \A b \in Logins \ {a} : task'[b] = task[b]
        /\ task'[a].pc \in {"capture", "unfork"}
    BY <1>37, RaisedTask, Handled DEF Rotate, Reaches, At, TypeOK, Task
  <2>2. UNCHANGED <<login, cancel, phase>>
    BY <1>37 DEF Rotate, loginVars, processVars
  <2>. QED
    BY <2>1, <2>2 DEF UnfinishedIsAttended
<1>. QED
  BY <1>1, <1>2, <1>3, <1>4, <1>5, <1>6, <1>7, <1>8, <1>9, <1>10, <1>11,
     <1>12, <1>13, <1>14, <1>15, <1>16, <1>17, <1>18, <1>19, <1>20, <1>21,
     <1>22, <1>23, <1>24, <1>25, <1>26, <1>27, <1>28, <1>29, <1>30, <1>31,
     <1>32, <1>33, <1>34, <1>35, <1>36,
     <1>37 DEF Next, LoginStep, CancelStep, CallStep, StopStep

-----------------------------------------------------------------------------
(* No step invents a credential.                                           *)
LEMMA IssuedStep ==
    ASSUME TypeOK, TreesThere, IssuedBefore, [Next]_vars
    PROVE  IssuedBefore'
<1>t. /\ issued \in Nat /\ active \in Nat /\ live \in Nat /\ call.source \in Nat
      /\ \A t \in Trees : file[t] \in Int
      /\ \A b \in Logins : task[b].source \in Nat /\ task[b].payload \in Nat
  BY DEF TypeOK, Task, Call, Credentials, None, Gone
<1>1. CASE UNCHANGED <<active, live, issued, file, call, task>>
  BY <1>1 DEF IssuedBefore
<1>2. ASSUME NEW a \in Logins, CancelRequest(a) \/ CancelLogin(a) \/
             CancelBegin(a) \/ CancelLook(a) \/ CancelSend(a) \/
             CancelState(a) \/ CancelOperation(a) \/
             CancelUndo(a) \/ CancelInterrupted(a)
      PROVE  IssuedBefore'
  BY <1>1, <1>2 DEF CancelRequest, CancelLogin, CancelBegin, CancelLook,
     CancelSend, CancelState,
     CancelOperation, CancelUndo, CancelInterrupted, bundleVars, runtimeVars,
     issueVars
<1>3. CASE StopLook \/ UNCHANGED vars
  BY <1>1, <1>3 DEF StopLook, bundleVars, runtimeVars, issueVars, vars
<1>4. ASSUME NEW deletes \in BOOLEAN, StopRequest(deletes)
      PROVE  IssuedBefore'
  BY <1>1, <1>4 DEF StopRequest, bundleVars, runtimeVars, issueVars
<1>5. ASSUME NEW a \in Logins, NEW recover \in BOOLEAN, StartLogin(a, recover)
      PROVE  IssuedBefore'
  BY <1>5 DEF StartLogin, bundleVars, runtimeVars, issueVars, TypeOK,
     IssuedBefore
<1>6. ASSUME NEW a \in Logins, EnterLogin(a)
      PROVE  IssuedBefore'
  BY <1>6 DEF EnterLogin, bundleVars, runtimeVars, issueVars, IssuedBefore
<1>7. ASSUME NEW a \in Logins, CancelTask(a)
      PROVE  IssuedBefore'
  BY <1>7 DEF CancelTask, bundleVars, runtimeVars, issueVars, IssuedBefore
<1>8. ASSUME NEW a \in Logins, StartingRuntime(a) \/ StartingLogin(a) \/
             FinishFork(a)
      PROVE  IssuedBefore'
  BY <1>8, ContinuedTask DEF StartingRuntime, StartingLogin, FinishFork,
     bundleVars, runtimeVars, issueVars, IssuedBefore
<1>9. ASSUME NEW a \in Logins, AskLogin(a)
      PROVE  IssuedBefore'
  BY <1>9, RaisedTask, Handled DEF AskLogin, bundleVars, runtimeVars,
     issueVars, TypeOK, Task, Steps, Locked, WithRuntime, IssuedBefore
<1>10. ASSUME NEW a \in Logins, Ready(a) \/ Verifying(a) \/ ForkUse(a)
       PROVE  IssuedBefore'
  BY <1>10, ContinuedTask, RaisedTask DEF Ready, Verifying, ForkUse,
     Rejected, bundleVars, runtimeVars, issueVars, IssuedBefore
<1>11. ASSUME NEW a \in Logins, DiscardSource(a)
       PROVE  IssuedBefore'
  BY <1>11, ContinuedTask DEF DiscardSource, Discard, Gone, bundleVars,
     issueVars, TypeOK, IssuedBefore
<1>12. ASSUME NEW a \in Logins, FailLogin(a)
       PROVE  IssuedBefore'
  BY <1>12 DEF FailLogin, None, NoTask, bundleVars, runtimeVars, issueVars,
     TypeOK, IssuedBefore
<1>13. ASSUME NEW a \in Logins, CaptureFork(a)
       PROVE  IssuedBefore'
  BY SMTT(30), <1>13, RaisedTask, Handled DEF CaptureFork, At, bundleVars, runtimeVars,
     issueVars, TypeOK, Task, Steps, Locked, Shielded, None, Call, Stop,
     TreesThere, IssuedBefore
<1>14. ASSUME NEW a \in Logins, PersistFork(a)
       PROVE  IssuedBefore'
  BY <1>14 DEF PersistFork, runtimeVars, issueVars, IssuedBefore
<1>15. ASSUME NEW a \in Logins, CleanFork(a)
       PROVE  IssuedBefore'
  BY <1>15 DEF CleanFork, Discard, Gone, bundleVars, issueVars, TypeOK,
     IssuedBefore
<1>16. ASSUME NEW a \in Logins, Unfork(a)
       PROVE  IssuedBefore'
  BY <1>16 DEF Unfork, Archive, Preserve, bundleVars, issueVars, TypeOK,
     IssuedBefore
<1>17. ASSUME NEW a \in Logins, UnfinishFork(a)
       PROVE  IssuedBefore'
  BY <1>17 DEF UnfinishFork, bundleVars, runtimeVars, issueVars, TypeOK,
     IssuedBefore
<1>18. ASSUME NEW a \in Logins, CommitLogin(a)
       PROVE  IssuedBefore'
  BY <1>18, RaisedTask DEF CommitLogin, Cancelled, NoTask, None, Rejected,
     bundleVars, runtimeVars, issueVars, TypeOK, IssuedBefore
<1>19. ASSUME NEW a \in Logins, Interrupted(a)
       PROVE  IssuedBefore'
  BY <1>19, RaisedTask DEF Interrupted, Cancelled, bundleVars, runtimeVars,
     issueVars, IssuedBefore
<1>20. CASE CallRequest
  BY <1>20 DEF CallRequest, CallGoes, bundleVars, runtimeVars, issueVars,
     IssuedBefore
<1>21. CASE CallEnter
  BY <1>21 DEF CallEnter, NoCall, bundleVars, runtimeVars, issueVars,
     IssuedBefore
<1>22. CASE CallUse
  BY <1>22 DEF CallUse, CallGoes, NoCall, None, bundleVars, runtimeVars,
     issueVars, TypeOK, Call, IssuedBefore
<1>23. CASE CallPromote
  BY <1>23 DEF CallPromote, CallGoes, runtimeVars, issueVars, IssuedBefore
<1>24. CASE CallCleanUp
  BY <1>24 DEF CallCleanUp, Discard, Gone, CallGoes, Preserve, bundleVars,
     issueVars, TypeOK, Call, IssuedBefore
<1>25. CASE CallFinish \/ CallRecord \/ CallInterrupted
  BY <1>25 DEF CallFinish, CallRecord, CallInterrupted, NoCall, None,
     bundleVars, runtimeVars, issueVars, TypeOK, IssuedBefore
<1>26. CASE StopRuntime \/ CloseRuntimes
  BY <1>26 DEF StopRuntime, CloseRuntimes, Discard, Gone, bundleVars, issueVars, TypeOK,
     IssuedBefore
<1>27. CASE DeleteAccount
  BY <1>27 DEF DeleteAccount, None, runtimeVars, TypeOK, IssuedBefore
<1>28. CASE Restart
  BY <1>28 DEF Restart, NoTask, None, NoCall, Gone, bundleVars, issueVars,
     TypeOK, IssuedBefore
<1>29. ASSUME NEW a \in Logins, BootLogin(a) \/ BootFork(a) PROVE IssuedBefore'
  <2>1. /\ UNCHANGED <<active, live, issued, call>>
        /\ \A b \in Logins : task'[b].source = task[b].source /\ task'[b].payload = task[b].payload
    BY <1>29, Booted, BootFrame
  <2>2. \A t \in Trees : file'[t] \in {file[t], None, task[a].source}
    BY <1>29, Booted, BootFrame DEF TypeOK, runtimeVars
  <2>3. None <= issued
    BY ConstantTypes DEF TypeOK, None
  <2>. QED
    BY <2>1, <2>2, <2>3 DEF IssuedBefore
<1>30. ASSUME NEW a \in Logins, RecordLogin(a) PROVE IssuedBefore'
  <2>1. /\ UNCHANGED <<active, call, live, issued, file>>
        /\ \A b \in Logins : \/ /\ task'[b].source = task[b].source
                                /\ task'[b].payload = task[b].payload
                             \/ task'[b] = NoTask
    BY <1>30 DEF RecordLogin, bundleVars, issueVars, runtimeVars, TypeOK, Task
  <2>. QED
    BY <1>t, <2>1 DEF IssuedBefore, NoTask, None
<1>31. ASSUME NEW a \in Logins, AwaitUser(a) \/ Rotate(a) PROVE IssuedBefore'
  <2>1. /\ \A b \in Logins : task'[b].source = task[b].source /\ task'[b].payload = task[b].payload
        /\ UNCHANGED <<active, call>>
    <3>1. CASE AwaitUser(a)
      <4>1. \/ task' = [task EXCEPT ![a].pc = "verifying"]
            \/ \E to : Raises(a, to)
        BY <3>1 DEF AwaitUser, Rejected
      <4>2. CASE task' = [task EXCEPT ![a].pc = "verifying"]
        BY <4>2, <3>1 DEF AwaitUser, TypeOK, Task, bundleVars
      <4>3. CASE \E to : Raises(a, to)
        BY <4>3, <3>1, RaisedTask DEF AwaitUser, bundleVars
      <4>. QED
        BY <4>1, <4>2, <4>3
    <3>2. CASE Rotate(a)
      BY SMTT(30), <3>2, RaisedTask DEF Rotate, TypeOK, Task, bundleVars
    <3>. QED
      BY <1>31, <3>1, <3>2
  <2>2. \/ UNCHANGED <<file, issued, live>>
        \/ /\ issued' = issued + 1 /\ live' \in {live, issued + 1}
           /\ \E t : file' = [file EXCEPT ![t] = issued + 1]
    BY <1>31 DEF AwaitUser, Rotate, Issues, issueVars
  <2>3. CASE UNCHANGED <<file, issued, live>>
    BY <2>1, <2>3 DEF IssuedBefore
  <2>4. CASE ~UNCHANGED <<file, issued, live>>
    <3>1. issued' = issued + 1 /\ live' \in {live, issued + 1}
      BY <2>2, <2>4
    <3>2. \A t \in Trees : file'[t] \in {file[t], issued + 1}
      BY <2>2, <2>4 DEF TypeOK
    <3>. QED
      BY <1>t, <2>1, <3>1, <3>2 DEF IssuedBefore
  <2>. QED
    BY <2>3, <2>4
<1>32. ASSUME NEW a \in Logins, Verify(a) \/ CleanUp(a) \/ AbandonFork(a) \/ BranchFork(a) PROVE IssuedBefore'
  <2>1. UNCHANGED <<active, call, live, issued>>
    BY <1>32 DEF Verify, CleanUp, AbandonFork, BranchFork, bundleVars, issueVars
  <2>2. \A t \in Trees : file'[t] \in {file[t], Gone}
    BY <1>32 DEF Verify, CleanUp, AbandonFork, BranchFork, Discard, Preserve, TypeOK, runtimeVars
  <2>3. \A b \in Logins : task'[b].payload = task[b].payload
    <3>1. CASE Verify(a)
      BY <3>1, RaisedTask DEF Verify, TypeOK, Task
    <3>2. CASE CleanUp(a)
      BY <3>2 DEF CleanUp, TypeOK, Task
    <3>3. CASE AbandonFork(a)
      BY <3>3 DEF AbandonFork, TypeOK, Task
    <3>4. CASE BranchFork(a)
      <4>1. CASE active = None
        BY <3>4, <4>1, RaisedTask DEF BranchFork, Rejected
      <4>2. CASE active # None
        BY SMTT(30), <3>4, <4>2 DEF BranchFork, TypeOK, Task
      <4>. QED
        BY <4>1, <4>2
    <3>. QED
      BY <1>32, <3>1, <3>2, <3>3, <3>4
  <2>4. \A b \in Logins : task'[b].source = task[b].source \/ \E t \in Trees : task'[b].source = file[t]
    <3>1. task[a].pc = "verify" => task[a].tree \in Trees
      BY DEF TreesThere, WithRuntime
    <3>2. CASE Verify(a)
      <4>1. CASE \E to : Raises(a, to)
        BY <4>1, RaisedTask
      <4>2. CASE task' = [task EXCEPT ![a].pc = "promote", ![a].cut = FALSE, ![a].source = file[task[a].tree]]
        BY <3>1, <3>2, <4>2 DEF Verify, At, TypeOK, Task
      <4>. QED
        BY <3>2, <4>1, <4>2 DEF Verify
    <3>3. CASE CleanUp(a)
      BY <3>3 DEF CleanUp, TypeOK, Task
    <3>4. CASE AbandonFork(a)
      BY <3>4 DEF AbandonFork, TypeOK, Task
    <3>5. CASE BranchFork(a)
      <4>1. CASE active = None
        BY <3>5, <4>1, RaisedTask DEF BranchFork, Rejected
      <4>2. CASE active # None
        <5>1. \A b \in Logins : task'[b].source = task[b].source
          <6>1. CASE task' = [task EXCEPT ![a].pc = "commit"]
            BY <6>1 DEF TypeOK, Task
          <6>2. CASE task' = [task EXCEPT ![a].pc = "use", ![a].kind = "EXPORT"]
            BY <6>2 DEF TypeOK, Task
          <6>. QED
            BY <3>5, <4>2, <6>1, <6>2 DEF BranchFork
        <5>. QED
          BY <5>1
      <4>. QED
        BY <4>1, <4>2
    <3>. QED
      BY <1>32, <3>1, <3>2, <3>3, <3>4, <3>5
  <2>. QED
    BY <1>t, <2>1, <2>2, <2>3, <2>4 DEF IssuedBefore, Gone
<1>33. ASSUME NEW a \in Logins, PromoteLogin(a) PROVE IssuedBefore'
  <2>1. \A b \in Logins : task'[b].source = task[b].source /\ task'[b].payload = task[b].payload
    BY <1>33, RaisedTask DEF PromoteLogin, TypeOK, Task
  <2>. QED
    BY <1>33, <2>1 DEF PromoteLogin, IssuedBefore, runtimeVars
<1>34. ASSUME CallStart PROVE IssuedBefore'
  <2>1. call'.source = call.source
    BY <1>34 DEF CallStart, CallGoes, TypeOK, Call
  <2>2. \A t \in Trees : file'[t] \in {file[t], call.source}
    BY <1>34 DEF CallStart, StartFresh, TypeOK, runtimeVars
  <2>. QED
    BY <1>34, <2>1, <2>2 DEF CallStart, IssuedBefore, bundleVars, issueVars
<1>35. ASSUME CallCodex PROVE IssuedBefore'
  <2>1. call'.source = call.source
    BY <1>35 DEF CallCodex, TypeOK, Call
  <2>2. CASE UNCHANGED <<file, issueVars>>
    BY <1>35, <2>1, <2>2 DEF CallCodex, IssuedBefore, bundleVars, issueVars
  <2>3. CASE Issues(call.tree, TRUE)
    <3>1. \A t \in Trees : file'[t] \in {file[t], issued + 1}
      BY <2>3 DEF Issues, TypeOK
    <3>. QED
      BY <1>t, <1>35, <2>1, <2>3, <3>1 DEF CallCodex, Issues, IssuedBefore, bundleVars
  <2>. QED
    BY <1>35, <2>2, <2>3 DEF CallCodex
<1>36. ASSUME CallCheckpoint PROVE IssuedBefore'
  <2>1. call'.source = call.source \/ \E t \in Trees : call'.source = file[t]
    BY <1>36 DEF CallCheckpoint, CallGoes, TypeOK, Call, TreesThere, CallWithRuntime, CallLocked
  <2>. QED
    BY <1>t, <1>36, <2>1 DEF CallCheckpoint, IssuedBefore, bundleVars, issueVars, runtimeVars
<1>37. ASSUME Close PROVE IssuedBefore'
  <2>1. \A b \in Logins : task'[b].source = task[b].source /\ task'[b].payload = task[b].payload
    BY <1>37 DEF Close, TypeOK, Task
  <2>. QED
    BY <1>37, <2>1 DEF Close, IssuedBefore, bundleVars, issueVars, runtimeVars
<1>. QED
  BY <1>1, <1>2, <1>3, <1>4, <1>5, <1>6, <1>7, <1>8, <1>9, <1>10, <1>11,
     <1>12, <1>13, <1>14, <1>15, <1>16, <1>17, <1>18, <1>19, <1>20, <1>21,
     <1>22, <1>23, <1>24, <1>25, <1>26, <1>27, <1>28, <1>29, <1>30, <1>31,
     <1>32, <1>33, <1>34, <1>35, <1>36,
     <1>37 DEF Next, LoginStep, CancelStep, CallStep, StopStep

(* A step of one sign-in leaves the tasks of the others alone.              *)
LEMMA OthersStay ==
    ASSUME TypeOK, NEW a \in Logins, LoginStep(a)
    PROVE  \A b \in Logins \ {a} : task'[b] = task[b]
<1>1. CASE RecordLogin(a) \/ CleanUp(a) \/ AbandonFork(a) \/ Unfork(a)
  BY <1>1 DEF RecordLogin, CleanUp, AbandonFork, Unfork, TypeOK
<1>2. CASE UnfinishFork(a)
  BY <1>2 DEF UnfinishFork, TypeOK
<1>3. CASE EnterLogin(a)
  BY <1>3 DEF EnterLogin
<1>4. CASE FailLogin(a)
  BY <1>4 DEF FailLogin
<1>5. CASE PersistFork(a)
  BY <1>5 DEF PersistFork
<1>6. CASE CleanFork(a)
  BY <1>6 DEF CleanFork
<1>7. CASE StartingRuntime(a) \/ StartingLogin(a) \/ DiscardSource(a) \/
           FinishFork(a)
  BY <1>7, ContinuedTask DEF StartingRuntime, StartingLogin, DiscardSource,
     FinishFork
<1>8. CASE BootLogin(a) \/ BootFork(a) \/ BranchFork(a)
  BY <1>8, RaisedTask DEF BootLogin, BootFork, BranchFork, Rejected, TypeOK
<1>9. CASE AskLogin(a) \/ Verify(a) \/ PromoteLogin(a) \/ Rotate(a)
  BY <1>9, RaisedTask DEF AskLogin, Verify, PromoteLogin, Rotate, TypeOK
<1>10. CASE CaptureFork(a)
  BY <1>10, RaisedTask DEF CaptureFork, TypeOK
<1>11. CASE Ready(a) \/ Verifying(a) \/ ForkUse(a)
  BY <1>11, RaisedTask, ContinuedTask DEF Ready, Verifying, ForkUse, Rejected
<1>12. CASE AwaitUser(a)
  BY ZenonT(30), <1>12, RaisedTask, ContinuedTask DEF AwaitUser, Reaches, At, Gone,
     Rejected, issueVars, loginVars, accountVars, bundleVars, processVars,
     TypeOK, None
<1>13. CASE CommitLogin(a)
  BY <1>13, RaisedTask DEF CommitLogin, Cancelled, Rejected, TypeOK
<1>14. CASE Interrupted(a)
  BY <1>14, RaisedTask DEF Interrupted, Cancelled
<1>. QED
  BY <1>1, <1>2, <1>3, <1>4, <1>5, <1>6, <1>7, <1>8, <1>9, <1>10, <1>11,
     <1>12, <1>13, <1>14 DEF LoginStep

(* The holder of the lock knows where the newest credential is.            *)
LEMMA KeepsStep ==
    ASSUME TypeOK, TreesThere, Beginnings, LoginKeeps, NEW a \in Logins,
           StartingRuntime(a) \/ BootLogin(a) \/ StartingLogin(a) \/
           AskLogin(a) \/ Ready(a) \/ AwaitUser(a) \/ Verifying(a) \/
           Verify(a) \/ PromoteLogin(a) \/ DiscardSource(a) \/ CleanUp(a) \/
           ForkUse(a) \/ BootFork(a) \/ Rotate(a) \/ CaptureFork(a) \/
           PersistFork(a) \/ CleanFork(a) \/ FinishFork(a) \/
           AbandonFork(a) \/ Unfork(a) \/ UnfinishFork(a) \/ BranchFork(a) \/
           CommitLogin(a)
    PROVE  Keeps(a)'
<1>t. task \in [Logins -> Task]
  BY DEF TypeOK
<1>1. CASE StartingRuntime(a)
  BY SMTT(30), <1>1, ContinuedTask, Handled DEF StartingRuntime, At, accountVars,
     bundleVars, issueVars, TypeOK, Task, Steps, Keeps, Settled, Stored,
     Using, LoginKeeps
<1>2. CASE BootLogin(a)
  BY <1>2, RaisedTask, Handled DEF BootLogin, Reaches, At, StartFresh,
     Rejected, accountVars, bundleVars, issueVars, TypeOK, Task, Steps,
     Keeps, Settled, Stored, Using, LoginKeeps
<1>3. CASE StartingLogin(a)
  BY <1>3, ContinuedTask, Handled DEF StartingLogin, At, accountVars,
     bundleVars, runtimeVars, issueVars, TypeOK, Task, Steps, Keeps, Settled,
     Stored, Using, LoginKeeps
<1>4. CASE AskLogin(a)
  <2>1. /\ task[a].pc = "ask" /\ task'[a].pc \in {"ready", "drop"}
        /\ task'[a].tree = task[a].tree /\ task'[a].kind = task[a].kind
    BY <1>t, <1>4, RaisedTask, Handled DEF AskLogin, Reaches, At, Task
  <2>2. UNCHANGED <<live, active, deleted, file, worker, held>>
    BY <1>4 DEF AskLogin, accountVars, bundleVars, runtimeVars, issueVars
  <2>. QED
    BY <2>1, <2>2 DEF LoginKeeps, Keeps, Holding, Locked, Cleanup, Settled, Using, Stored
<1>5. CASE Ready(a)
  BY <1>5, ContinuedTask, RaisedTask, Handled DEF Ready, At, Rejected,
     accountVars, bundleVars, runtimeVars, issueVars, TypeOK, Task, Steps,
     Keeps, Settled, Stored, Using, LoginKeeps
<1>6. CASE AwaitUser(a)
  BY <1>6, RaisedTask, Handled DEF AwaitUser, Reaches, At, Issues, Rejected,
     issueVars, accountVars, bundleVars, TypeOK, Task, Steps, Keeps, Settled,
     Stored, Using, LoginKeeps
<1>7. CASE Verifying(a)
  BY <1>7, ContinuedTask, RaisedTask, Handled DEF Verifying, At, Rejected,
     accountVars, bundleVars, issueVars, TypeOK, Task, Steps, Keeps, Settled,
     Stored, Using, LoginKeeps
<1>8. CASE Verify(a) \/ CaptureFork(a)
  BY <1>8, RaisedTask, Handled DEF Verify, CaptureFork, At, accountVars,
     bundleVars, issueVars, TypeOK, Task, Steps, Keeps, Settled, Stored,
     Using, LoginKeeps
<1>9. CASE PromoteLogin(a)
  BY <1>9, RaisedTask, Handled DEF PromoteLogin, At, accountVars, TypeOK,
     Task, Steps, Keeps, Settled, Stored, Using, LoginKeeps
<1>10. CASE DiscardSource(a)
  BY <1>10, ContinuedTask, Handled DEF DiscardSource, At, accountVars,
     bundleVars, issueVars, Keeps, Settled, Stored, Using, LoginKeeps
<1>11. CASE CleanUp(a)
  BY <1>11 DEF CleanUp, accountVars, bundleVars, issueVars, TypeOK, Task,
     Steps, Keeps, Settled, Stored, Using, LoginKeeps
<1>12. CASE ForkUse(a)
  BY <1>12, ContinuedTask, RaisedTask, Handled DEF ForkUse, At, Rejected,
     bundleVars, issueVars, Keeps, Settled, Stored, Using, LoginKeeps
<1>13. CASE BootFork(a) \/ BranchFork(a)
  BY <1>13, RaisedTask, Handled DEF BootFork, BranchFork, Reaches, At,
     Rejected, accountVars, bundleVars, issueVars, TypeOK, Task, Keeps,
     Settled, Stored, Using, LoginKeeps
<1>14. CASE Rotate(a)
  <2>1. /\ task[a].pc = "rotate" /\ task'[a].pc \in {"capture", "unfork"}
        /\ task'[a].tree = task[a].tree /\ task'[a].kind = task[a].kind
        /\ task[a].tree \in Trees /\ task[a].kind \in {"ACTIVE", "EXPORT"}
    BY <1>t, <1>14, RaisedTask, Handled DEF Rotate, Reaches, At, Task, TreesThere,
       WithRuntime
  <2>2. UNCHANGED <<active, deleted, worker, held>> /\ Stored /\ worker = "IN_USE"
    BY <1>14 DEF Rotate, Reaches, At, accountVars, bundleVars, LoginKeeps, Keeps, Using
  <2>3. \/ UNCHANGED <<file, live>> /\ task'[a].pc = "unfork"
        \/ Issues(task[a].tree, task[a].kind = "ACTIVE")
    BY <1>t, <1>14, RaisedTask, Handled DEF Rotate, Reaches, At, issueVars
  <2>4. Stored' \/ task'[a].kind = "ACTIVE"
    BY <2>1, <2>2, <2>3 DEF Issues, Stored
  <2>5. task'[a].pc = "capture" /\ task'[a].kind = "ACTIVE" => live' = file'[task[a].tree]
    BY <2>1, <2>3 DEF Issues, TypeOK
  <2>. QED
    BY <2>1, <2>2, <2>4, <2>5 DEF Keeps, Settled, Using
<1>15. CASE CleanFork(a)
  BY <1>15 DEF CleanFork, At, accountVars, bundleVars, issueVars, Keeps,
     Settled, Stored, Using, LoginKeeps
<1>16. CASE FinishFork(a)
  BY <1>16, ContinuedTask, Handled DEF FinishFork, At, bundleVars, issueVars,
     Keeps, Settled, Stored, Using, LoginKeeps
<1>17. CASE AbandonFork(a)
  BY <1>17 DEF AbandonFork, At, AfterFork, bundleVars, issueVars, TypeOK,
     Keeps, Settled, Stored, Using, LoginKeeps
<1>18. CASE Unfork(a)
  BY <1>18 DEF Unfork, At, Preserve, accountVars, bundleVars, issueVars,
     TypeOK, Task, Steps, Keeps, Settled, Stored, Using, LoginKeeps
<1>19. CASE UnfinishFork(a)
  BY <1>19 DEF UnfinishFork, At, AfterFork, bundleVars, issueVars, TypeOK,
     Task, Steps, Keeps, Settled, Stored, Using, LoginKeeps
<1>20. CASE CommitLogin(a)
  BY <1>20, RaisedTask, Handled DEF CommitLogin, At, Cancelled, NoTask,
     Rejected, bundleVars, issueVars, TypeOK, Keeps, Settled, Stored, Using,
     LoginKeeps
<1>21. CASE PersistFork(a)
  <2>1. task'[a].pc = "clean" /\ task'[a].kind = task[a].kind /\ worker = "IN_USE" /\ worker' = worker
    BY <1>21 DEF PersistFork, At, TypeOK, Task, LoginKeeps, Keeps, Using, accountVars
  <2>2. Stored'
    <3>1. task[a].kind = "ACTIVE" => live = task[a].payload \/ (deleted /\ live = None)
      BY <1>21 DEF LoginKeeps, Keeps, PersistFork, At
    <3>2. task[a].kind = "EXPORT" => Stored
      BY <1>21 DEF LoginKeeps, Keeps, PersistFork, At, Holding, Shielded
    <3>. QED
      BY <1>21, <3>1, <3>2 DEF PersistFork, Stored, accountVars, issueVars, TypeOK, Task
  <2>. QED
    BY <2>1, <2>2 DEF Keeps
<1>. QED
  BY <1>1, <1>2, <1>3, <1>4, <1>5, <1>6, <1>7, <1>8, <1>9, <1>10, <1>11,
     <1>12, <1>13, <1>14, <1>15, <1>16, <1>17, <1>18, <1>19, <1>20, <1>21

(* So do all the sign-ins.                                                 *)
LEMMA LoginKeepsStep ==
    ASSUME TypeOK, LockExclusive, TreesThere, Beginnings, LoginKeeps,
           [Next]_vars
    PROVE  LoginKeeps'
<1>t. task \in [Logins -> Task]
  BY DEF TypeOK
<1>1. CASE UNCHANGED <<task, live, active, deleted, file, worker, held>>
  BY <1>1 DEF LoginKeeps, Keeps, Stored
<1>2. ASSUME NEW a \in Logins, CancelRequest(a) \/ CancelLogin(a) \/
             CancelBegin(a) \/ CancelLook(a) \/ CancelSend(a) \/
             CancelState(a) \/ CancelOperation(a) \/
             CancelUndo(a) \/ CancelInterrupted(a)
      PROVE  LoginKeeps'
  BY <1>1, <1>2 DEF CancelRequest, CancelLogin, CancelBegin, CancelLook,
     CancelSend, CancelState,
     CancelOperation, CancelUndo, CancelInterrupted, accountVars, bundleVars,
     runtimeVars, issueVars
<1>3. CASE CallRequest \/ CallEnter \/ CallCheckpoint \/ CallRecord \/
           StopLook \/ UNCHANGED vars
  BY <1>1, <1>3 DEF CallRequest, CallEnter, CallCheckpoint, CallRecord,
     StopLook, accountVars, bundleVars, runtimeVars, issueVars, vars
<1>4. ASSUME NEW deletes \in BOOLEAN, StopRequest(deletes)
      PROVE  LoginKeeps'
  BY <1>1, <1>4 DEF StopRequest, accountVars, bundleVars, runtimeVars,
     issueVars
<1>5. ASSUME NEW a \in Logins, NEW recover \in BOOLEAN, StartLogin(a, recover)
      PROVE  LoginKeeps'
  BY <1>5 DEF StartLogin, accountVars, bundleVars, runtimeVars, issueVars,
     TypeOK, Holding, Locked, Shielded, Cleanup, LoginKeeps, Keeps, Settled,
     Stored, Using
<1>6. ASSUME NEW a \in Logins, RecordLogin(a)
      PROVE  LoginKeeps'
  <2>1. /\ \A b \in Logins \ {a} : task'[b] = task[b]
        /\ task'[a].pc \in {"free", "created"}
    BY <1>t, <1>6 DEF RecordLogin, NoTask, Task
  <2>2. /\ UNCHANGED <<live, active, deleted, file, held>>
        /\ worker = "IN_USE" => worker' = worker
    BY <1>6 DEF RecordLogin, bundleVars, runtimeVars, issueVars
  <2>3. Keeps(a)'
    BY <2>1 DEF Keeps, Settled, Using, Holding, Locked, Shielded, Cleanup
  <2>. QED
    BY <2>1, <2>2, <2>3 DEF LoginKeeps, Keeps, Stored
<1>7. ASSUME NEW a \in Logins, EnterLogin(a)
      PROVE  LoginKeeps'
  BY <1>7 DEF EnterLogin, Reaches, At, LockFree, Holding, Locked, Shielded,
     Cleanup, Beginnings, LoginKeeps, Keeps, Settled, Using
<1>8. ASSUME NEW a \in Logins, FailLogin(a)
      PROVE  LoginKeeps'
  BY <1>8 DEF FailLogin, NoTask, bundleVars, runtimeVars, issueVars,
     LoginKeeps, Keeps, Settled, Stored, Using
<1>9. ASSUME NEW a \in Logins, CancelTask(a)
      PROVE  LoginKeeps'
  BY <1>9 DEF CancelTask, accountVars, bundleVars, runtimeVars, issueVars,
     LoginKeeps, Keeps, Stored
<1>10. CASE CallUse \/ CallInterrupted
  BY <1>10 DEF CallUse, CallInterrupted, bundleVars, runtimeVars, issueVars,
     LoginKeeps, Keeps, Stored
<1>11. CASE CallCodex \/ CallPromote
  BY <1>11 DEF CallCodex, CallPromote, TypeOK, Task, Steps, LockExclusive,
     CallHolds, CallLocked, LoginKeeps, Keeps, Settled, Using
<1>12. CASE CallCleanUp
  BY <1>12 DEF CallCleanUp, Holding, Locked, Shielded, Cleanup,
     LockExclusive, CallHolds, LoginKeeps, Keeps, Settled, Using
<1>13. CASE CallFinish
  BY <1>13 DEF CallFinish, TypeOK, Task, Steps, LockExclusive, CallHolds,
     LoginKeeps, Keeps, Settled, Using
<1>14. CASE StopRuntime
  BY <1>14 DEF StopRuntime, RuntimeLocked, Locked, Discard, accountVars,
     bundleVars, issueVars, TreesThere, LoginKeeps, Keeps, Stored
<1>15. CASE DeleteAccount
  BY <1>15 DEF DeleteAccount, runtimeVars, LoginKeeps, Keeps, Stored
<1>16. CASE Restart
  BY <1>16 DEF Restart, NoTask, LoginKeeps, Keeps, Settled, Using
<1>17. ASSUME NEW a \in Logins,
             StartingRuntime(a) \/ BootLogin(a) \/ StartingLogin(a) \/
             AskLogin(a) \/ Ready(a) \/ AwaitUser(a) \/ Verifying(a) \/
             Verify(a) \/ PromoteLogin(a) \/ DiscardSource(a) \/
             CleanUp(a) \/ ForkUse(a) \/ BootFork(a) \/ Rotate(a) \/
             CaptureFork(a) \/ PersistFork(a) \/ CleanFork(a) \/
             FinishFork(a) \/ AbandonFork(a) \/ Unfork(a) \/
             UnfinishFork(a) \/ BranchFork(a) \/ CommitLogin(a)
      PROVE  LoginKeeps'
  <2>1. task[a].pc \in Holding
    BY <1>17 DEF StartingRuntime, BootLogin, StartingLogin, AskLogin, Ready, AwaitUser, Verifying, Verify, PromoteLogin, DiscardSource, CleanUp, ForkUse, BootFork, Rotate, CaptureFork, PersistFork, CleanFork, FinishFork, AbandonFork, Unfork, UnfinishFork, BranchFork, CommitLogin, Reaches, At, Holding, Locked, Shielded, Cleanup
  <2>2. Keeps(a)' /\ \A b \in Logins \ {a} : task'[b] = task[b]
    BY <1>17, KeepsStep, OthersStay DEF LoginStep
  <2>. QED
    BY <2>1, <2>2, HolderKeeps
<1>18. ASSUME NEW a \in Logins, Interrupted(a)
      PROVE  LoginKeeps'
  <2>1. /\ UNCHANGED <<live, active, deleted, file, worker, held>>
        /\ \A b \in Logins \ {a} : task'[b] = task[b]
    BY <1>18, OthersStay DEF LoginStep, Interrupted, accountVars, bundleVars, runtimeVars,
                            issueVars
  <2>2. Keeps(a)'
    BY <1>18, RaisedTask, Handled DEF Interrupted, Interruptible, Locked,
       Cancelled, accountVars, bundleVars, runtimeVars, issueVars, Holding,
       Shielded, Cleanup, Keeps, Settled, Stored, Using, LoginKeeps
  <2>. QED
    BY <2>1, <2>2 DEF LoginKeeps, Keeps, Stored
<1>19. ASSUME CallStart PROVE LoginKeeps'
  <2>1. \A a \in Logins : task'[a].pc \notin Holding
    BY <1>19 DEF CallStart, LockExclusive, CallHolds
  <2>2. \A a \in Logins : task'[a].pc \notin Settled \cup Using \cup {"begin", "ask", "ready", "user", "drop", "rotate", "capture", "persist", "unfork", "unfinish"}
    BY <2>1 DEF Holding, Locked, Shielded, Cleanup, Settled, Using
  <2>. QED
    BY <2>1, <2>2 DEF LoginKeeps, Keeps
<1>c. CASE CloseRuntimes
  BY <1>c DEF CloseRuntimes, At, Holding, Locked, Shielded, Cleanup, LoginKeeps, Keeps,
     Settled, Using
<1>20. ASSUME Close PROVE LoginKeeps'
  <2>1. \A a \in Logins : task'[a].pc = task[a].pc /\ task'[a].tree = task[a].tree /\ task'[a].payload = task[a].payload /\ task'[a].kind = task[a].kind
    BY <1>20 DEF Close, TypeOK, Task
  <2>2. UNCHANGED <<live, active, deleted, file, worker, held>>
    BY <1>20 DEF Close, accountVars, bundleVars, issueVars, runtimeVars
  <2>. QED
    BY <2>1, <2>2 DEF LoginKeeps, Keeps, Stored
<1>. QED
  BY <1>c, <1>1, <1>2, <1>3, <1>4, <1>5, <1>6, <1>7, <1>8, <1>9, <1>10, <1>11,
     <1>12, <1>13, <1>14, <1>15, <1>16, <1>17, <1>18, <1>19,
     <1>20 DEF Next, LoginStep, CancelStep, CallStep, StopStep

(* The managed call knows the newest credential, or has it in its tree.    *)
LEMMA CallKeepsStep ==
    ASSUME TypeOK, LockExclusive, TreesThere, IssuedBefore, LoginKeeps,
           CallKeeps, Marked, [Next]_vars
    PROVE  CallKeeps'
<1>1. CASE UNCHANGED <<call, live, active, deleted, worker, auth, file>>
  BY <1>1 DEF CallKeeps, Stored
<1>2. ASSUME NEW a \in Logins, NEW recover \in BOOLEAN, StartLogin(a, recover)
      PROVE  CallKeeps'
  BY <1>1, <1>2 DEF StartLogin, accountVars, bundleVars, runtimeVars,
     issueVars
<1>3. ASSUME NEW a \in Logins, BranchFork(a) \/ Interrupted(a) \/
             CancelRequest(a) \/ CancelLogin(a) \/ CancelBegin(a) \/
             CancelLook(a) \/ CancelSend(a) \/
             CancelState(a) \/ CancelOperation(a) \/ CancelTask(a) \/
             CancelUndo(a)
      PROVE  CallKeeps'
  BY <1>1, <1>3 DEF BranchFork, Interrupted, CancelRequest, CancelLogin,
     CancelBegin, CancelLook,
     CancelSend, CancelState, CancelOperation, CancelTask, CancelUndo,
     accountVars, bundleVars, runtimeVars, issueVars
<1>4. ASSUME NEW a \in Logins, CancelInterrupted(a)
      PROVE  CallKeeps'
  BY <1>1, <1>4 DEF CancelInterrupted, accountVars, bundleVars, runtimeVars,
     issueVars
<1>5. ASSUME NEW a \in Logins, EnterLogin(a) \/ StartingRuntime(a) \/
             StartingLogin(a) \/ AskLogin(a)
      PROVE  CallKeeps'
  BY <1>1, <1>5 DEF EnterLogin, StartingRuntime, StartingLogin, AskLogin,
     accountVars, bundleVars, runtimeVars, issueVars
<1>6. ASSUME NEW a \in Logins, Ready(a) \/ Verifying(a) \/ Verify(a) \/
             CaptureFork(a)
      PROVE  CallKeeps'
  BY <1>1, <1>6 DEF Ready, Verifying, Verify, CaptureFork, accountVars,
     bundleVars, runtimeVars, issueVars
<1>7. ASSUME NEW a \in Logins, Unfork(a)
      PROVE  CallKeeps'
  BY <1>1, <1>7 DEF Unfork, Archive, Preserve, accountVars, bundleVars,
     issueVars
<1>8. CASE StopLook \/ Close \/ UNCHANGED vars
  BY <1>1, <1>8 DEF StopLook, Close, accountVars, bundleVars, runtimeVars,
     issueVars, vars
<1>9. ASSUME NEW deletes \in BOOLEAN, StopRequest(deletes)
      PROVE  CallKeeps'
  BY <1>1, <1>9 DEF StopRequest, accountVars, bundleVars, runtimeVars,
     issueVars
<1>10. ASSUME NEW a \in Logins, RecordLogin(a) \/ FailLogin(a) \/ ForkUse(a)
       PROVE  CallKeeps'
  BY <1>10 DEF RecordLogin, FailLogin, ForkUse, bundleVars, runtimeVars,
     issueVars, CallKeeps, Stored
<1>11. ASSUME NEW a \in Logins, BootLogin(a) \/ AwaitUser(a) \/ BootFork(a)
       PROVE  CallKeeps'
  BY <1>11 DEF BootLogin, AwaitUser, BootFork, Reaches, At, Holding,
     CallHolds, CallLocked, LockExclusive, CallKeeps
<1>12. ASSUME NEW a \in Logins, PromoteLogin(a) \/ DiscardSource(a) \/
             PersistFork(a) \/ CleanFork(a)
       PROVE  CallKeeps'
  BY <1>12 DEF PromoteLogin, DiscardSource, PersistFork, CleanFork, At,
     TypeOK, Task, Steps, Call, LockExclusive, CallKeeps
<1>13. ASSUME NEW a \in Logins, CleanUp(a)
       PROVE  CallKeeps'
  BY <1>13 DEF CleanUp, TypeOK, Task, Steps, Call, LockExclusive, CallKeeps
<1>14. ASSUME NEW a \in Logins, Rotate(a)
       PROVE  CallKeeps'
  BY <1>14 DEF Rotate, Reaches, At, TypeOK, Task, Steps, Call, LockExclusive,
     CallKeeps
<1>15. ASSUME NEW a \in Logins, FinishFork(a) \/ AbandonFork(a)
       PROVE  CallKeeps'
  BY <1>15 DEF FinishFork, AbandonFork, At, bundleVars, runtimeVars,
     issueVars, TypeOK, Task, Steps, LockExclusive, Stored, CallKeeps
<1>16. ASSUME NEW a \in Logins, UnfinishFork(a)
       PROVE  CallKeeps'
  BY <1>16 DEF UnfinishFork, At, Quarantine, bundleVars, runtimeVars,
     issueVars, TypeOK, Task, Steps, LockExclusive, Stored, CallKeeps
<1>17. ASSUME NEW a \in Logins, CommitLogin(a)
       PROVE  CallKeeps'
  BY <1>17 DEF CommitLogin, At, bundleVars, runtimeVars, issueVars, TypeOK,
     Task, Steps, LockExclusive, LoginKeeps, Keeps, Settled, Stored,
     CallKeeps
<1>18. CASE CallRequest
  BY <1>18 DEF CallRequest, CallGoes, CallHolds, CallLocked, CallKeeps
<1>19. CASE CallEnter
  BY <1>19 DEF CallEnter, CallHolds, CallLocked, NoCall, bundleVars,
     CallKeeps
<1>20. CASE CallUse
  BY <1>20 DEF CallUse, CallGoes, NoCall, bundleVars, issueVars, TypeOK,
     Call, CallHolds, CallLocked, Stored, CallKeeps, Marked
<1>21. CASE CallCodex
  BY <1>21 DEF CallCodex, Issues, issueVars, accountVars, bundleVars, TypeOK,
     CallHolds, CallLocked, TreesThere, CallWithRuntime, IssuedBefore,
     Stored, CallKeeps
<1>22. CASE CallPromote
  BY <1>22 DEF CallPromote, CallGoes, accountVars, issueVars, TypeOK, Call,
     Stored, CallKeeps
<1>23. CASE CallCleanUp
  BY <1>23 DEF CallCleanUp, CallGoes, accountVars, bundleVars, issueVars,
     TypeOK, Call, Stored, CallKeeps
<1>24. CASE CallFinish \/ CallRecord \/ CallInterrupted \/ Restart
  BY <1>24 DEF CallFinish, CallRecord, CallInterrupted, Restart, NoCall,
     CallHolds, CallLocked, CallKeeps
<1>25. CASE DeleteAccount
  BY <1>25 DEF DeleteAccount, runtimeVars, CallKeeps, Stored
<1>26. ASSUME CallStart PROVE CallKeeps'
  <2>1. CASE CallGoes("release")
    <3>1. call'.pc = "release"
      BY <2>1 DEF CallGoes, TypeOK, Call
    <3>. QED
      BY <1>26, <3>1 DEF CallStart, CallKeeps, CallHolds, CallLocked, Stored, accountVars, bundleVars, issueVars
  <2>2. CASE ~CallGoes("release")
    <3>1. PICK t \in Trees : call' = [call EXCEPT !.pc = "call", !.tree = t] /\ file' = [file EXCEPT ![t] = call.source]
      BY <1>26, <2>2 DEF CallStart, StartFresh
    <3>2. call'.pc = "call" /\ call'.tree = t /\ call'.source = call.source /\ file'[t] = call.source
      BY <3>1 DEF TypeOK, Call
    <3>. QED
      BY <1>26, <3>2 DEF CallStart, CallKeeps, CallHolds, CallLocked, Stored, accountVars, bundleVars, issueVars
  <2>. QED
    BY <2>1, <2>2
<1>27. ASSUME CallCheckpoint PROVE CallKeeps'
  <2>1. UNCHANGED <<live, active, deleted, file, worker, auth>>
    BY <1>27 DEF CallCheckpoint, accountVars, bundleVars, issueVars, runtimeVars
  <2>2. CASE CallGoes("discard") /\ file[call.tree] = call.source
    BY <1>27, <2>1, <2>2 DEF CallCheckpoint, CallGoes, CallKeeps, CallHolds, CallLocked, TypeOK, Call, Stored
  <2>3. CASE call' = [call EXCEPT !.pc = "promote", !.source = file[call.tree]] /\ file[call.tree] # call.source
    BY <1>27, <2>1, <2>3 DEF CallCheckpoint, CallKeeps, CallHolds, CallLocked, TypeOK, Call, Stored
  <2>4. CASE CallGoes("keep")
    BY <1>27, <2>1, <2>4 DEF CallCheckpoint, CallGoes, CallKeeps, CallHolds, CallLocked, TypeOK, Call, Stored
  <2>. QED
    BY <1>27, <2>2, <2>3, <2>4 DEF CallCheckpoint
<1>c. CASE CloseRuntimes
  BY <1>c DEF CloseRuntimes, NoCall, CallHolds, CallLocked, CallKeeps
<1>28. ASSUME StopRuntime PROVE CallKeeps'
  <2>1. UNCHANGED <<live, active, deleted, worker, auth, call>>
    BY <1>28 DEF StopRuntime, accountVars, bundleVars, issueVars
  <2>2. call.pc \in {"call", "check"} => file'[call.tree] = file[call.tree]
    <3>1. CASE stop.tree # call.tree
      BY <1>28, <3>1 DEF StopRuntime, Discard, TypeOK
    <3>2. CASE call.pc \in {"call", "check"} /\ stop.tree = call.tree
      <4>1. slot = stop.tree /\ RuntimeLocked
        BY <3>2 DEF TreesThere, RuntimeLocked, CallLocked
      <4>. QED
        BY <1>28, <4>1 DEF StopRuntime
    <3>. QED
      BY <3>1, <3>2
  <2>3. file'[call.tree] = file[call.tree] \/ (call.tree \in Trees => file'[call.tree] = Gone)
    BY <1>28 DEF StopRuntime, Discard, TypeOK
  <2>4. call.pc = "discard" => call.tree \in Trees
    BY DEF TreesThere, CallWithRuntime
  <2>5. live # Gone
    BY DEF TypeOK, Gone, None, Credentials
  <2>. QED
    BY <2>1, <2>2, <2>3, <2>4, <2>5 DEF CallKeeps, Stored
<1>. QED
  BY <1>c, <1>1, <1>2, <1>3, <1>4, <1>5, <1>6, <1>7, <1>8, <1>9, <1>10, <1>11,
     <1>12, <1>13, <1>14, <1>15, <1>16, <1>17, <1>18, <1>19, <1>20, <1>21,
     <1>22, <1>23, <1>24, <1>25, <1>26, <1>27,
     <1>28 DEF Next, LoginStep, CancelStep, CallStep, StopStep

(* While the newest credential is not stored, the account says so.         *)
LEMMA MarkedStep ==
    ASSUME TypeOK, LoginKeeps, CallKeeps, Marked, [Next]_vars
    PROVE  Marked'
<1>1. CASE UNCHANGED <<live, active, deleted, auth, worker>>
  BY <1>1 DEF Marked, Stored
<1>2. ASSUME NEW a \in Logins, NEW recover \in BOOLEAN, StartLogin(a, recover)
      PROVE  Marked'
  BY <1>1, <1>2 DEF StartLogin, accountVars, bundleVars, issueVars
<1>3. ASSUME NEW a \in Logins, EnterLogin(a) \/ StartingRuntime(a) \/
             BootLogin(a) \/ StartingLogin(a) \/ AskLogin(a) \/ Ready(a) \/
             Verifying(a) \/ Verify(a) \/ DiscardSource(a)
      PROVE  Marked'
  BY <1>1, <1>3 DEF EnterLogin, StartingRuntime, BootLogin, StartingLogin,
     AskLogin, Ready, Verifying, Verify, DiscardSource, accountVars,
     bundleVars, issueVars
<1>4. ASSUME NEW a \in Logins, CleanUp(a) \/ BootFork(a) \/ CaptureFork(a) \/
             CleanFork(a) \/ Unfork(a) \/ BranchFork(a) \/ Interrupted(a) \/
             CancelRequest(a) \/ CancelLogin(a)
      PROVE  Marked'
  BY <1>1, <1>4 DEF CleanUp, BootFork, CaptureFork, CleanFork, Unfork,
     BranchFork, Interrupted, CancelRequest, CancelLogin, accountVars,
     bundleVars, issueVars
<1>5. ASSUME NEW a \in Logins, CancelBegin(a) \/ CancelLook(a) \/
             CancelSend(a) \/ CancelState(a) \/ CancelOperation(a) \/ CancelTask(a) \/ CancelUndo(a) \/
             CancelInterrupted(a)
      PROVE  Marked'
  BY <1>1, <1>5 DEF CancelBegin, CancelLook, CancelSend, CancelState,
     CancelOperation, CancelTask,
     CancelUndo, CancelInterrupted, accountVars, bundleVars, issueVars
<1>6. CASE CallRequest \/ CallEnter \/ CallStart \/ CallCheckpoint \/
           CallCleanUp \/ StopLook \/ StopRuntime \/ Close \/ CloseRuntimes \/
           UNCHANGED vars
  BY <1>1, <1>6 DEF CallRequest, CallEnter, CallStart, CallCheckpoint,
     CallCleanUp, StopLook, StopRuntime, Close, CloseRuntimes, accountVars, bundleVars,
     issueVars, vars
<1>7. ASSUME NEW deletes \in BOOLEAN, StopRequest(deletes)
      PROVE  Marked'
  BY <1>1, <1>7 DEF StopRequest, accountVars, bundleVars, issueVars
<1>8. ASSUME NEW a \in Logins, RecordLogin(a) \/ FailLogin(a)
      PROVE  Marked'
  BY <1>8 DEF RecordLogin, FailLogin, bundleVars, issueVars, Marked, Stored
<1>9. ASSUME NEW a \in Logins, AwaitUser(a)
      PROVE  Marked'
  BY <1>9 DEF AwaitUser, Issues, issueVars, accountVars, bundleVars, Stored,
     Marked
<1>10. ASSUME NEW a \in Logins, PromoteLogin(a)
       PROVE  Marked'
  BY <1>10 DEF PromoteLogin, accountVars, Marked, Stored
<1>11. ASSUME NEW a \in Logins, ForkUse(a)
       PROVE  Marked'
  BY <1>11 DEF ForkUse, Marked
<1>12. ASSUME NEW a \in Logins, Rotate(a)
       PROVE  Marked'
  BY <1>12 DEF Rotate, Reaches, At, accountVars, LoginKeeps, Keeps, Using,
     Marked
<1>13. ASSUME NEW a \in Logins, PersistFork(a)
       PROVE  Marked'
  BY <1>13 DEF PersistFork, At, accountVars, issueVars, LoginKeeps, Keeps,
     Stored, Marked
<1>14. ASSUME NEW a \in Logins, FinishFork(a) \/ AbandonFork(a) \/
             CommitLogin(a)
       PROVE  Marked'
  BY <1>14 DEF FinishFork, AbandonFork, CommitLogin, At, bundleVars,
     issueVars, LoginKeeps, Keeps, Settled, Stored, Marked
<1>15. ASSUME NEW a \in Logins, UnfinishFork(a)
       PROVE  Marked'
  BY <1>15 DEF UnfinishFork, At, Unsafe, Quarantine, bundleVars, issueVars,
     TypeOK, Task, Steps, LoginKeeps, Keeps, Stored, Marked
<1>16. CASE CallUse \/ CallRecord
  BY <1>16 DEF CallUse, CallRecord, bundleVars, issueVars, Stored, Marked
<1>17. CASE CallCodex \/ CallPromote
  BY <1>17 DEF CallCodex, CallPromote, accountVars, CallKeeps, CallHolds,
     CallLocked, Marked
<1>18. CASE CallFinish
  BY <1>18 DEF CallFinish, Quarantine, bundleVars, issueVars, Stored,
     CallKeeps, Marked
<1>19. CASE CallInterrupted
  BY <1>19 DEF CallInterrupted, bundleVars, issueVars, Marked, Stored
<1>20. CASE DeleteAccount
  BY <1>20 DEF DeleteAccount, Marked, Stored
<1>21. CASE Restart
  BY <1>21 DEF Restart, QuarantineUse, Quarantine, bundleVars, issueVars,
     Stored, Marked
<1>. QED
  BY <1>1, <1>2, <1>3, <1>4, <1>5, <1>6, <1>7, <1>8, <1>9, <1>10, <1>11,
     <1>12, <1>13, <1>14, <1>15, <1>16, <1>17, <1>18, <1>19, <1>20,
     <1>21 DEF Next, LoginStep, CancelStep, CallStep, StopStep

(* No step but stop() and the end of the container deletes the only copy   *)
(* of the newest credential.                                               *)
LEMMA KeptStep ==
    ASSUME TypeOK, TreesThere, LoginKeeps, CallKeeps, CredentialKept,
           [Next]_vars
    PROVE  CredentialKept'
<1>1. CASE UNCHANGED <<live, active, file, erased>>
  BY <1>1 DEF CredentialKept
<1>2. ASSUME NEW a \in Logins, NEW recover \in BOOLEAN, StartLogin(a, recover)
      PROVE  CredentialKept'
  BY <1>1, <1>2 DEF StartLogin, bundleVars, runtimeVars, issueVars
<1>3. ASSUME NEW a \in Logins, RecordLogin(a) \/ EnterLogin(a) \/
             StartingRuntime(a) \/ StartingLogin(a) \/ AskLogin(a) \/
             Ready(a) \/ Verifying(a) \/ Verify(a) \/ FailLogin(a)
      PROVE  CredentialKept'
  BY <1>1, <1>3 DEF RecordLogin, EnterLogin, StartingRuntime, StartingLogin,
     AskLogin, Ready, Verifying, Verify, FailLogin, bundleVars, runtimeVars,
     issueVars
<1>4. ASSUME NEW a \in Logins, CancelRequest(a) \/ CancelLogin(a) \/
             CancelBegin(a) \/ CancelLook(a) \/ CancelSend(a) \/
             CancelState(a) \/ CancelOperation(a) \/
             CancelTask(a) \/ CancelUndo(a) \/ CancelInterrupted(a)
      PROVE  CredentialKept'
  BY <1>1, <1>4 DEF CancelRequest, CancelLogin, CancelBegin, CancelLook,
     CancelSend, CancelState,
     CancelOperation, CancelTask, CancelUndo, CancelInterrupted, bundleVars,
     runtimeVars, issueVars
<1>5. ASSUME NEW a \in Logins, ForkUse(a) \/ CaptureFork(a) \/
             FinishFork(a) \/ AbandonFork(a)
      PROVE  CredentialKept'
  BY <1>1, <1>5 DEF ForkUse, CaptureFork, FinishFork, AbandonFork,
     bundleVars, runtimeVars, issueVars
<1>6. ASSUME NEW a \in Logins, Unfork(a) \/ UnfinishFork(a) \/
             BranchFork(a) \/ CommitLogin(a)
      PROVE  CredentialKept'
  BY <1>1, <1>6 DEF Unfork, UnfinishFork, BranchFork, CommitLogin, Archive,
     Preserve, bundleVars, issueVars, runtimeVars
<1>7. ASSUME NEW a \in Logins, Interrupted(a)
      PROVE  CredentialKept'
  BY <1>1, <1>7 DEF Interrupted, bundleVars, runtimeVars, issueVars
<1>8. CASE CallRequest \/ CallEnter \/ CallUse \/ CallCheckpoint \/
           CallFinish \/ CallRecord \/ CallInterrupted \/ StopLook \/ Close
  BY <1>1, <1>8 DEF CallRequest, CallEnter, CallUse, CallCheckpoint,
     CallFinish, CallRecord, CallInterrupted, StopLook, Close, bundleVars,
     runtimeVars, issueVars
<1>9. CASE UNCHANGED vars
  BY <1>1, <1>9 DEF vars, bundleVars, runtimeVars, issueVars
<1>10. ASSUME NEW deletes \in BOOLEAN, StopRequest(deletes)
       PROVE  CredentialKept'
  BY <1>1, <1>10 DEF StopRequest, bundleVars, runtimeVars, issueVars
<1>11. ASSUME NEW a \in Logins, BootLogin(a)
       PROVE  CredentialKept'
  BY <1>11 DEF BootLogin, StartFresh, Unused, runtimeVars, bundleVars,
     issueVars, TypeOK, Task, CredentialKept
<1>12. ASSUME NEW a \in Logins, AwaitUser(a)
       PROVE  CredentialKept'
  BY <1>12 DEF AwaitUser, Reaches, At, Issues, issueVars, bundleVars, TypeOK,
     LoginKeeps, Keeps, CredentialKept
<1>13. ASSUME NEW a \in Logins, PromoteLogin(a)
       PROVE  CredentialKept'
  BY <1>13 DEF PromoteLogin, runtimeVars, CredentialKept
<1>14. ASSUME NEW a \in Logins, DiscardSource(a) \/ CleanFork(a)
       PROVE  CredentialKept'
  BY <1>14 DEF DiscardSource, CleanFork, At, bundleVars, issueVars,
     LoginKeeps, Keeps, Settled, Stored, CredentialKept
<1>15. ASSUME NEW a \in Logins, CleanUp(a)
       PROVE  CredentialKept'
  BY <1>15 DEF CleanUp, At, Discard, Preserve, runtimeVars, bundleVars,
     issueVars, TypeOK, LoginKeeps, Keeps, CredentialKept
<1>16. ASSUME NEW a \in Logins, BootFork(a)
       PROVE  CredentialKept'
  BY <1>16 DEF BootFork, Reaches, At, bundleVars, issueVars, LoginKeeps,
     Keeps, Settled, Stored, CredentialKept
<1>17. ASSUME NEW a \in Logins, Rotate(a)
       PROVE  CredentialKept'
  BY <1>17 DEF Rotate, Reaches, At, Issues, issueVars, bundleVars, TypeOK,
     TreesThere, WithRuntime, LoginKeeps, Keeps, Stored, CredentialKept
<1>18. CASE CallCodex
  BY <1>18 DEF CallCodex, Issues, issueVars, bundleVars, TypeOK, TreesThere,
     CallWithRuntime, CallLocked, CredentialKept
<1>19. CASE CallPromote
  BY <1>19 DEF CallPromote, issueVars, CallKeeps, CredentialKept
<1>20. CASE CallCleanUp
  BY <1>20 DEF CallCleanUp, Discard, Preserve, bundleVars, issueVars, TypeOK,
     Stored, CallKeeps, CredentialKept
<1>21. CASE DeleteAccount
  BY <1>21 DEF DeleteAccount, CredentialKept
<1>22. ASSUME NEW a \in Logins, PersistFork(a) PROVE CredentialKept'
  <2>1. Stored'
    <3>1. task[a].kind = "ACTIVE" => live = task[a].payload \/ (deleted /\ live = None)
      BY <1>22 DEF LoginKeeps, Keeps, PersistFork, At
    <3>2. task[a].kind = "EXPORT" => Stored
      BY <1>22 DEF LoginKeeps, Keeps, PersistFork, At, Holding, Shielded
    <3>. QED
      BY <1>22, <3>1, <3>2 DEF PersistFork, Stored, accountVars, issueVars, TypeOK, Task
  <2>. QED
    BY <2>1 DEF Stored, CredentialKept, None
<1>23. ASSUME CallStart PROVE CredentialKept'
  <2>1. UNCHANGED <<live, active, erased>>
    BY <1>23 DEF CallStart, bundleVars, issueVars
  <2>2. \A t \in Trees : file'[t] = file[t] \/ file[t] = Gone
    BY <1>23 DEF CallStart, StartFresh, Unused, runtimeVars, TypeOK
  <2>3. live # Gone
    BY DEF TypeOK, Gone, None, Credentials
  <2>. QED
    BY <2>1, <2>2, <2>3 DEF CredentialKept
<1>24. ASSUME Restart PROVE CredentialKept'
  <2>1. UNCHANGED <<live, active>> /\ erased \in BOOLEAN
    BY <1>24 DEF Restart, bundleVars, issueVars, TypeOK
  <2>2. CASE UNCHANGED <<file, erased>>
    BY <2>1, <2>2 DEF CredentialKept
  <2>3. CASE erased' = (erased \/ live # active)
    BY <2>1, <2>3 DEF CredentialKept
  <2>. QED
    BY <1>24, <2>2, <2>3 DEF Restart
<1>25. ASSUME StopRuntime \/ CloseRuntimes PROVE CredentialKept'
  <2>1. UNCHANGED <<active, live>>
    BY <1>25 DEF StopRuntime, CloseRuntimes, bundleVars, issueVars
  <2>. QED
    BY <1>25, <2>1 DEF StopRuntime, CloseRuntimes, CredentialKept, runtimeVars, Discard,
       TypeOK
<1>. QED
  BY <1>1, <1>2, <1>3, <1>4, <1>5, <1>6, <1>7, <1>8, <1>9, <1>10, <1>11,
     <1>12, <1>13, <1>14, <1>15, <1>16, <1>17, <1>18, <1>19, <1>20, <1>21,
     <1>22, <1>23, <1>24,
     <1>25 DEF Next, LoginStep, CancelStep, CallStep, StopStep

-----------------------------------------------------------------------------
(* The whole invariant, and that every step keeps it.                      *)
LoginInv == TypeOK /\ RuntimeInv /\ AttendedInv /\ CredentialInv

LEMMA InitLogin == Init => LoginInv
<1>. SUFFICES ASSUME Init PROVE LoginInv
  OBVIOUS
<1>1. /\ task = [a \in Logins |-> NoTask] /\ call = NoCall /\ stop = NoStop
      /\ file = [t \in Trees |-> Gone] /\ slot = None /\ held = None
      /\ live = active /\ live <= issued /\ worker = "STOPPED"
      /\ login = [a \in Logins |-> "ABSENT"] /\ interactions = {}
      /\ cancel = [a \in Logins |-> "none"]
  BY DEF Init, None
<1>2. TypeOK
  <2>1. 1 \in Credentials /\ 1 \in 0 .. MaxCredentials /\ 0 \in 0 .. MaxCredentials
        /\ 0 \in 0 .. MaxRestarts
    BY LoginAssumption DEF Credentials
  <2>2. active \in Credentials \cup {None} /\ issued \in 0 .. MaxCredentials
    BY <2>1 DEF Init
  <2>3. /\ login \in [Logins -> LoginStates] /\ operation \in [Logins -> OperationStates]
        /\ task \in [Logins -> Task] /\ cancel \in [Logins -> CancelSteps]
        /\ file \in [Trees -> Credentials \cup {None, Gone}]
        /\ target \in [Logins -> Trees \cup {None}]
    BY <1>1, NoTaskType DEF Init, LoginStates, OperationStates, CancelSteps
  <2>4. call \in Call /\ stop \in Stop
    BY <1>1, NoCallType DEF NoStop, Stop
  <2>. QED
    BY <1>1, <2>1, <2>2, <2>3, <2>4 DEF Init, TypeOK
<1>3. RuntimeInv
  BY <1>1 DEF RuntimeInv, LockExclusive, TreesThere, Owned, NoTask, NoCall, Holding,
              Locked, Shielded, Cleanup, WithRuntime, CallWithRuntime, CallHolds,
              CallLocked
<1>4. AttendedInv
  BY <1>1 DEF AttendedInv, Beginnings, CancelAccepted, UnfinishedIsAttended, NoTask,
              Unpublished, Cancellable, Unfinished
<1>5. CredentialInv
  <2>1. IssuedBefore
    BY <1>1, <1>2 DEF IssuedBefore, TypeOK, NoTask, NoCall, None, Gone, Credentials
  <2>2. LoginKeeps
    BY <1>1 DEF LoginKeeps, Keeps, NoTask, Holding, Locked, Shielded, Cleanup, Settled,
                Using
  <2>3. CallKeeps /\ Marked /\ CredentialKept
    BY <1>1 DEF CallKeeps, NoCall, CallHolds, CallLocked, Marked, Stored, CredentialKept
  <2>. QED
    BY <2>1, <2>2, <2>3 DEF CredentialInv
<1>. QED
  BY <1>2, <1>3, <1>4, <1>5 DEF LoginInv

LEMMA NextLogin == LoginInv /\ [Next]_vars => LoginInv'
<1>. SUFFICES ASSUME LoginInv, [Next]_vars PROVE LoginInv'
  OBVIOUS
<1>1. TypeOK'
  BY TypeStep DEF LoginInv, RuntimeInv
<1>2. RuntimeInv'
  BY LockStep, TreesStep, OwnedStep DEF LoginInv, RuntimeInv, AttendedInv
<1>3. AttendedInv'
  BY BeginningsStep, CancellationStep, AttendedStep DEF LoginInv, AttendedInv
<1>4. CredentialInv'
  BY IssuedStep, LoginKeepsStep, CallKeepsStep, MarkedStep, KeptStep
     DEF LoginInv, RuntimeInv, AttendedInv, CredentialInv
<1>. QED
  BY <1>1, <1>2, <1>3, <1>4 DEF LoginInv

(* The invariant holds in every reachable state, for every number of       *)
(* sign-ins, credentials, trees and restarts.                              *)
THEOREM LoginInvariant == Spec => []LoginInv
BY InitLogin, NextLogin, PTL DEF Spec

(* Every variable has its type (Login.TypeOK).                             *)
THEOREM TypeCorrect == Spec => []TypeOK
<1>1. LoginInv => TypeOK
  BY DEF LoginInv
<1>. QED
  BY LoginInvariant, <1>1, PTL

(* A sign-in whose row keeps out any other has a coroutine, or a           *)
(* cancellation, that will end it, until a shutdown: no early return,      *)
(* exception, cancellation or restart leaves one behind                    *)
(* (Login.UnfinishedIsAttended).                                           *)
THEOREM RowsAttended == Spec => []UnfinishedIsAttended
<1>1. LoginInv => UnfinishedIsAttended
  BY DEF LoginInv, AttendedInv
<1>. QED
  BY LoginInvariant, <1>1, PTL

(* A registered runtime has an owner who will remove it, or a cancelled    *)
(* cleanup has left it (Login.RuntimeOwned).                               *)
THEOREM RuntimesOwned == Spec => []RuntimeOwned
<1>1. WithRuntime \subseteq Holding /\ CallWithRuntime \subseteq CallHolds
  BY DEF WithRuntime, Holding, Locked, Shielded, Cleanup, CallWithRuntime, CallHolds,
         CallLocked
<1>2. LoginInv => RuntimeOwned
  BY <1>1 DEF LoginInv, RuntimeInv, Owned, RuntimeOwned
<1>. QED
  BY LoginInvariant, <1>2, PTL

(* Whatever fails, is cancelled or crashes while Codex renews the managed  *)
(* credential, the newest one is stored or in a tree, unless stop() or the *)
(* end of the container deleted it (Login.CredentialKept).                 *)
THEOREM CredentialNeverLost == Spec => []CredentialKept
<1>1. LoginInv => CredentialKept
  BY DEF LoginInv, CredentialInv
<1>. QED
  BY LoginInvariant, <1>1, PTL

(* An account that looks healthy has the newest credential stored          *)
(* (Login.HealthyMeansStored).                                             *)
THEOREM HealthyIsStored == Spec => []HealthyMeansStored
<1>1. LoginInv => HealthyMeansStored
  BY DEF LoginInv, CredentialInv, Marked, Stored, HealthyMeansStored
<1>. QED
  BY LoginInvariant, <1>1, PTL

(* A step that promotes the credential of a sign-in finds its row in       *)
(* VERIFYING_ACCOUNT, which an accepted cancellation has left              *)
(* (Login.CancelledNeverPromotes).                                         *)
THEOREM CancelledNeverPromote == Spec => CancelledNeverPromotes
<1>1. ASSUME LoginInv, Next,
             NEW a \in Logins, cancel[a] \notin {"none", "asked"},
             task[a].pc = "promote", task'[a].pc # "promote"
      PROVE  active' = active \/ restarts' # restarts
  <2>1. ASSUME NEW b \in Logins, StartLogin(b, TRUE) \/ StartLogin(b, FALSE)
                  \/ EnterLogin(b) \/ LoginStep(b) \/ CancelRequest(b) \/ CancelStep(b)
        PROVE  active' = active \/ PromoteLogin(b) \/ PersistFork(b)
    BY <2>1 DEF StartLogin, EnterLogin, LoginStep, CancelRequest, CancelStep, RecordLogin,
       StartingRuntime, BootLogin, StartingLogin, AskLogin, Ready, AwaitUser, Verifying,
       Verify, DiscardSource, CleanUp, FailLogin, ForkUse, BootFork, Rotate, CaptureFork,
       CleanFork, FinishFork, AbandonFork, Unfork, UnfinishFork, BranchFork, CommitLogin,
       Interrupted, CancelLogin, CancelBegin, CancelLook, CancelSend, CancelState,
       CancelOperation, CancelTask,
       CancelUndo, CancelInterrupted, bundleVars
  <2>2. CASE CallRequest \/ CallEnter \/ CallStep \/ (\E deletes \in BOOLEAN :
             StopRequest(deletes)) \/ StopStep \/ Close \/ CloseRuntimes
    <3>1. active' = active \/ CallPromote \/ DeleteAccount
      BY <2>2 DEF CallRequest, CallEnter, CallStep, StopRequest, StopStep, Close, CloseRuntimes, CallUse,
         CallStart, CallCodex, CallCheckpoint, CallCleanUp, CallFinish, CallRecord,
         CallInterrupted, StopLook, StopRuntime, bundleVars
    <3>2. CallPromote \/ DeleteAccount => task' = task
      BY DEF CallPromote, DeleteAccount
    <3>. QED
      BY <1>1, <3>1, <3>2
  <2>3. CASE Restart
    BY <1>1, <2>3, ConstantTypes DEF Restart, LoginInv, TypeOK
  <2>4. ASSUME NEW b \in Logins, PromoteLogin(b) \/ PersistFork(b)
        PROVE  active' = active
    <3>1. \A c \in Logins \ {b} : task'[c] = task[c]
      BY <1>1, <2>4, RaisedTask DEF PromoteLogin, PersistFork, LoginInv, TypeOK
    <3>2. b = a /\ PromoteLogin(a)
      BY <1>1, <2>4, <3>1 DEF PersistFork, At
    <3>3. ~Promotable(a)
      BY <1>1 DEF Promotable, LoginInv, AttendedInv, CancelAccepted, Cancellable
    <3>. QED
      BY <3>2, <3>3 DEF PromoteLogin
  <2>. QED
    BY <1>1, <2>1, <2>2, <2>3, <2>4 DEF Next
<1>2. LoginInv /\ [Next]_vars =>
        [\A a \in Logins : cancel[a] \notin {"none", "asked"} /\ task[a].pc = "promote"
                           /\ task'[a].pc # "promote"
            => active' = active \/ restarts' # restarts]_vars
  BY <1>1
<1>. QED
  BY LoginInvariant, <1>2, PTL DEF Spec, CancelledNeverPromotes
=============================================================================
