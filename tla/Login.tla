------------------------------- MODULE Login --------------------------------
(***************************************************************************)
(* The sign-ins of one account and the credential they establish: the      *)
(* states of a sign-in and its cancellation, the fork of the new           *)
(* credential into a managed and an exported one, the managed calls that   *)
(* use the stored credential, and the runtimes, trees of files in which    *)
(* Codex holds a credential while it runs (services.py, runtime.py).       *)
(*                                                                         *)
(* Grain: one action per database job or awaited call, as in Activation.   *)
(* Accounts share no rows and no trees.                                    *)
(*                                                                         *)
(* A credential is a number, in order of issue; 0 is none.  A tree is a    *)
(* number as well; the number of a tree that is gone may be given again.   *)
(*                                                                         *)
(* Abstracted: the interaction's texts, nonce and callback, the identity   *)
(* read from Codex (it may or may not be the expected one), incidents, the *)
(* usage read by a managed call, retired bundles, accounts.enabled.        *)
(* Database jobs and the deletion of files are assumed not to fail.        *)
(***************************************************************************)
EXTENDS Integers, FiniteSets

CONSTANTS MaxLogins,       (* bound: rows in login_attempts                *)
          MaxCredentials,  (* bound: credentials upstream issues           *)
          MaxTrees,        (* bound: trees on disk                         *)
          MaxRestarts,     (* bound: process restarts                      *)
          Commands         (* bound: what operator and poller may ask for  *)

AllCommands == {"login", "cancel", "call", "disable", "delete", "close"}

ASSUME LoginAssumption ==
    /\ MaxLogins \in Nat \ {0}
    /\ MaxCredentials \in Nat \ {0}
    /\ MaxTrees \in Nat \ {0}
    /\ MaxRestarts \in Nat
    /\ Commands \subseteq AllCommands

Logins      == 1 .. MaxLogins
Credentials == 1 .. MaxCredentials
Trees       == 1 .. MaxTrees
None        == 0
Gone        == -1

VARIABLES
    login,        (* login_attempts.state                                  *)
    operation,    (* operations.state of the row of each sign-in           *)
    task,         (* the coroutine of each sign-in                         *)
    interactions, (* sign-ins with an entry in self.interactions           *)
    cancel,       (* cancellation of each sign-in; in the end the state of *)
                  (* its own operation                                     *)
    target,       (* the runtime a cancellation has found: its tree        *)
    call,         (* a managed call: refresh or activation                 *)
    stop,         (* disable or delete, which stop the runtime             *)
    auth, worker, (* account_state                                         *)
    deleted,      (* accounts.deleted_at_ms is set                         *)
    active,       (* credential of the ACTIVE bundle                       *)
    export,       (* credential of the EXPORT bundle                       *)
    slot,         (* RuntimeManager._runtimes: its tree                    *)
    held,         (* RuntimeManager._quarantined: its tree                 *)
    file,         (* auth.json in each tree: a credential, None, or Gone   *)
    phase,        (* of the process: up, closing                           *)
    restarts,
    issued,       (* upstream: credentials issued so far                   *)
    live,         (* upstream: the newest of the managed lineage           *)
    leaked,       (* history: a cancellation hit the cleanup of a runtime  *)
    erased        (* history: stop() or a crash deleted the only copy of   *)
                  (* live                                                  *)

loginVars   == <<login, operation>>
accountVars == <<auth, worker, deleted>>
bundleVars  == <<active, export>>
runtimeVars == <<slot, held, file>>
processVars == <<phase, restarts>>
issueVars   == <<issued, live>>
vars == <<loginVars, task, interactions, cancel, target, call, stop,
          accountVars, bundleVars, runtimeVars, processVars, issueVars, leaked,
          erased>>
-----------------------------------------------------------------------------
Failed     == {"FAILED_RETRYABLE", "FAILED_ACTION_REQUIRED"}
Final      == {"COMPLETED", "CANCELLED", "RESTART_REQUIRED"} \cup Failed
Cancellable == {"CREATED", "STARTING_RUNTIME", "STARTING_LOGIN",
                "WAITING_FOR_USER", "VERIFYING_ACCOUNT"}
Unfinished == Cancellable \cup {"CHECKPOINTING_CREDENTIAL", "CANCEL_REQUESTED"}
LoginStates == {"ABSENT"} \cup Unfinished \cup Final
OperationStates == {"ABSENT", "QUEUED", "RUNNING", "WAITING_FOR_USER",
                    "SUCCEEDED", "FAILED", "CANCELLED"}

(* Where a sign-in stands.  Under the lock of its runtime it cannot be     *)
(* stopped; in a shielded step a cancellation waits.                       *)
Locked   == {"begin", "ask", "verify", "rotate", "capture"}
Shielded == {"promote", "discard", "persist", "clean", "finish"}
Cleanup  == {"drop", "keep", "abandon", "unfork", "unfinish", "keepLate"}
Holding  == {"starting", "boot", "ready", "user", "verifying", "use", "fork",
             "branch", "commit"} \cup Locked \cup Shielded \cup Cleanup
Steps    == {"free", "asked", "created", "fail"} \cup Holding
NoTask == [pc |-> "free", tree |-> None, source |-> None,
           payload |-> None, kind |-> "ACTIVE", to |-> "FAILED_RETRYABLE",
           recover |-> FALSE, cut |-> FALSE]
Task == [pc : Steps, tree : Trees \cup {None}, source : Credentials \cup {None},
         payload : Credentials \cup {None}, kind : {"ACTIVE", "EXPORT"},
         to : {"RESTART_REQUIRED"} \cup Failed, recover : BOOLEAN, cut : BOOLEAN]

Requesting  == {"asked", "accepted"}
Cancelling  == {"look", "send", "state", "operation", "own", "undo"}
CancelSteps == {"none", "SUCCEEDED", "FAILED"} \cup Requesting \cup Cancelling

CallLocked == {"call", "check", "promote"}
CallHolds  == {"use", "start", "discard", "keep", "release", "quarantine"}
              \cup CallLocked
NoCall == [pc |-> "idle", tree |-> None, source |-> None, failed |-> FALSE]
Call   == [pc : {"idle", "wait", "record"} \cup CallHolds,
           tree : Trees \cup {None}, source : Credentials \cup {None},
           failed : BOOLEAN]

NoStop == [pc |-> "idle", tree |-> None, deletes |-> FALSE]
Stop   == [pc : {"idle", "look", "stop", "delete"}, tree : Trees \cup {None},
           deletes : BOOLEAN]

LockFree ==
    /\ \A a \in Logins : task[a].pc \notin Holding
    /\ call.pc \notin CallHolds
RuntimeLocked ==
    \/ \E a \in Logins : task[a].pc \in Locked
    \/ call.pc \in CallLocked

Init ==
    /\ login = [a \in Logins |-> "ABSENT"]
    /\ operation = [a \in Logins |-> "ABSENT"]
    /\ task = [a \in Logins |-> NoTask]
    /\ interactions = {}
    /\ cancel = [a \in Logins |-> "none"]
    /\ target = [a \in Logins |-> None]
    /\ call = NoCall
    /\ stop = NoStop
    /\ \/ auth = "VERIFIED" /\ active = 1 /\ issued = 1
       \/ auth = "AUTH_REQUIRED" /\ active = None /\ issued = 0
    /\ live = active
    /\ worker = "STOPPED" /\ deleted = FALSE
    /\ export = None
    /\ slot = None /\ held = None
    /\ file = [t \in Trees |-> Gone]
    /\ phase = "up" /\ restarts = 0
    /\ leaked = FALSE /\ erased = FALSE
-----------------------------------------------------------------------------
(* RuntimeManager.  A tree that something still refers to is not reused.   *)
Unused(t) ==
    /\ file[t] = Gone
    /\ t \notin {slot, held, call.tree, stop.tree}
    /\ \A a \in Logins : t \notin {task[a].tree, target[a]}

(* start_fresh refuses while the account has a runtime, held or not.       *)
StartFresh(t, credential) ==
    /\ slot = None /\ held = None
    /\ Unused(t) /\ \A u \in Trees : u < t => ~Unused(u)
    /\ slot' = t
    /\ file' = [file EXCEPT ![t] = credential]
    /\ UNCHANGED held

Forget(t)  == slot' = IF slot = t THEN None ELSE slot
Discard(t) == Forget(t) /\ file' = [file EXCEPT ![t] = Gone] /\ UNCHANGED held
ArchiveRegistered(t) ==      (* mutant: the runtime stays registered       *)
    UNCHANGED runtimeVars
Archive(t) == Forget(t) /\ UNCHANGED <<held, file>>
PreserveForgotten(t) ==      (* mutant: as Discard                         *)
    Discard(t)
Preserve(t) == Forget(t) /\ held' = t /\ UNCHANGED file

(* The credential the upstream issues next.                                *)
Issues(t, lineage) ==
    /\ issued < MaxCredentials
    /\ issued' = issued + 1
    /\ file' = [file EXCEPT ![t] = issued + 1]
    /\ live' = IF lineage THEN issued + 1 ELSE live
-----------------------------------------------------------------------------
(* A sign-in.  An exception leads to the handler of the step it hits.      *)
Handler(a) ==
    CASE task[a].pc \in {"begin", "ask", "ready", "user"} -> "drop"
      [] task[a].pc \in {"verifying", "verify"}           -> "keep"
      [] task[a].pc = "promote"                           -> "keepLate"
      [] task[a].pc = "fork"                              -> "abandon"
      [] task[a].pc \in {"rotate", "capture", "finish"}   -> "unfork"
      [] task[a].pc = "use" /\ task[a].kind = "EXPORT"
            /\ ~task[a].cut                               -> "commit"
      [] OTHER                                            -> "fail"

Raises(a, to) ==
    task' = [task EXCEPT ![a].pc = Handler(a), ![a].to = to, ![a].cut = FALSE]
Rejected(a) ==
    Raises(a, IF task[a].cut THEN "RESTART_REQUIRED" ELSE "FAILED_RETRYABLE")
Cancelled(a) == Raises(a, "RESTART_REQUIRED")

(* A job that is being executed commits although its task was cancelled.   *)
Continues(a, step) ==
    IF task[a].cut THEN Cancelled(a) ELSE task' = [task EXCEPT ![a].pc = step]

(* The next awaited call, which a cancelled task does not reach.           *)
At(a, step) == task[a].pc = step
Reaches(a, step) == At(a, step) /\ ~task[a].cut

Interruptible ==
    {"created", "starting", "boot", "use", "fork", "branch", "commit", "ready",
     "user", "verifying"} \cup Locked

Interrupted(a) ==
    /\ task[a].cut /\ task[a].pc \in Interruptible
    /\ Cancelled(a)
    /\ interactions' = interactions \ {a}
    /\ UNCHANGED <<loginVars, cancel, target, call, stop, accountVars,
                   bundleVars, runtimeVars, processVars, issueVars, leaked,
                   erased>>

(* start_login: the account is read, the operation inserted ...            *)
StartLogin(a, recover) ==
    /\ "login" \in Commands /\ phase = "up" /\ ~deleted
    /\ login[a] = "ABSENT" /\ operation[a] = "ABSENT"
    /\ \A b \in Logins : b < a => operation[b] # "ABSENT"
    /\ worker = "QUARANTINED" => recover
    /\ operation' = [operation EXCEPT ![a] = "QUEUED"]
    /\ task' = [task EXCEPT ![a].pc = "asked", ![a].recover = recover]
    /\ UNCHANGED <<login, interactions, cancel, target, call, stop,
                   accountVars, bundleVars, runtimeVars, processVars,
                   issueVars, leaked, erased>>

(* ... and the attempt, unless another sign-in of the account is active.   *)
RecordLogin(a) ==
    /\ At(a, "asked")
    /\ IF \E b \in Logins : login[b] \in Unfinished
       THEN /\ operation' = [operation EXCEPT ![a] = "FAILED"]
            /\ task' = [task EXCEPT ![a] = NoTask]
            /\ UNCHANGED <<login, worker>>
       ELSE /\ login' = [login EXCEPT ![a] = "CREATED"]
            /\ worker' = IF task[a].recover /\ auth = "AUTH_REQUIRED"
                            /\ worker = "QUARANTINED" THEN "STOPPED" ELSE worker
            /\ task' = [task EXCEPT ![a].pc = "created"]
            /\ UNCHANGED operation
    /\ UNCHANGED <<interactions, cancel, target, call, stop, auth, deleted,
                   bundleVars, runtimeVars, processVars, issueVars, leaked,
                   erased>>

(* _run_login: the credential lock, held to the end, then two jobs.        *)
EnterLogin(a) ==
    /\ Reaches(a, "created") /\ LockFree
    /\ operation' = [operation EXCEPT ![a] = "RUNNING"]
    /\ task' = [task EXCEPT ![a].pc = "starting"]
    /\ UNCHANGED <<login, interactions, cancel, target, call, stop,
                   accountVars, bundleVars, runtimeVars, processVars,
                   issueVars, leaked, erased>>

StartingRuntime(a) ==
    /\ At(a, "starting")
    /\ login' = [login EXCEPT ![a] = "STARTING_RUNTIME"]
    /\ Continues(a, "boot")
    /\ UNCHANGED <<operation, interactions, cancel, target, call, stop,
                   accountVars, bundleVars, runtimeVars, processVars,
                   issueVars, leaked, erased>>

(* _capture_login: a runtime without a credential.                         *)
BootLogin(a) ==
    /\ Reaches(a, "boot")
    /\ \/ \E t \in Trees :
             /\ StartFresh(t, None)
             /\ task' = [task EXCEPT ![a].pc = "begin", ![a].tree = t]
       \/ Rejected(a) /\ UNCHANGED runtimeVars
    /\ UNCHANGED <<loginVars, interactions, cancel, target, call, stop,
                   accountVars, bundleVars, processVars, issueVars, leaked,
                   erased>>

StartingLogin(a) ==
    /\ At(a, "begin")
    /\ login' = [login EXCEPT ![a] = "STARTING_LOGIN"]
    /\ Continues(a, "ask")
    /\ UNCHANGED <<operation, interactions, cancel, target, call, stop,
                   accountVars, bundleVars, runtimeVars, processVars,
                   issueVars, leaked, erased>>

AskLogin(a) ==
    /\ Reaches(a, "ask")
    /\ \/ /\ interactions' = interactions \cup {a}
          /\ task' = [task EXCEPT ![a].pc = "ready"]
       \/ \E to \in Failed : Raises(a, to) /\ UNCHANGED interactions
    /\ UNCHANGED <<loginVars, cancel, target, call, stop, accountVars,
                   bundleVars, runtimeVars, processVars, issueVars, leaked,
                   erased>>

Ready(a) ==
    /\ At(a, "ready")
    /\ IF login[a] = "STARTING_LOGIN"
       THEN /\ login' = [login EXCEPT ![a] = "WAITING_FOR_USER"]
            /\ operation' = [operation EXCEPT ![a] = "WAITING_FOR_USER"]
            /\ Continues(a, "user")
            /\ interactions' = IF task[a].cut THEN interactions \ {a}
                                              ELSE interactions
       ELSE Rejected(a) /\ interactions' = interactions \ {a}
            /\ UNCHANGED loginVars
    /\ UNCHANGED <<cancel, target, call, stop, accountVars, bundleVars,
                   runtimeVars, processVars, issueVars, leaked, erased>>

(* _await_login_completion: the user approves, and Codex writes the new    *)
(* credential into the tree; or denies, waits too long, or the runtime is  *)
(* stopped.                                                                *)
AwaitUser(a) ==
    /\ Reaches(a, "user")
    /\ interactions' = interactions \ {a}
    /\ \/ /\ file[task[a].tree] # Gone
          /\ Issues(task[a].tree, FALSE)
          /\ task' = [task EXCEPT ![a].pc = "verifying"]
       \/ Rejected(a) /\ UNCHANGED <<file, issueVars>>
    /\ UNCHANGED <<loginVars, cancel, target, call, stop, accountVars,
                   bundleVars, slot, held, processVars, leaked, erased>>

Verifying(a) ==
    /\ At(a, "verifying")
    /\ IF login[a] = "WAITING_FOR_USER"
       THEN /\ login' = [login EXCEPT ![a] = "VERIFYING_ACCOUNT"]
            /\ Continues(a, "verify")
       ELSE Rejected(a) /\ UNCHANGED login
    /\ UNCHANGED <<operation, interactions, cancel, target, call, stop,
                   accountVars, bundleVars, runtimeVars, processVars,
                   issueVars, leaked, erased>>

(* The identity is read and checked, the runtime closed and captured.  A   *)
(* cancellation that arrives in close() is lost when the process ends.     *)
Verify(a) ==
    /\ At(a, "verify")
    /\ \/ /\ file[task[a].tree] # Gone
          /\ task' = [task EXCEPT ![a].pc = "promote", ![a].cut = FALSE,
                                  ![a].source = file[task[a].tree]]
       \/ \E to \in Failed : Raises(a, to)
    /\ UNCHANGED <<loginVars, interactions, cancel, target, call, stop,
                   accountVars, bundleVars, runtimeVars, processVars,
                   issueVars, leaked, erased>>
-----------------------------------------------------------------------------
(* _promote_login_source: the sign-in takes over the bundle, if nobody has *)
(* cancelled it.                                                           *)
PromotableUncancelled(a) ==  (* mutant: any sign-in that got here          *)
    login[a] \in {"VERIFYING_ACCOUNT", "CANCEL_REQUESTED", "CANCELLED"}
Promotable(a) == login[a] = "VERIFYING_ACCOUNT"

PromoteLogin(a) ==
    /\ At(a, "promote")
    /\ IF Promotable(a)
       THEN /\ login' = [login EXCEPT ![a] = "CHECKPOINTING_CREDENTIAL"]
            /\ active' = task[a].source /\ live' = task[a].source
            /\ task' = [task EXCEPT ![a].pc = "discard"]
       ELSE /\ Raises(a, "FAILED_RETRYABLE")
            /\ UNCHANGED <<login, active, live>>
    /\ UNCHANGED <<operation, interactions, cancel, target, call, stop,
                   accountVars, export, runtimeVars, processVars, issued,
                   leaked, erased>>

DiscardSource(a) ==
    /\ At(a, "discard")
    /\ Discard(task[a].tree)
    /\ Continues(a, "use")
    /\ UNCHANGED <<loginVars, interactions, cancel, target, call, stop,
                   accountVars, bundleVars, processVars, issueVars, leaked,
                   erased>>

(* The handlers of a failed sign-in.  A cancellation that arrives while    *)
(* they wait for the manager's lock leaves the runtime registered.         *)
CleanUp(a) ==
    /\ task[a].pc \in {"drop", "keep", "keepLate"}
    /\ \/ /\ IF At(a, "drop") THEN Discard(task[a].tree)
                              ELSE Preserve(task[a].tree)
          /\ task' = [task EXCEPT ![a].pc = "fail", ![a].cut = FALSE]
          /\ UNCHANGED leaked
       \/ /\ task[a].cut /\ ~At(a, "keepLate")
          /\ task' = [task EXCEPT ![a].pc = "fail", ![a].cut = FALSE,
                                  ![a].to = "RESTART_REQUIRED"]
          /\ leaked' = TRUE
          /\ UNCHANGED runtimeVars
    /\ UNCHANGED <<loginVars, interactions, cancel, target, call, stop,
                   accountVars, bundleVars, processVars, issueVars, erased>>

(* _fail_login, with the lock released.                                    *)
FailableUnpromoted ==        (* mutant: those before the checkpoint only   *)
    Cancellable \cup {"CANCEL_REQUESTED"}
Failable == Unfinished

(* The handler of a cancellation reads the row first, and leaves alone one *)
(* that says CANCELLED; at a shutdown the row may say so only afterwards.  *)
LeftAlone(a) == task[a].to = "RESTART_REQUIRED" /\ login[a] = "CANCELLED"

FailLogin(a) ==
    /\ At(a, "fail")
    /\ \/ /\ LeftAlone(a) => phase = "closing"
          /\ operation' = [operation EXCEPT ![a] =
                 IF @ \in {"SUCCEEDED", "FAILED", "CANCELLED"} THEN @ ELSE "FAILED"]
          /\ IF login[a] \in Failable
             THEN /\ login' = [login EXCEPT ![a] = task[a].to]
                  /\ auth' = IF auth = "VERIFIED" /\ active # None
                             THEN "VERIFIED" ELSE "AUTH_REQUIRED"
             ELSE UNCHANGED <<login, auth>>
       \/ (task[a].cut \/ LeftAlone(a)) /\ UNCHANGED <<loginVars, auth>>
    /\ task' = [task EXCEPT ![a] = NoTask]
    /\ UNCHANGED <<interactions, cancel, target, call, stop, worker, deleted,
                   bundleVars, runtimeVars, processVars, issueVars, leaked,
                   erased>>
-----------------------------------------------------------------------------
(* _issue_fork_candidate, for the managed credential and then, if there is *)
(* none yet, for the exported one.                                         *)
ForkUse(a) ==
    /\ At(a, "use")
    /\ IF worker = "STOPPED" THEN worker' = "IN_USE" /\ Continues(a, "fork")
                             ELSE Rejected(a) /\ UNCHANGED worker
    /\ UNCHANGED <<loginVars, interactions, cancel, target, call, stop, auth,
                   deleted, bundleVars, runtimeVars, processVars, issueVars,
                   leaked, erased>>

BootFork(a) ==
    /\ Reaches(a, "fork")
    /\ \/ \E t \in Trees :
             /\ StartFresh(t, task[a].source)
             /\ task' = [task EXCEPT ![a].pc = "rotate", ![a].tree = t]
       \/ Rejected(a) /\ UNCHANGED runtimeVars
    /\ UNCHANGED <<loginVars, interactions, cancel, target, call, stop,
                   accountVars, bundleVars, processVars, issueVars, leaked,
                   erased>>

(* account(refresh_token=True): Codex stores a new credential, but the     *)
(* answer may be an error, or name another identity.                       *)
Rotate(a) ==
    /\ Reaches(a, "rotate")
    /\ \/ /\ file[task[a].tree] # Gone
          /\ Issues(task[a].tree, task[a].kind = "ACTIVE")
          /\ \/ task' = [task EXCEPT ![a].pc = "capture"]
             \/ \E to \in Failed : Raises(a, to)
       \/ (\E to \in Failed : Raises(a, to)) /\ UNCHANGED <<file, issueVars>>
    /\ UNCHANGED <<loginVars, interactions, cancel, target, call, stop,
                   accountVars, bundleVars, slot, held, processVars, leaked,
                   erased>>

(* As above: close() may lose a cancellation.                              *)
CaptureFork(a) ==
    /\ At(a, "capture")
    /\ \/ task' = [task EXCEPT ![a].pc = "persist", ![a].cut = FALSE,
                               ![a].payload = file[task[a].tree]]
       \/ Raises(a, "FAILED_RETRYABLE")
    /\ UNCHANGED <<loginVars, interactions, cancel, target, call, stop,
                   accountVars, bundleVars, runtimeVars, processVars,
                   issueVars, leaked, erased>>

PersistFork(a) ==
    /\ At(a, "persist")
    /\ IF task[a].kind = "ACTIVE"
       THEN active' = task[a].payload /\ UNCHANGED export
       ELSE /\ export' = IF export = None THEN task[a].payload ELSE export
            /\ UNCHANGED active
    /\ task' = [task EXCEPT ![a].pc = "clean"]
    /\ UNCHANGED <<loginVars, interactions, cancel, target, call, stop,
                   accountVars, runtimeVars, processVars, issueVars, leaked,
                   erased>>

CleanFork(a) ==
    /\ At(a, "clean")
    /\ Discard(task[a].tree)
    /\ task' = [task EXCEPT ![a].pc = "finish"]
    /\ UNCHANGED <<loginVars, interactions, cancel, target, call, stop,
                   accountVars, bundleVars, processVars, issueVars, leaked,
                   erased>>

FinishFork(a) ==
    /\ At(a, "finish")
    /\ worker' = "STOPPED"
    /\ Continues(a, IF task[a].kind = "ACTIVE" THEN "branch" ELSE "commit")
    /\ UNCHANGED <<loginVars, interactions, cancel, target, call, stop, auth,
                   deleted, bundleVars, runtimeVars, processVars, issueVars,
                   leaked, erased>>

(* _fork_credentials forgives every failure of the export but a            *)
(* cancellation.                                                           *)
AfterForkRepeat(a) ==        (* mutant: tries the export until it succeeds *)
    IF task[a].kind = "EXPORT" /\ task[a].to # "RESTART_REQUIRED"
    THEN "use" ELSE "fail"
AfterFork(a) ==
    IF task[a].kind = "EXPORT" /\ task[a].to # "RESTART_REQUIRED"
    THEN "commit" ELSE "fail"

AbandonFork(a) ==
    /\ At(a, "abandon")
    /\ \/ worker' = "STOPPED"
       \/ task[a].cut /\ UNCHANGED worker
    /\ task' = [task EXCEPT
                  ![a].pc  = IF task[a].cut THEN "fail" ELSE AfterFork(a),
                  ![a].to  = IF task[a].cut THEN "RESTART_REQUIRED" ELSE @,
                  ![a].cut = FALSE]
    /\ UNCHANGED <<loginVars, interactions, cancel, target, call, stop, auth,
                   deleted, bundleVars, runtimeVars, processVars, issueVars,
                   leaked, erased>>

(* Only an export whose runtime could be closed is no evidence to be kept. *)
Unfork(a) ==
    /\ At(a, "unfork")
    /\ \/ task[a].kind = "EXPORT" /\ Archive(task[a].tree)
       \/ Preserve(task[a].tree)
    /\ task' = [task EXCEPT ![a].pc = "unfinish", ![a].cut = FALSE]
    /\ UNCHANGED <<loginVars, interactions, cancel, target, call, stop,
                   accountVars, bundleVars, processVars, issueVars, leaked,
                   erased>>

Quarantine == worker' = "QUARANTINED" /\ auth' = "AUTH_REQUIRED"

UnsafeExport(a) ==           (* mutant: the managed fork is safe as well   *)
    task[a].kind = "EXPORT" /\ held = task[a].tree
Unsafe(a) == held = task[a].tree

UnfinishFork(a) ==
    /\ At(a, "unfinish")
    /\ IF Unsafe(a) THEN Quarantine
                    ELSE worker' = "STOPPED" /\ UNCHANGED auth
    /\ task' = [task EXCEPT ![a].pc = AfterFork(a), ![a].cut = FALSE]
    /\ UNCHANGED <<loginVars, interactions, cancel, target, call, stop,
                   deleted, bundleVars, runtimeVars, processVars, issueVars,
                   leaked, erased>>

BranchFork(a) ==
    /\ Reaches(a, "branch")
    /\ IF active = None THEN Rejected(a)
       ELSE task' = IF export # None
                    THEN [task EXCEPT ![a].pc = "commit"]
                    ELSE [task EXCEPT ![a].pc = "use", ![a].kind = "EXPORT"]
    /\ UNCHANGED <<loginVars, interactions, cancel, target, call, stop,
                   accountVars, bundleVars, runtimeVars, processVars,
                   issueVars, leaked, erased>>

CommitLogin(a) ==
    /\ At(a, "commit")
    /\ IF login[a] = "CHECKPOINTING_CREDENTIAL"
       THEN /\ login' = [login EXCEPT ![a] = "COMPLETED"]
            /\ operation' = [operation EXCEPT ![a] = "SUCCEEDED"]
            /\ auth' = "VERIFIED" /\ worker' = "STOPPED"
            /\ IF task[a].cut THEN Cancelled(a)
                              ELSE task' = [task EXCEPT ![a] = NoTask]
       ELSE Rejected(a) /\ UNCHANGED <<loginVars, auth, worker>>
    /\ UNCHANGED <<interactions, cancel, target, call, stop, deleted,
                   bundleVars, runtimeVars, processVars, issueVars, leaked,
                   erased>>
-----------------------------------------------------------------------------
(* cancel_login, and _cancel_login_runtime in the background.              *)
CancelAt(a, step) == cancel' = [cancel EXCEPT ![a] = step]

(* The interaction is looked up before the job, which may find the sign-in *)
(* further on by then.                                                     *)
CancelRequest(a) ==
    /\ "cancel" \in Commands /\ phase = "up"
    /\ cancel[a] = "none" /\ a \in interactions
    /\ CancelAt(a, "asked")
    /\ UNCHANGED <<loginVars, task, interactions, target, call, stop,
                   accountVars, bundleVars, runtimeVars, processVars,
                   issueVars, leaked, erased>>

CancelLogin(a) ==
    /\ cancel[a] = "asked"
    /\ IF login[a] \in Cancellable
       THEN /\ login' = [login EXCEPT ![a] = "CANCEL_REQUESTED"]
            /\ CancelAt(a, "accepted")
       ELSE CancelAt(a, "none") /\ UNCHANGED login
    /\ UNCHANGED <<operation, task, interactions, target, call, stop,
                   accountVars, bundleVars, runtimeVars, processVars,
                   issueVars, leaked, erased>>

(* Once the operation of the cancellation is inserted.                     *)
CancelBegin(a) ==
    /\ cancel[a] = "accepted"
    /\ interactions' = interactions \ {a}
    /\ CancelAt(a, "look")
    /\ UNCHANGED <<loginVars, task, target, call, stop, accountVars,
                   bundleVars, runtimeVars, processVars, issueVars, leaked,
                   erased>>

(* The request goes to whichever runtime the account has by now, as soon   *)
(* as its lock is free.                                                    *)
CancelLook(a) ==
    /\ phase = "up" /\ cancel[a] = "look"
    /\ CancelAt(a, IF slot = None THEN "undo" ELSE "send")
    /\ target' = [target EXCEPT ![a] = slot]
    /\ UNCHANGED <<loginVars, task, interactions, call, stop, accountVars,
                   bundleVars, runtimeVars, processVars, issueVars, leaked,
                   erased>>

CancelSend(a) ==
    /\ phase = "up" /\ cancel[a] = "send"
    /\ slot = target[a] => ~RuntimeLocked
    /\ \E step \in {"state", "undo"} : CancelAt(a, step)
    /\ target' = [target EXCEPT ![a] = None]
    /\ UNCHANGED <<loginVars, task, interactions, call, stop, accountVars,
                   bundleVars, runtimeVars, processVars, issueVars, leaked,
                   erased>>

CancelState(a) ==
    /\ cancel[a] = "state"
    /\ login' = [login EXCEPT ![a] = "CANCELLED"]
    /\ CancelAt(a, IF phase = "up" THEN "operation" ELSE "FAILED")
    /\ UNCHANGED <<operation, task, interactions, target, call, stop,
                   accountVars, bundleVars, runtimeVars, processVars,
                   issueVars, leaked, erased>>

CancelOperation(a) ==
    /\ cancel[a] = "operation"
    /\ operation' = [operation EXCEPT ![a] = "CANCELLED"]
    /\ CancelAt(a, IF phase = "up" THEN "own" ELSE "FAILED")
    /\ UNCHANGED <<login, task, interactions, target, call, stop, accountVars,
                   bundleVars, runtimeVars, processVars, issueVars, leaked,
                   erased>>

CancelTask(a) ==
    /\ phase = "up" /\ cancel[a] = "own"
    /\ CancelAt(a, "SUCCEEDED")
    /\ task' = [task EXCEPT ![a].cut = @ \/ ~At(a, "free")]
    /\ UNCHANGED <<loginVars, interactions, target, call, stop, accountVars,
                   bundleVars, runtimeVars, processVars, issueVars, leaked,
                   erased>>

Undone == "FAILED_RETRYABLE"

CancelUndo(a) ==
    /\ phase = "up" /\ cancel[a] = "undo"
    /\ login' = [login EXCEPT ![a] = Undone]
    /\ CancelAt(a, "FAILED")
    /\ UNCHANGED <<operation, task, interactions, target, call, stop,
                   accountVars, bundleVars, runtimeVars, processVars,
                   issueVars, leaked, erased>>

CancelInterrupted(a) ==
    /\ phase = "closing" /\ cancel[a] \in Cancelling
    /\ CancelAt(a, "FAILED")
    /\ target' = [target EXCEPT ![a] = None]
    /\ UNCHANGED <<loginVars, task, interactions, call, stop, accountVars,
                   bundleVars, runtimeVars, processVars, issueVars, leaked,
                   erased>>
-----------------------------------------------------------------------------
(* A managed call: refresh, then _run_managed, which checkpoints whatever  *)
(* Codex made of the credential; at last _record_usage_failure.            *)
CallGoes(step) == call' = [call EXCEPT !.pc = step]

CallRequest ==
    /\ "call" \in Commands /\ phase = "up" /\ call.pc = "idle"
    /\ auth = "VERIFIED" /\ worker = "STOPPED" /\ ~deleted
    /\ CallGoes("wait")
    /\ UNCHANGED <<loginVars, task, interactions, cancel, target, stop,
                   accountVars, bundleVars, runtimeVars, processVars,
                   issueVars, leaked, erased>>

CallEnter ==
    /\ phase = "up" /\ call.pc = "wait" /\ LockFree
    /\ call' = IF active = None THEN NoCall
               ELSE [call EXCEPT !.pc = "use", !.source = active]
    /\ UNCHANGED <<loginVars, task, interactions, cancel, target, stop,
                   accountVars, bundleVars, runtimeVars, processVars,
                   issueVars, leaked, erased>>

CallUse ==
    /\ phase = "up" /\ call.pc = "use"
    /\ IF worker = "STOPPED" THEN worker' = "IN_USE" /\ CallGoes("start")
                             ELSE call' = NoCall /\ UNCHANGED worker
    /\ UNCHANGED <<loginVars, task, interactions, cancel, target, stop, auth,
                   deleted, bundleVars, runtimeVars, processVars, issueVars,
                   leaked, erased>>

CallStart ==
    /\ call.pc = "start"
    /\ \/ /\ phase = "up"
          /\ \E t \in Trees :
                /\ StartFresh(t, call.source)
                /\ call' = [call EXCEPT !.pc = "call", !.tree = t]
       \/ CallGoes("release") /\ UNCHANGED runtimeVars
    /\ UNCHANGED <<loginVars, task, interactions, cancel, target, stop,
                   accountVars, bundleVars, processVars, issueVars, leaked,
                   erased>>

(* The call may succeed or fail, and Codex refresh the credential in it.   *)
CallCodex ==
    /\ call.pc = "call"
    /\ \E fails \in BOOLEAN :
          call' = [call EXCEPT !.pc = "check", !.failed = fails]
    /\ Issues(call.tree, TRUE) \/ UNCHANGED <<file, issueVars>>
    /\ UNCHANGED <<loginVars, task, interactions, cancel, target, stop,
                   accountVars, bundleVars, slot, held, processVars, leaked,
                   erased>>

CallCheckpoint ==
    /\ call.pc = "check"
    /\ \/ IF file[call.tree] = call.source THEN CallGoes("discard")
          ELSE call' = [call EXCEPT !.pc = "promote", !.source = file[call.tree]]
       \/ CallGoes("keep")
    /\ UNCHANGED <<loginVars, task, interactions, cancel, target, stop,
                   accountVars, bundleVars, runtimeVars, processVars,
                   issueVars, leaked, erased>>

CallPromote ==
    /\ call.pc = "promote"
    /\ active' = call.source
    /\ CallGoes("discard")
    /\ UNCHANGED <<loginVars, task, interactions, cancel, target, stop,
                   accountVars, export, runtimeVars, processVars, issueVars,
                   leaked, erased>>

CallCleanUp ==
    /\ \/ call.pc = "discard" /\ Discard(call.tree) /\ CallGoes("release")
       \/ call.pc = "keep" /\ Preserve(call.tree) /\ CallGoes("quarantine")
    /\ UNCHANGED <<loginVars, task, interactions, cancel, target, stop,
                   accountVars, bundleVars, processVars, issueVars, leaked,
                   erased>>

CallFinish ==
    /\ \/ /\ call.pc = "release"
          /\ worker' = "STOPPED" /\ UNCHANGED auth
          /\ call' = IF call.failed THEN [NoCall EXCEPT !.pc = "record"] ELSE NoCall
       \/ /\ call.pc = "quarantine"
          /\ Quarantine
          /\ call' = [NoCall EXCEPT !.pc = "record"]
    /\ UNCHANGED <<loginVars, task, interactions, cancel, target, stop,
                   deleted, bundleVars, runtimeVars, processVars, issueVars,
                   leaked, erased>>

CallRecord ==
    /\ call.pc = "record"
    /\ auth' \in {auth, "AUTH_REQUIRED"}
    /\ call' = NoCall
    /\ UNCHANGED <<loginVars, task, interactions, cancel, target, stop, worker,
                   deleted, bundleVars, runtimeVars, processVars, issueVars,
                   leaked, erased>>

CallInterrupted ==
    /\ phase = "closing" /\ call.pc \in {"wait", "use", "record"}
    /\ call' = NoCall
    /\ \/ UNCHANGED worker
       \/ call.pc = "use" /\ worker = "STOPPED" /\ worker' = "IN_USE"
    /\ UNCHANGED <<loginVars, task, interactions, cancel, target, stop, auth,
                   deleted, bundleVars, runtimeVars, processVars, issueVars,
                   leaked, erased>>
-----------------------------------------------------------------------------
(* set_enabled(False) and delete_account: RuntimeManager.stop waits for    *)
(* the lock of the runtime it has found, then closes and discards it.      *)
StopRequest(deletes) ==
    /\ phase = "up" /\ stop.pc = "idle" /\ ~deleted
    /\ (IF deletes THEN "delete" ELSE "disable") \in Commands
    /\ stop' = [pc |-> "look", tree |-> None, deletes |-> deletes]
    /\ UNCHANGED <<loginVars, task, interactions, cancel, target, call,
                   accountVars, bundleVars, runtimeVars, processVars,
                   issueVars, leaked, erased>>

Stopped == IF stop.deletes THEN [NoStop EXCEPT !.pc = "delete"] ELSE NoStop

StopLook ==
    /\ stop.pc = "look"
    /\ stop' = IF slot = None THEN Stopped
               ELSE [stop EXCEPT !.pc = "stop", !.tree = slot]
    /\ UNCHANGED <<loginVars, task, interactions, cancel, target, call,
                   accountVars, bundleVars, runtimeVars, processVars,
                   issueVars, leaked, erased>>

StopRuntime ==
    /\ stop.pc = "stop"
    /\ slot = stop.tree => ~RuntimeLocked
    /\ Discard(stop.tree)
    /\ erased' = (erased \/ (live # active /\ file[stop.tree] = live))
    /\ stop' = Stopped
    /\ UNCHANGED <<loginVars, task, interactions, cancel, target, call,
                   accountVars, bundleVars, processVars, issueVars, leaked>>

DeleteAccount ==
    /\ stop.pc = "delete"
    /\ deleted' = TRUE
    /\ active' = None /\ export' = None /\ live' = None
    /\ stop' = NoStop
    /\ UNCHANGED <<loginVars, task, interactions, cancel, target, call, auth,
                   worker, runtimeVars, processVars, issued, leaked, erased>>
-----------------------------------------------------------------------------
(* close(), when requests have been served: every background task is       *)
(* cancelled, once.                                                        *)
Close ==
    /\ "close" \in Commands /\ phase = "up"
    /\ stop = NoStop
    /\ \A a \in Logins : ~At(a, "asked") /\ cancel[a] \notin Requesting
    /\ phase' = "closing"
    /\ task' = [a \in Logins |->
                  [task[a] EXCEPT !.cut = @ \/ task[a].pc \notin {"free", "asked"}]]
    /\ UNCHANGED <<loginVars, interactions, cancel, target, call, stop,
                   accountVars, bundleVars, runtimeVars, restarts, issueVars,
                   leaked, erased>>

(* RuntimeManager.close() stops what is still registered.                  *)
CloseRuntimes ==
    /\ phase = "closing" /\ slot # None
    /\ \A a \in Logins : At(a, "free") /\ cancel[a] \notin Cancelling
    /\ call = NoCall
    /\ Discard(slot)
    /\ erased' = (erased \/ (live # active /\ file[slot] = live))
    /\ UNCHANGED <<loginVars, task, interactions, cancel, target, call, stop,
                   accountVars, bundleVars, processVars, issueVars, leaked>>

(* The process ends, at any point, and starts again: reconcile_startup.    *)
(* The trees are on a tmpfs, which goes with the container if that ends.   *)
ResetUse ==                  (* mutant: an interrupted use counts as ended *)
    /\ worker' = IF worker = "IN_USE" THEN "STOPPED" ELSE worker
    /\ UNCHANGED auth
QuarantineUse ==
    IF worker \in {"IN_USE", "QUARANTINED"} THEN Quarantine
                                            ELSE UNCHANGED <<worker, auth>>

Restart ==
    /\ restarts < MaxRestarts
    /\ restarts' = restarts + 1
    /\ phase' = "up"
    /\ login' = [a \in Logins |-> IF login[a] \in Unfinished
                                  THEN "RESTART_REQUIRED" ELSE login[a]]
    /\ operation' = [a \in Logins |->
                       IF operation[a] \in {"QUEUED", "RUNNING", "WAITING_FOR_USER"}
                       THEN "FAILED" ELSE operation[a]]
    /\ QuarantineUse
    /\ task' = [a \in Logins |-> NoTask]
    /\ cancel' = [a \in Logins |-> CASE cancel[a] \in Cancelling -> "FAILED"
                                     [] cancel[a] \in Requesting -> "none"
                                     [] OTHER -> cancel[a]]
    /\ target' = [a \in Logins |-> None]
    /\ interactions' = {} /\ call' = NoCall /\ stop' = NoStop
    /\ slot' = None /\ held' = None
    /\ leaked' = FALSE
    /\ \/ UNCHANGED <<file, erased>>
       \/ /\ file' = [t \in Trees |-> Gone]
          /\ erased' = (erased \/ live # active)
    /\ UNCHANGED <<deleted, bundleVars, issueVars>>
-----------------------------------------------------------------------------
LoginStep(a) ==
    \/ RecordLogin(a) \/ StartingRuntime(a) \/ BootLogin(a) \/ StartingLogin(a)
    \/ AskLogin(a) \/ Ready(a) \/ AwaitUser(a) \/ Verifying(a) \/ Verify(a)
    \/ PromoteLogin(a) \/ DiscardSource(a) \/ CleanUp(a) \/ FailLogin(a)
    \/ ForkUse(a) \/ BootFork(a) \/ Rotate(a) \/ CaptureFork(a)
    \/ PersistFork(a) \/ CleanFork(a) \/ FinishFork(a) \/ AbandonFork(a)
    \/ Unfork(a) \/ UnfinishFork(a) \/ BranchFork(a) \/ CommitLogin(a)
    \/ Interrupted(a)
CancelStep(a) ==
    \/ CancelLogin(a) \/ CancelBegin(a) \/ CancelLook(a) \/ CancelSend(a)
    \/ CancelState(a) \/ CancelOperation(a) \/ CancelTask(a)
    \/ CancelUndo(a) \/ CancelInterrupted(a)
CallStep == CallUse \/ CallStart \/ CallCodex \/ CallCheckpoint \/ CallPromote
            \/ CallCleanUp \/ CallFinish \/ CallRecord \/ CallInterrupted
StopStep == StopLook \/ StopRuntime \/ DeleteAccount

Next ==
    \/ \E a \in Logins : \/ \E recover \in BOOLEAN : StartLogin(a, recover)
                         \/ EnterLogin(a) \/ LoginStep(a)
                         \/ CancelRequest(a) \/ CancelStep(a)
    \/ CallRequest \/ CallEnter \/ CallStep
    \/ \E deletes \in BOOLEAN : StopRequest(deletes)
    \/ StopStep \/ Close \/ CloseRuntimes \/ Restart

Spec == Init /\ [][Next]_vars

(* The event loop runs what can go on, calls have timeouts, and the lock   *)
(* serves its waiters in order.                                            *)
Fairness ==
    /\ \A a \in Logins : /\ WF_vars(LoginStep(a))
                         /\ SF_vars(EnterLogin(a))
                         /\ WF_vars(CancelStep(a))
    /\ WF_vars(CallStep) /\ SF_vars(CallEnter)
    /\ WF_vars(StopStep)

FairSpec == Spec /\ Fairness
-----------------------------------------------------------------------------
(* Every variable has its type.                                            *)
TypeOK ==
    /\ login \in [Logins -> LoginStates]
    /\ operation \in [Logins -> OperationStates]
    /\ task \in [Logins -> Task]
    /\ interactions \subseteq Logins
    /\ cancel \in [Logins -> CancelSteps]
    /\ target \in [Logins -> Trees \cup {None}]
    /\ call \in Call /\ stop \in Stop
    /\ auth \in {"VERIFIED", "AUTH_REQUIRED"}
    /\ worker \in {"STOPPED", "IN_USE", "QUARANTINED"}
    /\ deleted \in BOOLEAN
    /\ active \in Credentials \cup {None} /\ export \in Credentials \cup {None}
    /\ slot \in Trees \cup {None} /\ held \in Trees \cup {None}
    /\ file \in [Trees -> Credentials \cup {None, Gone}]
    /\ phase \in {"up", "closing"} /\ restarts \in 0 .. MaxRestarts
    /\ issued \in 0 .. MaxCredentials /\ live \in Credentials \cup {None}
    /\ leaked \in BOOLEAN /\ erased \in BOOLEAN

(* The newest credential of the managed lineage is never lost: it is in    *)
(* the database or still in a tree, whatever fails, is cancelled or        *)
(* crashes while Codex renews it; unless stop() or the end of the          *)
(* container has deleted it (erased).                                      *)
CredentialKept ==
    live \in {None, active} \/ (\E t \in Trees : file[t] = live) \/ erased

(* An account that looks healthy, VERIFIED and STOPPED with nobody at      *)
(* work, has the newest credential stored, not one that a rotation has     *)
(* left behind (_credential_use_finished, _fail_login, reconcile_startup). *)
HealthyMeansStored ==
    auth = "VERIFIED" /\ worker = "STOPPED" /\ ~deleted /\ LockFree
        => active = live

(* A runtime that is registered has an owner who will discard, archive or  *)
(* preserve it; one without would refuse every later start_fresh.  Only a  *)
(* cancellation that hits the cleanup itself leaves one (leaked).          *)
RuntimeOwned ==
    slot # None /\ ~leaked =>
        \/ \E a \in Logins : task[a].pc \in Holding /\ task[a].tree = slot
        \/ call.pc \in CallHolds /\ call.tree = slot

(* A sign-in whose row is not final, and so keeps out any other, has a     *)
(* coroutine that will end it, until a shutdown.                           *)
UnfinishedIsAttended ==
    \A a \in Logins : login[a] \in Unfinished =>
        \/ task[a].pc # "free" \/ phase = "closing"
        \/ cancel[a] \in Cancelling \cup {"accepted"}

(* A sign-in whose cancellation was accepted does not replace the active   *)
(* credential, however far it had got (cancel_login against                *)
(* _promote_login_source).                                                 *)
CancelledNeverPromotes ==
    [][\A a \in Logins : cancel[a] \notin {"none", "asked"} /\ task[a].pc = "promote"
                         /\ task'[a].pc # "promote"
          => active' = active \/ restarts' # restarts]_vars

(* Every sign-in ends, unless the process is shut down.                    *)
LoginEnds ==
    \A a \in Logins :
        login[a] \in Unfinished ~> login[a] \in Final \/ phase = "closing"
=============================================================================
