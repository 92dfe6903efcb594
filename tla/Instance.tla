------------------------------ MODULE Instance ------------------------------
(***************************************************************************)
(* One data directory and the commands that may own it: serve              *)
(* (web/app.py), and of cli/main.py init, vault rotate, backup, restore,   *)
(* and those that only open the database (password-set, status, vault      *)
(* verify); with the lock of singleton.py, the migrations of database.py,  *)
(* and the keys vault.py seals with.                                       *)
(*                                                                         *)
(* Grain: one action per file operation, lock operation or transaction: a  *)
(* process may be killed between any two.                                  *)
(*                                                                         *)
(* Abstracted: what is sealed (only under which key), one pending          *)
(* migration stands for any, and SQLite: a transaction is atomic, a write  *)
(* waits for the other writer or fails.  What is fsynced is on the disk;   *)
(* power loss is not modelled.                                             *)
(***************************************************************************)
EXTENDS Integers

CONSTANTS Processes,   (* the processes that may run at a time             *)
          MaxKeys,     (* bound: vault keys generated                      *)
          MaxCrashes   (* bound: kills                                     *)

ASSUME InstanceAssumption == MaxKeys \in Nat \ {0} /\ MaxCrashes \in Nat

Nobody   == "nobody"
ASSUME NobodyAssumption == Nobody \notin Processes

VARIABLES
    db,          (* the database file                                      *)
    pre,         (* .pre-vN.db, the copy made before the migration         *)
    saved,       (* the operator's backup                                  *)
    wal,         (* the -wal file: absent, of this database, of another    *)
    files,       (* the keys that are in a file                            *)
    configured,  (* WINDOWKEEPER_VAULT_KEY_FILE; 0 when not set            *)
    keys,        (* number of keys generated                               *)
    lock,        (* who holds the flock                                    *)
    txn,         (* who has a write transaction open                       *)
    pc, cmd,     (* what each process does                                 *)
    made,        (* the key it has generated                               *)
    held,        (* the key it has read                                    *)
    cut,         (* ghost: where a process was stopped half way            *)
    crashes

disk    == <<pre, saved, wal, configured, keys>>
process == <<pc, cmd, made, held>>
ghosts  == <<cut, crashes>>
vars    == <<db, disk, files, lock, txn, process, ghosts>>

Keys == 0 .. MaxKeys       (* 0: none                                      *)

(* "scratch": the first migration has begun and nothing is lost with it.   *)
(* "partial": one that follows has.  "torn": a foreign log was replayed.   *)
Databases == [schema   : {"empty", "scratch", "old", "partial", "new", "torn"},
              sentinel : Keys,
              objects  : SUBSET Keys]
Empty == [schema |-> "empty", sentinel |-> 0, objects |-> {}]

TypeOK ==
    /\ db \in Databases /\ pre \in Databases /\ saved \in Databases
    /\ wal \in {"absent", "own", "foreign"}
    /\ files \subseteq 1 .. keys /\ configured \in 0 .. keys /\ keys \in Keys
    /\ lock \in Processes \cup {Nobody} /\ txn \in Processes \cup {Nobody}
    /\ pc \in [Processes -> {"idle", "start", "open", "script", "seed", "work", "verify",
                             "serving", "password", "rotating", "lingering", "closing",
                             "unlink", "backup", "copied", "replaced"}]
    /\ cmd \in [Processes -> {"none", "serve", "init", "rotate", "look"}]
    /\ made \in [Processes -> 0 .. keys] /\ held \in [Processes -> 0 .. keys]
    /\ cut \subseteq {"migration", "restore"} /\ crashes \in 0 .. MaxCrashes
    /\ \A p \in Processes :
           pc[p] \in {"open", "script", "seed", "work", "verify", "serving", "password",
                      "rotating", "closing", "backup", "copied", "replaced"} <=> lock = p

(* A new instance, or one that is upgraded.                                *)
Init ==
    /\ \/ db = Empty /\ files = {} /\ keys = 0
       \/ /\ db = [schema |-> "old", sentinel |-> 1, objects |-> {1}]
          /\ files = {1} /\ keys = 1
    /\ configured = keys
    /\ pre = Empty /\ saved = Empty /\ wal = "absent"
    /\ lock = Nobody /\ txn = Nobody
    /\ pc = [p \in Processes |-> "idle"] /\ cmd = [p \in Processes |-> "none"]
    /\ made = [p \in Processes |-> 0] /\ held = [p \in Processes |-> 0]
    /\ cut = {} /\ crashes = 0
-----------------------------------------------------------------------------
(***************************************************************************)
(* Beginnings and ends of a process.                                       *)
(***************************************************************************)
Goto(p, label) == pc' = [pc EXCEPT ![p] = label]

(* A command that only opens the database, or serve.                       *)
Begin(p) ==
    /\ pc[p] = "idle"
    /\ \E c \in {"look", "serve"} : cmd' = [cmd EXCEPT ![p] = c]
    /\ Goto(p, "start")
    /\ UNCHANGED <<db, disk, files, lock, txn, made, held, ghosts>>

(* init and rotate write the new key before they ask for the lock; rotate  *)
(* has read the old one, whichever file it was given.                      *)
BeginWithKey(p) ==
    /\ pc[p] = "idle" /\ keys < MaxKeys
    /\ keys' = keys + 1 /\ files' = files \cup {keys'}
    /\ made' = [made EXCEPT ![p] = keys']
    /\ \/ cmd' = [cmd EXCEPT ![p] = "init"] /\ UNCHANGED held
       \/ /\ cmd' = [cmd EXCEPT ![p] = "rotate"]
          /\ \E k \in files : held' = [held EXCEPT ![p] = k]
    /\ Goto(p, "start")
    /\ UNCHANGED <<db, pre, saved, wal, configured, lock, txn, ghosts>>

(* init removes its key file on any exception, rotate on an Exception: not *)
(* when it is interrupted, for it may have committed.                      *)
UnlinksAlways(p, how) == cmd[p] \in {"init", "rotate"} /\ how # "done"
Unlinks(p, how) ==
    \/ cmd[p] = "init" /\ how # "done"
    \/ cmd[p] = "rotate" /\ how = "error"

(* The command ends: an open transaction is rolled back, the connection    *)
(* closed, the lock released.  The key file is removed after that.         *)
Release(p) ==
    /\ lock' = IF lock = p THEN Nobody ELSE lock
    /\ txn' = IF txn = p THEN Nobody ELSE txn
Forget(p) ==
    /\ Goto(p, "idle")
    /\ cmd' = [cmd EXCEPT ![p] = "none"]
    /\ made' = [made EXCEPT ![p] = 0] /\ held' = [held EXCEPT ![p] = 0]

Exit(p, how) ==
    /\ Release(p)
    /\ IF Unlinks(p, how)
       THEN Goto(p, "unlink") /\ UNCHANGED <<cmd, made, held>>
       ELSE Forget(p)

Unlink(p) ==
    /\ pc[p] = "unlink"
    /\ files' = files \ {made[p]}
    /\ Forget(p)
    /\ UNCHANGED <<db, disk, lock, txn, ghosts>>

LockableAlways == TRUE
Lockable       == lock = Nobody

Acquire(p) ==
    /\ pc[p] = "start"
    /\ \/ Lockable /\ lock' = p /\ Goto(p, "open") /\ UNCHANGED <<txn, cmd, made, held>>
       \/ ~Lockable /\ Exit(p, "error")
    /\ UNCHANGED <<db, disk, files, ghosts>>

(* What p leaves half done when it stops here.                             *)
Severed(p) ==
    CASE pc[p] = "script" /\ db.schema = "partial" -> {"migration"}
      [] pc[p] = "replaced" -> {"restore"}
      [] OTHER -> {}

(* Ctrl-C in a command of the CLI (serve has its own signal handlers), or  *)
(* an exception nobody expected, as one in a migration that is neither     *)
(* OperationalError nor IntegrityError.                                    *)
Interrupt(p) ==
    /\ pc[p] \notin {"idle", "unlink"} /\ cmd[p] # "serve"
    /\ Exit(p, "interrupt")
    /\ cut' = cut \cup Severed(p)
    /\ UNCHANGED <<db, disk, files, crashes>>

(* Killed: the kernel releases the lock, SQLite rolls back and the log     *)
(* stays; nothing else is undone.                                          *)
Crash(p) ==
    /\ pc[p] # "idle" /\ crashes < MaxCrashes
    /\ crashes' = crashes + 1
    /\ Release(p) /\ Forget(p)
    /\ wal' = IF /\ wal = "absent"
                 /\ pc[p] \notin {"start", "open", "unlink", "copied", "replaced"}
              THEN "own" ELSE wal
    /\ cut' = cut \cup Severed(p)
    /\ UNCHANGED <<db, pre, saved, configured, keys, files>>
-----------------------------------------------------------------------------
(***************************************************************************)
(* Database.start.                                                         *)
(***************************************************************************)

(* Opening replays what log there is.  A database behind the migrations is *)
(* copied, over the copy of an earlier try, and the script begun; it is    *)
(* not in a transaction.  A torn database may pass the checks.             *)
Replayed == IF wal = "foreign" THEN [db EXCEPT !.schema = "torn"] ELSE db
Open(p) ==
    /\ pc[p] = "open"
    /\ wal' = "absent"
    /\ \/ /\ Replayed.schema = "new"
          /\ Goto(p, "seed") /\ db' = Replayed
          /\ UNCHANGED <<pre, lock, txn, cmd, made, held>>
       \/ /\ Replayed.schema = "torn"
          /\ db' = Replayed
          /\ \/ Goto(p, "seed") /\ UNCHANGED <<lock, txn, cmd, made, held>>
             \/ Exit(p, "error")
          /\ UNCHANGED pre
       \/ /\ Replayed.schema \notin {"new", "torn"}
          /\ pre' = IF db.schema = "empty" THEN pre ELSE db
          /\ db' = [db EXCEPT !.schema = IF @ \in {"empty", "scratch"} THEN "scratch" ELSE "partial"]
          /\ Goto(p, "script")
          /\ UNCHANGED <<lock, txn, cmd, made, held>>
    /\ UNCHANGED <<saved, configured, keys, files, ghosts>>

(* The script ends and its version is written; or it fails, as it may when *)
(* part of it has been run before, and the copy is put back.               *)
UndoneNot == db
Undone == IF db.schema = "scratch" THEN db ELSE pre
EndScript(p) ==
    /\ pc[p] = "script"
    /\ \/ /\ db' = [db EXCEPT !.schema = "new"]
          /\ Goto(p, "seed") /\ UNCHANGED <<lock, txn, cmd, made, held>>
       \/ db' = Undone /\ Exit(p, "error")
    /\ UNCHANGED <<disk, files, ghosts>>

(* The seed row needs the write lock; the checks may fail.                 *)
Seed(p) ==
    /\ pc[p] = "seed"
    /\ \/ txn = Nobody /\ Goto(p, "work") /\ UNCHANGED <<lock, txn, cmd, made, held>>
       \/ Exit(p, "error")
    /\ UNCHANGED <<db, disk, files, ghosts>>

(* A command with nothing to change.                                       *)
Look(p) ==
    /\ pc[p] = "work" /\ cmd[p] = "look"
    /\ Exit(p, "done")
    /\ UNCHANGED <<db, disk, files, ghosts>>
-----------------------------------------------------------------------------
(***************************************************************************)
(* serve.                                                                  *)
(***************************************************************************)

(* The key is read after the lock is taken.  Without one, a random key is  *)
(* used and nothing is ever sealed.  The file may be refused.              *)
ReadKey(p) ==
    /\ pc[p] = "work" /\ cmd[p] = "serve"
    /\ \/ /\ configured = 0
          /\ Goto(p, "serving") /\ UNCHANGED <<lock, txn, cmd, made, held>>
       \/ /\ configured # 0
          /\ held' = [held EXCEPT ![p] = configured]
          /\ Goto(p, "verify") /\ UNCHANGED <<lock, txn, cmd, made>>
       \/ configured # 0 /\ Exit(p, "error")
    /\ UNCHANGED <<db, disk, files, ghosts>>

(* verify_vault, a transaction.                                            *)
AcceptsAny(k) == TRUE
Accepts(k) == db.sentinel \in {0, k}
Verify(p) ==
    /\ pc[p] = "verify" /\ txn = Nobody
    /\ \/ /\ Accepts(held[p])
          /\ db' = IF db.sentinel = 0 THEN [db EXCEPT !.sentinel = held[p]] ELSE db
          /\ Goto(p, "serving") /\ UNCHANGED <<lock, txn, cmd, made, held>>
       \/ ~Accepts(held[p]) /\ Exit(p, "error") /\ UNCHANGED db
    /\ UNCHANGED <<disk, files, ghosts>>

(* A credential or a webhook destination is stored; all are deleted.       *)
Seal(p) ==
    /\ pc[p] = "serving"
    /\ \/ held[p] # 0 /\ db' = [db EXCEPT !.objects = @ \cup {held[p]}]
       \/ db' = [db EXCEPT !.objects = {}]
    /\ UNCHANGED <<disk, files, lock, txn, process, ghosts>>

Shutdown(p) ==
    /\ pc[p] = "serving"
    /\ Exit(p, "done")
    /\ UNCHANGED <<db, disk, files, ghosts>>
-----------------------------------------------------------------------------
(***************************************************************************)
(* init and vault rotate.                                                  *)
(***************************************************************************)

(* The sentinel of another key is left as it is.                           *)
InitVault(p) ==
    /\ pc[p] = "work" /\ cmd[p] = "init" /\ txn = Nobody
    /\ db' = IF db.sentinel = 0 THEN [db EXCEPT !.sentinel = made[p]] ELSE db
    /\ Goto(p, "password")
    /\ UNCHANGED <<disk, files, lock, txn, cmd, made, held, ghosts>>

(* A password of less than 15 characters is refused only here.             *)
InitPassword(p) ==
    /\ pc[p] = "password"
    /\ \E how \in {"done", "error"} : Exit(p, how)
    /\ UNCHANGED <<db, disk, files, ghosts>>

RotateBegin(p) ==
    /\ pc[p] = "work" /\ cmd[p] = "rotate" /\ txn = Nobody
    /\ txn' = p /\ Goto(p, "rotating")
    /\ UNCHANGED <<db, disk, files, lock, cmd, made, held, ghosts>>

(* Every object that is in use is opened with the old key and sealed with  *)
(* the new one, and the sentinel with them.                                *)
Opens(p) == db.objects \subseteq {held[p]}
Rotated(p) ==
    [schema   |-> db.schema,
     sentinel |-> made[p],
     objects  |-> IF db.objects = {} THEN {} ELSE {made[p]}]

RotateEnd(p) ==
    /\ pc[p] = "rotating"
    /\ \/ /\ Opens(p) /\ db' = Rotated(p)
          /\ txn' = Nobody /\ Goto(p, "closing")
          /\ UNCHANGED <<lock, cmd, made, held>>
       \/ ~Opens(p) /\ Exit(p, "error") /\ UNCHANGED db
    /\ UNCHANGED <<disk, files, ghosts>>

Close(p) ==
    /\ pc[p] = "closing"
    /\ Exit(p, "done")
    /\ UNCHANGED <<db, disk, files, ghosts>>

(* Interrupted, the command waits ten seconds for its database thread, and *)
(* releases the lock whether or not its transaction is over.               *)
Linger(p) ==
    /\ pc[p] = "rotating"
    /\ lock' = Nobody /\ Goto(p, "lingering")
    /\ UNCHANGED <<db, disk, files, txn, cmd, made, held, ghosts>>

LingerCommits(p) ==
    /\ pc[p] = "lingering"
    /\ db' = IF txn = p /\ Opens(p) THEN Rotated(p) ELSE db
    /\ Exit(p, "interrupt")
    /\ UNCHANGED <<disk, files, ghosts>>
-----------------------------------------------------------------------------
(***************************************************************************)
(* backup and restore take the lock but do not start the database.         *)
(***************************************************************************)
Backup(p) ==
    /\ pc[p] = "idle" /\ db.schema # "empty" /\ Lockable
    /\ lock' = p /\ Goto(p, "backup")
    /\ db' = Replayed /\ wal' = "absent"
    /\ UNCHANGED <<pre, saved, configured, keys, files, txn, cmd, made, held, ghosts>>

(* The copy is checked and replaces the former; or an error.               *)
BackupEnd(p) ==
    /\ pc[p] = "backup"
    /\ \/ saved' = db
       \/ UNCHANGED saved
    /\ lock' = Nobody /\ Goto(p, "idle")
    /\ UNCHANGED <<db, pre, wal, configured, keys, files, txn, cmd, made, held, ghosts>>

(* Only a backup of this schema; it is copied before it replaces the file. *)
Restore(p) ==
    /\ pc[p] = "idle" /\ saved.schema = "new" /\ Lockable
    /\ lock' = p /\ Goto(p, "copied")
    /\ UNCHANGED <<db, disk, files, txn, cmd, made, held, ghosts>>

(* A transaction still open is one of the file that has lost its name.     *)
Replace(p) ==
    /\ pc[p] = "copied"
    /\ \/ /\ db' = saved /\ txn' = Nobody
          /\ wal' = IF wal = "own" \/ txn # Nobody THEN "foreign" ELSE wal
          /\ Goto(p, "replaced") /\ UNCHANGED lock
       \/ lock' = Nobody /\ Goto(p, "idle") /\ UNCHANGED <<db, wal, txn>>
    /\ UNCHANGED <<pre, saved, configured, keys, files, cmd, made, held, ghosts>>

(* The log of the former database is removed.                              *)
Replaced(p) ==
    /\ pc[p] = "replaced"
    /\ wal' = "absent" /\ lock' = Nobody /\ Goto(p, "idle")
    /\ UNCHANGED <<db, pre, saved, configured, keys, files, txn, cmd, made, held, ghosts>>
-----------------------------------------------------------------------------
(* The operator generates a key, or configures one, as the commands say:   *)
(* after the command that makes it has ended.                              *)
GenerateKey ==
    /\ keys < MaxKeys
    /\ keys' = keys + 1 /\ files' = files \cup {keys'}
    /\ UNCHANGED <<db, pre, saved, wal, configured, lock, txn, process, ghosts>>

Configure ==
    /\ \E k \in files \ {made[p] : p \in Processes} : configured' = k
    /\ UNCHANGED <<db, pre, saved, wal, keys, files, lock, txn, process, ghosts>>

Step(p) ==
    \/ Begin(p) \/ BeginWithKey(p) \/ Unlink(p) \/ Acquire(p) \/ Interrupt(p) \/ Crash(p)
    \/ Open(p) \/ EndScript(p) \/ Seed(p) \/ Look(p)
    \/ ReadKey(p) \/ Verify(p) \/ Seal(p) \/ Shutdown(p)
    \/ InitVault(p) \/ InitPassword(p)
    \/ RotateBegin(p) \/ RotateEnd(p) \/ Close(p) \/ Linger(p) \/ LingerCommits(p)
    \/ Backup(p) \/ BackupEnd(p) \/ Restore(p) \/ Replace(p) \/ Replaced(p)

Next == (\E p \in Processes : Step(p)) \/ GenerateKey \/ Configure

Spec == Init /\ [][Next]_vars
-----------------------------------------------------------------------------
(* Whatever is stopped, killed or refused, there is a key file that opens  *)
(* everything the database holds, its sentinel too; the same of the copy   *)
(* made before a migration and of a backup.  (The sentinel alone may be of *)
(* a key that is lost: an init that fails after it has written it.)        *)
OpenedBySome(d) ==
    d.objects # {} => \E k \in files : d.objects = {k} /\ d.sentinel = k
Openable == OpenedBySome(db) /\ OpenedBySome(pre) /\ OpenedBySome(saved)

(* A service that has a key has the one the database is sealed with, from  *)
(* its start to its end: neither a rotation whose transaction outlives its *)
(* lock nor a restore comes between.                                       *)
ServedKeyMatches ==
    \A p \in Processes : pc[p] = "serving" /\ held[p] # 0 =>
        db.sentinel = held[p] /\ db.objects \subseteq {held[p]}

(* No other process changes the database of a running service.             *)
ServingUndisturbed ==
    [][\A p \in Processes : pc[p] = "serving" /\ db' # db =>
           lock = p /\ db'.sentinel = db.sentinel /\ db'.schema = db.schema]_vars

(* Only a process stopped in the middle of a migration, or between the two *)
(* steps of a restore, leaves a database that is neither of the old schema *)
(* nor of the new: a script that fails does not, nor any other stop.       *)
WholeUnlessCut ==
    lock = Nobody /\ db.schema \in {"partial", "torn"} => cut # {}
=============================================================================
