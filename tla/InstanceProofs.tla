--------------------------- MODULE InstanceProofs ---------------------------
(***************************************************************************)
(* For any number of processes, keys and kills: a key file always opens    *)
(* what the database, its rollback copy and the backup hold; a running     *)
(* service has the key of its database and keeps the database to itself;   *)
(* and nobody leaves it half migrated but who is stopped half way.         *)
(*                                                                         *)
(* None is inductive.  The first depends on who may still remove a key     *)
(* file and on what is sealed with it (Unsealed), the next two on the      *)
(* write transaction a rotation may leave behind its lock                  *)
(* (TransactionInv); all on the keys of different processes being          *)
(* different (KeyInv).  The last needs whose hands a half migrated         *)
(* database and a foreign log are in (WholeInv).                           *)
(***************************************************************************)
EXTENDS Instance, TLAPS

(* The labels of backup and restore, which are no command of cmd.          *)
Commandless == {"idle", "backup", "copied", "replaced"}

(* What a process is doing agrees with its command, and the keys it has    *)
(* made or read with both: serve reads its key late, only init and rotate  *)
(* make one.                                                               *)
CommandInv ==
    \A p \in Processes :
        /\ cmd[p] = "none" <=> pc[p] \in Commandless
        /\ cmd[p] \in {"none", "look"} => made[p] = 0 /\ held[p] = 0
        /\ cmd[p] = "serve" => made[p] = 0
        /\ cmd[p] = "serve" /\ held[p] # 0 => pc[p] \in {"verify", "serving"}
        /\ cmd[p] \in {"init", "rotate"} => made[p] # 0
        /\ pc[p] \in {"verify", "serving"} => cmd[p] = "serve"
        /\ pc[p] \in {"rotating", "lingering", "closing"} => cmd[p] = "rotate"
        /\ pc[p] = "password" => cmd[p] = "init"
        /\ pc[p] = "unlink" => cmd[p] \in {"init", "rotate"}

(* Only a rotation, interrupted or not, has a transaction open between two *)
(* steps; none is open beside a process that has written its seed row.     *)
TransactionInv ==
    \A p \in Processes :
        /\ txn = p => pc[p] \in {"rotating", "lingering"}
        /\ pc[p] \in {"work", "verify", "serving"} => txn = Nobody

(* A key that a running command has made is in its file, is no other       *)
(* command's, is not configured and not in use by a service.  What is      *)
(* configured or in use is in a file.                                      *)
KeyInv ==
    /\ configured \in files \cup {0}
    /\ \A p \in Processes :
           /\ made[p] # 0 => made[p] \in files /\ made[p] # configured
           /\ cmd[p] = "serve" /\ held[p] # 0 => held[p] \in files
    /\ \A p, q \in Processes :
           /\ p # q /\ made[p] # 0 => made[q] # made[p]
           /\ made[p] # 0 /\ cmd[q] = "serve" => held[q] # made[p]

(* Nothing is sealed with the key of a command that may still remove it.   *)
Unsealed ==
    \A p \in Processes :
        made[p] # 0 /\ pc[p] # "closing" =>
            made[p] \notin db.objects \cup pre.objects \cup saved.objects

(* The inductive invariant.                                                *)
VaultInv ==
    /\ TypeOK /\ CommandInv /\ TransactionInv /\ KeyInv /\ Unsealed
    /\ Openable /\ ServedKeyMatches
-----------------------------------------------------------------------------
(* A new instance and one that is upgraded satisfy it.                     *)
LEMMA InitVaultInv == Init => VaultInv
<1>. SUFFICES ASSUME Init PROVE VaultInv
  OBVIOUS
<1>. USE InstanceAssumption, NobodyAssumption
<1>1. TypeOK
  BY DEF Init, TypeOK, Databases, Keys, Empty
<1>2. CommandInv /\ TransactionInv /\ KeyInv
  BY DEF Init, CommandInv, Commandless, TransactionInv, KeyInv
<1>3. Unsealed /\ Openable /\ ServedKeyMatches
  BY DEF Init, Unsealed, Openable, OpenedBySome, ServedKeyMatches, Empty
<1>. QED
  BY <1>1, <1>2, <1>3 DEF VaultInv

(* Every action keeps the types.  Only Unlink needs steps of its own: the  *)
(* provers lose sight of the functions beside the difference of sets.      *)
LEMMA TypeStep == VaultInv /\ [Next]_vars => TypeOK'
<1>. SUFFICES ASSUME VaultInv, [Next]_vars PROVE TypeOK'
  OBVIOUS
<1>. USE InstanceAssumption, NobodyAssumption DEF VaultInv
<1>1. ASSUME NEW p \in Processes, Begin(p) PROVE TypeOK'
  BY <1>1 DEF Begin, Goto, TypeOK, disk, ghosts
<1>2. ASSUME NEW p \in Processes, BeginWithKey(p) PROVE TypeOK'
  BY <1>2 DEF BeginWithKey, Goto, Keys, TypeOK, ghosts
<1>3. ASSUME NEW p \in Processes, Acquire(p) PROVE TypeOK'
  BY <1>3 DEF Acquire, Exit, Forget, Goto, Keys, Lockable, Release, TypeOK,
        disk, ghosts
<1>4. ASSUME NEW p \in Processes, Interrupt(p) PROVE TypeOK'
  BY <1>4 DEF Interrupt, Exit, Forget, Goto, Keys, Release, Severed, TypeOK,
        disk
<1>5. ASSUME NEW p \in Processes, Crash(p) PROVE TypeOK'
  BY <1>5 DEF Crash, Forget, Goto, Keys, Release, Severed, TypeOK
<1>6. ASSUME NEW p \in Processes, Open(p) PROVE TypeOK'
  BY <1>6 DEF Open, Databases, Exit, Forget, Goto, Keys, Release, Replayed,
        TypeOK, ghosts
<1>7. ASSUME NEW p \in Processes, EndScript(p) PROVE TypeOK'
  BY <1>7 DEF EndScript, Databases, Exit, Forget, Goto, Keys, Release,
        TypeOK, Undone, disk, ghosts
<1>8. ASSUME NEW p \in Processes, Seed(p) PROVE TypeOK'
  BY <1>8 DEF Seed, Exit, Forget, Goto, Keys, Release, TypeOK, disk, ghosts
<1>9. ASSUME NEW p \in Processes, Look(p) PROVE TypeOK'
  BY <1>9 DEF Look, Exit, Forget, Goto, Keys, Release, TypeOK, disk, ghosts
<1>10. ASSUME NEW p \in Processes, ReadKey(p) PROVE TypeOK'
  BY <1>10 DEF ReadKey, Exit, Forget, Goto, Keys, Release, TypeOK, disk,
        ghosts
<1>11. ASSUME NEW p \in Processes, Verify(p) PROVE TypeOK'
  BY <1>11 DEF Verify, Databases, Exit, Forget, Goto, Keys, Release, TypeOK,
        disk, ghosts
<1>12. ASSUME NEW p \in Processes, Seal(p) PROVE TypeOK'
  BY <1>12 DEF Seal, Databases, Keys, TypeOK, disk, ghosts, process
<1>13. ASSUME NEW p \in Processes, Shutdown(p) PROVE TypeOK'
  BY <1>13 DEF Shutdown, Exit, Forget, Goto, Keys, Release, TypeOK, disk,
        ghosts
<1>14. ASSUME NEW p \in Processes, InitVault(p) PROVE TypeOK'
  BY <1>14 DEF InitVault, Databases, Goto, Keys, TypeOK, disk, ghosts
<1>15. ASSUME NEW p \in Processes, InitPassword(p) PROVE TypeOK'
  BY <1>15 DEF InitPassword, Exit, Forget, Goto, Keys, Release, TypeOK, disk,
        ghosts
<1>16. ASSUME NEW p \in Processes, RotateBegin(p) PROVE TypeOK'
  BY <1>16 DEF RotateBegin, Goto, TypeOK, disk, ghosts
<1>17. ASSUME NEW p \in Processes, RotateEnd(p) PROVE TypeOK'
  BY <1>17 DEF RotateEnd, Databases, Exit, Forget, Goto, Keys, Release,
        Rotated, TypeOK, disk, ghosts
<1>18. ASSUME NEW p \in Processes, Close(p) PROVE TypeOK'
  BY <1>18 DEF Close, Exit, Forget, Goto, Keys, Release, TypeOK, disk, ghosts
<1>19. ASSUME NEW p \in Processes, Linger(p) PROVE TypeOK'
  BY <1>19 DEF Linger, Goto, TypeOK, disk, ghosts
<1>20. ASSUME NEW p \in Processes, LingerCommits(p) PROVE TypeOK'
  BY <1>20 DEF LingerCommits, Databases, Exit, Forget, Goto, Keys, Release,
        Rotated, TypeOK, disk, ghosts
<1>21. ASSUME NEW p \in Processes, Backup(p) PROVE TypeOK'
  BY <1>21 DEF Backup, Databases, Goto, Lockable, Replayed, TypeOK, ghosts
<1>22. ASSUME NEW p \in Processes, BackupEnd(p) PROVE TypeOK'
  BY <1>22 DEF BackupEnd, Goto, TypeOK, ghosts
<1>23. ASSUME NEW p \in Processes, Restore(p) PROVE TypeOK'
  BY <1>23 DEF Restore, Goto, Lockable, TypeOK, disk, ghosts
<1>24. ASSUME NEW p \in Processes, Replace(p) PROVE TypeOK'
  BY <1>24 DEF Replace, Goto, TypeOK, ghosts
<1>25. ASSUME NEW p \in Processes, Replaced(p) PROVE TypeOK'
  BY <1>25 DEF Replaced, Goto, TypeOK, ghosts
<1>26. CASE GenerateKey
  BY <1>26 DEF GenerateKey, Keys, TypeOK, ghosts, process
<1>27. CASE Configure
  BY <1>27 DEF Configure, Keys, TypeOK, ghosts, process
<1>28. ASSUME NEW p \in Processes, Unlink(p) PROVE TypeOK'
  <2>1. files' \subseteq 1 .. keys'
    BY <1>28 DEF Unlink, disk, TypeOK
  <2>2. made' \in [Processes -> 0 .. keys']
    BY <1>28 DEF Unlink, Forget, disk, Keys, TypeOK
  <2>3. held' \in [Processes -> 0 .. keys']
    BY <1>28 DEF Unlink, Forget, disk, Keys, TypeOK
  <2>4. QED
    BY <1>28, <2>1, <2>2, <2>3 DEF Unlink, Forget, Goto, disk, ghosts, TypeOK
<1>29. CASE UNCHANGED vars
  BY <1>29 DEF vars, disk, process, ghosts, TypeOK
<1>. QED
  BY <1>1, <1>2, <1>3, <1>4, <1>5, <1>6, <1>7, <1>8, <1>9, <1>10,
        <1>11, <1>12, <1>13, <1>14, <1>15, <1>16, <1>17, <1>18, <1>19, <1>20,
        <1>21, <1>22, <1>23, <1>24, <1>25, <1>26, <1>27, <1>28, <1>29 DEF
        Next, Step

-----------------------------------------------------------------------------
(* A process runs one command, and holds keys only as far as it has come.  *)
LEMMA CommandStep == VaultInv /\ [Next]_vars => CommandInv'
<1>. SUFFICES ASSUME VaultInv, [Next]_vars PROVE CommandInv'
  OBVIOUS
<1>. USE InstanceAssumption, NobodyAssumption DEF VaultInv
<1>1. ASSUME NEW p \in Processes, Begin(p) \/ InitVault(p) \/ RotateBegin(p)
        \/ Linger(p) PROVE CommandInv'
  BY <1>1 DEF Begin, InitVault, RotateBegin, Linger, CommandInv, Commandless,
        Goto, TypeOK
<1>2. ASSUME NEW p \in Processes, BeginWithKey(p) PROVE CommandInv'
  BY <1>2 DEF BeginWithKey, CommandInv, Commandless, Goto, Keys, TypeOK
<1>3. ASSUME NEW p \in Processes, Unlink(p) \/ Crash(p) PROVE CommandInv'
  BY <1>3 DEF Unlink, Crash, CommandInv, Commandless, Forget, Goto, TypeOK
<1>4. ASSUME NEW p \in Processes, Acquire(p) \/ Interrupt(p) \/ Open(p) \/
        EndScript(p) PROVE CommandInv'
  BY <1>4 DEF Acquire, Interrupt, Open, EndScript, CommandInv, Commandless,
        Exit, Forget, Goto, TypeOK, Unlinks
<1>5. ASSUME NEW p \in Processes, Seed(p) \/ Look(p) \/ ReadKey(p) \/
        Verify(p) PROVE CommandInv'
  BY <1>5 DEF Seed, Look, ReadKey, Verify, CommandInv, Commandless, Exit,
        Forget, Goto, TypeOK, Unlinks
<1>6. ASSUME NEW p \in Processes, Seal(p) PROVE CommandInv'
  BY <1>6 DEF Seal, CommandInv, process
<1>7. ASSUME NEW p \in Processes, Shutdown(p) PROVE CommandInv'
  BY <1>7 DEF Shutdown, CommandInv, Commandless, Exit, Forget, Goto, TypeOK,
        Unlinks
<1>8. ASSUME NEW p \in Processes, InitPassword(p) \/ RotateEnd(p) \/ Close(p)
        \/ LingerCommits(p) PROVE CommandInv'
  BY <1>8 DEF InitPassword, RotateEnd, Close, LingerCommits, CommandInv,
        Commandless, Exit, Forget, Goto, TypeOK
<1>9. ASSUME NEW p \in Processes, Backup(p) \/ BackupEnd(p) \/ Restore(p) \/
        Replace(p) PROVE CommandInv'
  BY <1>9 DEF Backup, BackupEnd, Restore, Replace, CommandInv, Commandless,
        Goto, TypeOK
<1>10. ASSUME NEW p \in Processes, Replaced(p) PROVE CommandInv'
  BY <1>10 DEF Replaced, CommandInv, Commandless, Goto, TypeOK
<1>11. CASE GenerateKey \/ Configure
  BY <1>11 DEF GenerateKey, Configure, CommandInv, process
<1>12. CASE UNCHANGED vars
  BY <1>12 DEF vars, disk, process, ghosts, CommandInv
<1>. QED
  BY <1>1, <1>2, <1>3, <1>4, <1>5, <1>6, <1>7, <1>8, <1>9, <1>10,
        <1>11, <1>12 DEF Next, Step

(* RotateBegin needs the lock, so nobody past Seed is disturbed; and who   *)
(* passes Seed has waited for the transaction that was left behind.        *)
LEMMA TransactionStep == VaultInv /\ [Next]_vars => TransactionInv'
<1>. SUFFICES ASSUME VaultInv, [Next]_vars PROVE TransactionInv'
  OBVIOUS
<1>. USE InstanceAssumption, NobodyAssumption DEF VaultInv
<1>1. ASSUME NEW p \in Processes, Begin(p) \/ BeginWithKey(p) \/
        RotateBegin(p) \/ Linger(p) PROVE TransactionInv'
  BY <1>1 DEF Begin, BeginWithKey, RotateBegin, Linger, Goto, TransactionInv,
        TypeOK
<1>2. ASSUME NEW p \in Processes, Unlink(p) PROVE TransactionInv'
  BY <1>2 DEF Unlink, Forget, Goto, TransactionInv, TypeOK
<1>3. ASSUME NEW p \in Processes, Acquire(p) \/ Interrupt(p) \/ Open(p) \/
        EndScript(p) PROVE TransactionInv'
  BY <1>3 DEF Acquire, Interrupt, Open, EndScript, Exit, Forget, Goto,
        Release, TransactionInv, TypeOK
<1>4. ASSUME NEW p \in Processes, Crash(p) PROVE TransactionInv'
  BY <1>4 DEF Crash, Forget, Goto, Release, TransactionInv, TypeOK
<1>5. ASSUME NEW p \in Processes, Seed(p) \/ InitPassword(p) \/ RotateEnd(p)
        \/ Close(p) PROVE TransactionInv'
  BY <1>5 DEF Seed, InitPassword, RotateEnd, Close, Exit, Forget, Goto,
        Release, TransactionInv, TypeOK
<1>6. ASSUME NEW p \in Processes, Look(p) \/ ReadKey(p) \/ Verify(p) \/
        Shutdown(p) PROVE TransactionInv'
  BY <1>6 DEF Look, ReadKey, Verify, Shutdown, Exit, Release, TransactionInv
<1>7. ASSUME NEW p \in Processes, Seal(p) \/ InitVault(p) PROVE
        TransactionInv'
  BY <1>7 DEF Seal, InitVault, TransactionInv
<1>8. ASSUME NEW p \in Processes, LingerCommits(p) PROVE TransactionInv'
  BY <1>8 DEF LingerCommits, Exit, Forget, Goto, Release, TransactionInv,
        TypeOK
<1>9. ASSUME NEW p \in Processes, Backup(p) \/ BackupEnd(p) \/ Restore(p) \/
        Replace(p) PROVE TransactionInv'
  BY <1>9 DEF Backup, BackupEnd, Restore, Replace, Goto, TransactionInv,
        TypeOK
<1>10. ASSUME NEW p \in Processes, Replaced(p) PROVE TransactionInv'
  BY <1>10 DEF Replaced, Goto, TransactionInv, TypeOK
<1>11. CASE GenerateKey \/ Configure
  BY <1>11 DEF GenerateKey, Configure, TransactionInv, process
<1>12. CASE UNCHANGED vars
  BY <1>12 DEF vars, disk, process, ghosts, TransactionInv
<1>. QED
  BY <1>1, <1>2, <1>3, <1>4, <1>5, <1>6, <1>7, <1>8, <1>9, <1>10,
        <1>11, <1>12 DEF Next, Step

(* Keys are made new, and configured only after their command has ended.   *)
LEMMA KeyStep == VaultInv /\ [Next]_vars => KeyInv'
<1>. SUFFICES ASSUME VaultInv, [Next]_vars PROVE KeyInv'
  OBVIOUS
<1>. USE InstanceAssumption, NobodyAssumption DEF VaultInv
<1>1. ASSUME NEW p \in Processes, Begin(p) PROVE KeyInv'
  BY <1>1 DEF Begin, CommandInv, Commandless, KeyInv, disk
<1>2. ASSUME NEW p \in Processes, BeginWithKey(p) PROVE KeyInv'
  BY <1>2 DEF BeginWithKey, KeyInv, Keys, TypeOK
<1>3. ASSUME NEW p \in Processes, Unlink(p) PROVE KeyInv'
  BY <1>3 DEF Unlink, Forget, KeyInv, TypeOK, disk
<1>4. ASSUME NEW p \in Processes, Acquire(p) \/ Interrupt(p) \/ EndScript(p)
        \/ Seed(p) PROVE KeyInv'
  BY <1>4 DEF Acquire, Interrupt, EndScript, Seed, Exit, Forget, KeyInv,
        TypeOK, disk
<1>5. ASSUME NEW p \in Processes, Crash(p) PROVE KeyInv'
  BY <1>5 DEF Crash, Forget, KeyInv, TypeOK
<1>6. ASSUME NEW p \in Processes, Open(p) PROVE KeyInv'
  BY <1>6 DEF Open, Exit, Forget, KeyInv, TypeOK
<1>7. ASSUME NEW p \in Processes, Look(p) \/ ReadKey(p) \/ Verify(p) \/
        Shutdown(p) PROVE KeyInv'
  BY <1>7 DEF Look, ReadKey, Verify, Shutdown, Exit, Forget, KeyInv, TypeOK,
        disk
<1>8. ASSUME NEW p \in Processes, Seal(p) PROVE KeyInv'
  BY <1>8 DEF Seal, KeyInv, disk, process
<1>9. ASSUME NEW p \in Processes, InitVault(p) \/ RotateBegin(p) \/ Linger(p)
        \/ Restore(p) PROVE KeyInv'
  BY <1>9 DEF InitVault, RotateBegin, Linger, Restore, KeyInv, disk
<1>10. ASSUME NEW p \in Processes, InitPassword(p) \/ RotateEnd(p) \/
        Close(p) \/ LingerCommits(p) PROVE KeyInv'
  BY <1>10 DEF InitPassword, RotateEnd, Close, LingerCommits, Exit, Forget,
        KeyInv, TypeOK, disk
<1>11. ASSUME NEW p \in Processes, Backup(p) \/ BackupEnd(p) \/ Replace(p) \/
        Replaced(p) PROVE KeyInv'
  BY <1>11 DEF Backup, BackupEnd, Replace, Replaced, KeyInv
<1>12. CASE GenerateKey \/ Configure
  BY <1>12 DEF GenerateKey, Configure, KeyInv, process
<1>13. CASE UNCHANGED vars
  BY <1>13 DEF vars, disk, process, ghosts, KeyInv
<1>. QED
  BY <1>1, <1>2, <1>3, <1>4, <1>5, <1>6, <1>7, <1>8, <1>9, <1>10,
        <1>11, <1>12, <1>13 DEF Next, Step

(* A rotation seals with its key as it commits, and from then on does not  *)
(* remove it; a service seals with a key no running command has made.      *)
LEMMA UnsealStep == VaultInv /\ [Next]_vars => Unsealed'
<1>. SUFFICES ASSUME VaultInv, [Next]_vars PROVE Unsealed'
  OBVIOUS
<1>. USE InstanceAssumption, NobodyAssumption DEF VaultInv
<1>1. ASSUME NEW p \in Processes, Begin(p) \/ RotateBegin(p) PROVE Unsealed'
  BY <1>1 DEF Begin, RotateBegin, Goto, TypeOK, Unsealed, disk
<1>2. ASSUME NEW p \in Processes, BeginWithKey(p) PROVE Unsealed'
  BY <1>2 DEF BeginWithKey, Goto, Keys, Openable, OpenedBySome, TypeOK,
        Unsealed
<1>3. ASSUME NEW p \in Processes, Unlink(p) PROVE Unsealed'
  BY <1>3 DEF Unlink, Forget, Goto, TypeOK, Unsealed, disk
<1>4. ASSUME NEW p \in Processes, Acquire(p) PROVE Unsealed'
  BY <1>4 DEF Acquire, Exit, Forget, Goto, TypeOK, Unsealed, disk
<1>5. ASSUME NEW p \in Processes, Interrupt(p) PROVE Unsealed'
  BY <1>5 DEF Interrupt, CommandInv, Exit, Forget, Goto, TypeOK, Unlinks,
        Unsealed, disk
<1>6. ASSUME NEW p \in Processes, Crash(p) PROVE Unsealed'
  BY <1>6 DEF Crash, Forget, Goto, TypeOK, Unsealed
<1>7. ASSUME NEW p \in Processes, Open(p) PROVE Unsealed'
  BY <1>7 DEF Open, Databases, Exit, Forget, Replayed, TypeOK, Unsealed
<1>8. ASSUME NEW p \in Processes, EndScript(p) PROVE Unsealed'
  BY <1>8 DEF EndScript, Databases, Exit, Forget, TypeOK, Undone, Unsealed,
        disk
<1>9. ASSUME NEW p \in Processes, Seed(p) \/ Look(p) PROVE Unsealed'
  BY <1>9 DEF Seed, Look, Exit, Forget, TypeOK, Unsealed, disk
<1>10. ASSUME NEW p \in Processes, ReadKey(p) \/ Shutdown(p) PROVE Unsealed'
  BY <1>10 DEF ReadKey, Shutdown, Exit, Forget, TypeOK, Unsealed, disk
<1>11. ASSUME NEW p \in Processes, Verify(p) PROVE Unsealed'
  BY <1>11 DEF Verify, Databases, Exit, Forget, TypeOK, Unsealed, disk
<1>12. ASSUME NEW p \in Processes, Seal(p) PROVE Unsealed'
  BY <1>12 DEF Seal, CommandInv, Databases, KeyInv, TypeOK, Unsealed, disk,
        process
<1>13. ASSUME NEW p \in Processes, InitVault(p) PROVE Unsealed'
  BY <1>13 DEF InitVault, Databases, Goto, TypeOK, Unsealed, disk
<1>14. ASSUME NEW p \in Processes, InitPassword(p) PROVE Unsealed'
  BY <1>14 DEF InitPassword, Exit, Forget, TypeOK, Unsealed, disk
<1>15. ASSUME NEW p \in Processes, RotateEnd(p) PROVE Unsealed'
  BY <1>15 DEF RotateEnd, Exit, Forget, Goto, KeyInv, Rotated, TypeOK,
        Unsealed, disk
<1>16. ASSUME NEW p \in Processes, Close(p) PROVE Unsealed'
  BY <1>16 DEF Close, Exit, Forget, TypeOK, Unlinks, Unsealed, disk
<1>17. ASSUME NEW p \in Processes, Linger(p) \/ Restore(p) PROVE Unsealed'
  BY <1>17 DEF Linger, Restore, Goto, TypeOK, Unsealed, disk
<1>18. ASSUME NEW p \in Processes, LingerCommits(p) PROVE Unsealed'
  BY <1>18 DEF LingerCommits, CommandInv, Exit, Forget, Goto, KeyInv,
        Rotated, TypeOK, Unlinks, Unsealed, disk
<1>19. ASSUME NEW p \in Processes, Backup(p) PROVE Unsealed'
  BY <1>19 DEF Backup, Goto, Replayed, TypeOK, Unsealed
<1>20. ASSUME NEW p \in Processes, BackupEnd(p) \/ Replaced(p) PROVE
        Unsealed'
  BY <1>20 DEF BackupEnd, Replaced, Goto, TypeOK, Unsealed
<1>21. ASSUME NEW p \in Processes, Replace(p) PROVE Unsealed'
  BY <1>21 DEF Replace, TypeOK, Unsealed
<1>22. CASE GenerateKey \/ Configure
  BY <1>22 DEF GenerateKey, Configure, Unsealed, process
<1>23. CASE UNCHANGED vars
  BY <1>23 DEF vars, disk, process, ghosts, Unsealed
<1>. QED
  BY <1>1, <1>2, <1>3, <1>4, <1>5, <1>6, <1>7, <1>8, <1>9, <1>10,
        <1>11, <1>12, <1>13, <1>14, <1>15, <1>16, <1>17, <1>18, <1>19, <1>20,
        <1>21, <1>22, <1>23 DEF Next, Step

(* A key file is removed (Unlink) only if nothing is sealed with its key.  *)
LEMMA OpenedStep == VaultInv /\ [Next]_vars => Openable'
<1>. SUFFICES ASSUME VaultInv, [Next]_vars PROVE Openable'
  OBVIOUS
<1>. USE InstanceAssumption, NobodyAssumption DEF VaultInv
<1>1. ASSUME NEW p \in Processes, Begin(p) \/ Acquire(p) \/ Interrupt(p) \/
        Seed(p) PROVE Openable'
  BY <1>1 DEF Begin, Acquire, Interrupt, Seed, Openable, OpenedBySome, disk
<1>2. ASSUME NEW p \in Processes, BeginWithKey(p) \/ Crash(p) \/ BackupEnd(p)
        \/ Replace(p) PROVE Openable'
  BY <1>2 DEF BeginWithKey, Crash, BackupEnd, Replace, Openable, OpenedBySome
<1>3. ASSUME NEW p \in Processes, Unlink(p) PROVE Openable'
  <2>1. made[p] # 0
    BY <1>3 DEF Unlink, CommandInv
  <2>2. made[p] \notin db.objects \cup pre.objects \cup saved.objects
    BY <1>3, <2>1 DEF Unlink, Unsealed
  <2>3. \A k \in files \ {made[p]} : k \in files'
    BY <1>3 DEF Unlink
  <2>4. QED
    BY <1>3, <2>2, <2>3 DEF Unlink, Openable, OpenedBySome, disk
<1>4. ASSUME NEW p \in Processes, Open(p) PROVE Openable'
  BY <1>4 DEF Open, Databases, Openable, OpenedBySome, Replayed, TypeOK
<1>5. ASSUME NEW p \in Processes, EndScript(p) PROVE Openable'
  BY <1>5 DEF EndScript, Databases, Openable, OpenedBySome, TypeOK, Undone,
        disk
<1>6. ASSUME NEW p \in Processes, Look(p) \/ ReadKey(p) \/ Shutdown(p) \/
        InitPassword(p) PROVE Openable'
  BY <1>6 DEF Look, ReadKey, Shutdown, InitPassword, Openable, OpenedBySome,
        disk
<1>7. ASSUME NEW p \in Processes, Verify(p) PROVE Openable'
  BY <1>7 DEF Verify, Databases, Openable, OpenedBySome, TypeOK, disk
<1>8. ASSUME NEW p \in Processes, Seal(p) PROVE Openable'
  BY <1>8 DEF Seal, CommandInv, Databases, KeyInv, Openable, OpenedBySome,
        ServedKeyMatches, TypeOK, disk
<1>9. ASSUME NEW p \in Processes, InitVault(p) PROVE Openable'
  BY <1>9 DEF InitVault, Openable, OpenedBySome, TypeOK, disk
<1>10. ASSUME NEW p \in Processes, RotateBegin(p) \/ Close(p) \/ Linger(p) \/
        Restore(p) PROVE Openable'
  BY <1>10 DEF RotateBegin, Close, Linger, Restore, Openable, OpenedBySome,
        disk
<1>11. ASSUME NEW p \in Processes, RotateEnd(p) \/ LingerCommits(p) PROVE
        Openable'
  BY <1>11 DEF RotateEnd, LingerCommits, CommandInv, KeyInv, Openable,
        OpenedBySome, Rotated, disk
<1>12. ASSUME NEW p \in Processes, Backup(p) PROVE Openable'
  BY <1>12 DEF Backup, Openable, OpenedBySome, Replayed
<1>13. ASSUME NEW p \in Processes, Replaced(p) PROVE Openable'
  BY <1>13 DEF Replaced, Openable, OpenedBySome
<1>14. CASE GenerateKey \/ Configure
  BY <1>14 DEF GenerateKey, Configure, Openable, OpenedBySome
<1>15. CASE UNCHANGED vars
  BY <1>15 DEF vars, disk, process, ghosts, Openable, OpenedBySome
<1>. QED
  BY <1>1, <1>2, <1>3, <1>4, <1>5, <1>6, <1>7, <1>8, <1>9, <1>10,
        <1>11, <1>12, <1>13, <1>14, <1>15 DEF Next, Step

(* While a service runs there is no other transaction, and the lock keeps  *)
(* the rest away.                                                          *)
LEMMA ServedStep == VaultInv /\ [Next]_vars => ServedKeyMatches'
<1>. SUFFICES ASSUME VaultInv, [Next]_vars PROVE ServedKeyMatches'
  OBVIOUS
<1>. USE InstanceAssumption, NobodyAssumption DEF VaultInv
<1>1. ASSUME NEW p \in Processes, Begin(p) \/ BeginWithKey(p) \/ InitVault(p)
        \/ RotateBegin(p) PROVE ServedKeyMatches'
  BY <1>1 DEF Begin, BeginWithKey, InitVault, RotateBegin, Goto,
        ServedKeyMatches, TransactionInv, TypeOK
<1>2. ASSUME NEW p \in Processes, Unlink(p) \/ Crash(p) PROVE
        ServedKeyMatches'
  BY <1>2 DEF Unlink, Crash, Forget, Goto, ServedKeyMatches, TransactionInv,
        TypeOK
<1>3. ASSUME NEW p \in Processes, Acquire(p) \/ Interrupt(p) \/ Open(p) \/
        EndScript(p) PROVE ServedKeyMatches'
  BY <1>3 DEF Acquire, Interrupt, Open, EndScript, Exit, Forget, Goto,
        ServedKeyMatches, TransactionInv, TypeOK
<1>4. ASSUME NEW p \in Processes, Seed(p) \/ Look(p) \/ Shutdown(p) \/
        InitPassword(p) PROVE ServedKeyMatches'
  BY <1>4 DEF Seed, Look, Shutdown, InitPassword, Exit, Forget, Goto,
        ServedKeyMatches, TransactionInv, TypeOK
<1>5. ASSUME NEW p \in Processes, ReadKey(p) PROVE ServedKeyMatches'
  BY <1>5 DEF ReadKey, CommandInv, Exit, Forget, Goto, ServedKeyMatches,
        TransactionInv, TypeOK
<1>6. ASSUME NEW p \in Processes, Verify(p) PROVE ServedKeyMatches'
  BY <1>6 DEF Verify, Accepts, Databases, Exit, Forget, Goto, Openable,
        OpenedBySome, ServedKeyMatches, TransactionInv, TypeOK
<1>7. ASSUME NEW p \in Processes, Seal(p) PROVE ServedKeyMatches'
  BY <1>7 DEF Seal, Databases, ServedKeyMatches, TransactionInv, TypeOK,
        process
<1>8. ASSUME NEW p \in Processes, RotateEnd(p) \/ Close(p) \/
        LingerCommits(p) PROVE ServedKeyMatches'
  BY <1>8 DEF RotateEnd, Close, LingerCommits, Exit, Forget, Goto,
        ServedKeyMatches, TransactionInv, TypeOK
<1>9. ASSUME NEW p \in Processes, Linger(p) \/ BackupEnd(p) \/ Restore(p) \/
        Replace(p) PROVE ServedKeyMatches'
  BY <1>9 DEF Linger, BackupEnd, Restore, Replace, Goto, ServedKeyMatches,
        TransactionInv, TypeOK
<1>10. ASSUME NEW p \in Processes, Backup(p) PROVE ServedKeyMatches'
  BY <1>10 DEF Backup, Goto, Replayed, ServedKeyMatches, TransactionInv,
        TypeOK
<1>11. ASSUME NEW p \in Processes, Replaced(p) PROVE ServedKeyMatches'
  BY <1>11 DEF Replaced, Goto, ServedKeyMatches, TransactionInv, TypeOK
<1>12. CASE GenerateKey \/ Configure
  BY <1>12 DEF GenerateKey, Configure, ServedKeyMatches, TransactionInv,
        process
<1>13. CASE UNCHANGED vars
  BY <1>13 DEF vars, disk, process, ghosts, ServedKeyMatches
<1>. QED
  BY <1>1, <1>2, <1>3, <1>4, <1>5, <1>6, <1>7, <1>8, <1>9, <1>10,
        <1>11, <1>12, <1>13 DEF Next, Step

-----------------------------------------------------------------------------
(* The invariant holds of every behaviour of the processes that may own a  *)
(* data directory.                                                         *)
THEOREM VaultSafe == Spec => []VaultInv
<1>1. Init => VaultInv
  BY InitVaultInv
<1>2. VaultInv /\ [Next]_vars => VaultInv'
  BY TypeStep, CommandStep, TransactionStep, KeyStep, UnsealStep, OpenedStep, ServedStep
     DEF VaultInv
<1>. QED
  BY <1>1, <1>2, PTL DEF Spec

(* Whatever is stopped, killed or refused in init, rotate, restore or a    *)
(* migration, a key file opens what the database, the rollback copy and    *)
(* the backup hold.                                                        *)
THEOREM AlwaysOpenable == Spec => []Openable
<1>1. VaultInv => Openable
  BY DEF VaultInv
<1>. QED
  BY <1>1, VaultSafe, PTL

(* A service that has a key has the key its database is sealed with, until *)
(* it ends: no rotation that outlives its lock comes between.              *)
THEOREM ServiceHasTheKey == Spec => []ServedKeyMatches
<1>1. VaultInv => ServedKeyMatches
  BY DEF VaultInv
<1>. QED
  BY <1>1, VaultSafe, PTL
-----------------------------------------------------------------------------
(* Until a process is stopped half way: a database in the middle of a      *)
(* migration is in the hands of the process whose script runs, the log of  *)
(* another database in those of the process that has just replaced the     *)
(* file, and neither copy was made at such a time.                         *)
WholeInv ==
    cut = {} =>
        /\ db.schema # "torn"
        /\ pre.schema \notin {"partial", "torn"}
        /\ saved.schema \notin {"partial", "torn"}
        /\ db.schema = "partial" => lock # Nobody /\ pc[lock] = "script"
        /\ wal = "foreign" => lock # Nobody /\ pc[lock] = "replaced"

LEMMA InitWhole == Init => WholeInv
BY DEF Init, WholeInv, Empty

(* A process that has not the lock does not keep the one that has it.      *)
LEMMA WholeFrame ==
    ASSUME WholeInv, NEW p \in Processes, TypeOK,
           pc' = [pc EXCEPT ![p] = pc'[p]],
           pc[p] \notin {"script", "replaced"}, lock' \in {lock, p, Nobody},
           lock' # lock => lock \in {Nobody, p},
           db'.schema = db.schema, pre' = pre, saved' = saved,
           wal' = "foreign" => wal = "foreign", cut \subseteq cut'
    PROVE  WholeInv'
BY DEF WholeInv, TypeOK

LEMMA WholeStep == VaultInv /\ WholeInv /\ [Next]_vars => WholeInv'
<1>. SUFFICES ASSUME VaultInv, WholeInv, [Next]_vars PROVE WholeInv'
  OBVIOUS
<1>. USE NobodyAssumption DEF disk, process, ghosts
<1>t. TypeOK /\ TransactionInv
  BY DEF VaultInv
<1>e. ASSUME NEW p \in Processes, NEW how, Exit(p, how)
      PROVE  /\ pc' = [pc EXCEPT ![p] = pc'[p]]
             /\ lock' \in {lock, Nobody} /\ (lock' # lock => lock = p)
  BY <1>t, <1>e DEF Exit, Release, Forget, Goto, TypeOK
<1>1. ASSUME NEW p \in Processes, Begin(p) \/ BeginWithKey(p) \/ Unlink(p)
      PROVE  WholeInv'
  BY <1>t, <1>1, WholeFrame DEF Begin, BeginWithKey, Unlink, Forget, Goto, TypeOK
<1>2. ASSUME NEW p \in Processes, Acquire(p)
      PROVE  WholeInv'
  <2>1. CASE Lockable /\ lock' = p /\ Goto(p, "open")
    BY <1>t, <1>2, <2>1, WholeFrame DEF Acquire, Lockable, Goto, TypeOK
  <2>2. CASE Exit(p, "error")
    <3>1. /\ pc[p] = "start" /\ UNCHANGED <<db, pre, saved, wal, cut>>
      BY <1>2 DEF Acquire
    <3>. QED
      BY <1>t, <1>e, <2>2, <3>1, WholeFrame
  <2>. QED
    BY <1>2, <2>1, <2>2 DEF Acquire
<1>3. ASSUME NEW p \in Processes, Interrupt(p)
      PROVE  WholeInv'
  <2>1. Exit(p, "interrupt") /\ UNCHANGED <<db, pre, saved, wal>> /\ cut' = cut \cup Severed(p)
    BY <1>3 DEF Interrupt
  <2>2. CASE pc[p] \notin {"script", "replaced"}
    BY <1>t, <1>e, <2>1, <2>2, WholeFrame
  <2>3. CASE pc[p] = "replaced" \/ (pc[p] = "script" /\ db.schema = "partial")
    BY <2>1, <2>3 DEF Severed, WholeInv
  <2>4. CASE pc[p] = "script" /\ db.schema # "partial"
    BY <1>t, <1>e, <2>1, <2>4 DEF WholeInv, TypeOK
  <2>. QED
    BY <2>2, <2>3, <2>4
<1>4. ASSUME NEW p \in Processes, Crash(p)
      PROVE  WholeInv'
  <2>1. /\ Release(p) /\ Forget(p) /\ UNCHANGED <<db, pre, saved>>
        /\ (wal' = "foreign" => wal = "foreign") /\ cut' = cut \cup Severed(p)
    BY <1>4 DEF Crash
  <2>2. /\ pc' = [pc EXCEPT ![p] = pc'[p]]
        /\ lock' \in {lock, Nobody} /\ (lock' # lock => lock = p)
    BY <1>t, <2>1 DEF Release, Forget, Goto, TypeOK
  <2>3. CASE pc[p] \notin {"script", "replaced"}
    BY <1>t, <2>1, <2>2, <2>3, WholeFrame
  <2>4. CASE pc[p] = "replaced" \/ (pc[p] = "script" /\ db.schema = "partial")
    BY <2>1, <2>4 DEF Severed, WholeInv
  <2>5. CASE pc[p] = "script" /\ db.schema # "partial"
    BY <1>t, <2>1, <2>2, <2>5 DEF WholeInv, TypeOK
  <2>. QED
    BY <2>3, <2>4, <2>5
<1>5. ASSUME NEW p \in Processes, Open(p)
      PROVE  WholeInv'
  <2>1. pc[p] = "open" /\ lock = p /\ wal' = "absent" /\ UNCHANGED <<saved, cut>>
    BY <1>t, <1>5 DEF Open, TypeOK
  <2>2. cut = {} => wal # "foreign" /\ Replayed = db /\ db.schema \notin {"partial", "torn"}
    BY <2>1 DEF WholeInv, Replayed
  <2>3. CASE Replayed.schema \in {"new", "torn"}
    <3>1. UNCHANGED pre /\ db' = Replayed
      BY <1>5, <2>3 DEF Open
    <3>. QED
      BY <2>1, <2>2, <3>1 DEF WholeInv
  <2>4. CASE Replayed.schema \notin {"new", "torn"}
    <3>1. /\ pre' \in {pre, db} /\ lock' = p /\ pc' = [pc EXCEPT ![p] = "script"]
          /\ db'.schema \in {"scratch", "partial"}
      BY <1>t, <1>5, <2>1, <2>4 DEF Open, Goto, TypeOK, Databases
    <3>. QED
      BY <1>t, <2>1, <2>2, <3>1 DEF WholeInv, TypeOK
  <2>. QED
    BY <2>3, <2>4
<1>6. ASSUME NEW p \in Processes, EndScript(p)
      PROVE  WholeInv'
  <2>1. /\ pc[p] = "script" /\ lock = p /\ UNCHANGED <<pre, saved, wal, cut>>
        /\ db'.schema = "new" \/ db' = Undone
    BY <1>t, <1>6 DEF EndScript, TypeOK, Databases
  <2>2. cut = {} => wal # "foreign" /\ db'.schema \notin {"partial", "torn"}
    BY <2>1 DEF WholeInv, Undone
  <2>. QED
    BY <2>1, <2>2 DEF WholeInv
<1>7. ASSUME NEW p \in Processes,
             Seed(p) \/ Look(p) \/ ReadKey(p) \/ Shutdown(p) \/ InitPassword(p)
             \/ Close(p)
      PROVE  WholeInv'
  <2>1. /\ pc[p] \notin {"script", "replaced"} /\ UNCHANGED <<db, pre, saved, wal, cut>>
        /\ \/ \E how \in {"done", "error"} : Exit(p, how)
           \/ UNCHANGED lock /\ \E label : Goto(p, label)
    BY <1>7 DEF Seed, Look, ReadKey, Shutdown, InitPassword, Close
  <2>2. /\ pc' = [pc EXCEPT ![p] = pc'[p]]
        /\ lock' \in {lock, Nobody} /\ (lock' # lock => lock = p)
    BY <1>t, <1>e, <2>1 DEF Goto, TypeOK
  <2>. QED
    BY <1>t, <2>1, <2>2, WholeFrame
<1>8. ASSUME NEW p \in Processes,
             Verify(p) \/ Seal(p) \/ InitVault(p) \/ RotateBegin(p) \/ RotateEnd(p)
             \/ LingerCommits(p)
      PROVE  WholeInv'
  <2>1. /\ pc[p] \notin {"script", "replaced"} /\ UNCHANGED <<pre, saved, wal, cut>>
        /\ \/ \E how \in {"interrupt", "error"} : Exit(p, how)
           \/ UNCHANGED lock /\ \E label : Goto(p, label)
           \/ UNCHANGED <<lock, pc>>
    BY <1>8 DEF Verify, Seal, InitVault, RotateBegin, RotateEnd, LingerCommits
  <2>2. db'.schema = db.schema
    BY <1>t, <1>8 DEF Verify, Seal, InitVault, RotateBegin, RotateEnd,
       LingerCommits, Rotated, TypeOK, Databases
  <2>3. /\ pc' = [pc EXCEPT ![p] = pc'[p]]
        /\ lock' \in {lock, Nobody} /\ (lock' # lock => lock = p)
    BY <1>t, <1>e, <2>1 DEF Goto, TypeOK
  <2>. QED
    BY <1>t, <2>1, <2>2, <2>3, WholeFrame
<1>9. ASSUME NEW p \in Processes, Linger(p)
      PROVE  WholeInv'
  BY <1>t, <1>9, WholeFrame DEF Linger, Goto, TypeOK
<1>10. ASSUME NEW p \in Processes, Backup(p)
       PROVE  WholeInv'
  <2>1. /\ lock = Nobody /\ wal' = "absent" /\ db' = Replayed
        /\ UNCHANGED <<pre, saved, cut>>
    BY <1>10 DEF Backup, Lockable
  <2>. QED
    BY <2>1 DEF WholeInv, Replayed
<1>11. ASSUME NEW p \in Processes, BackupEnd(p)
       PROVE  WholeInv'
  <2>1. /\ pc[p] = "backup" /\ lock = p /\ saved' \in {saved, db}
        /\ UNCHANGED <<db, pre, wal, cut>>
    BY <1>t, <1>11 DEF BackupEnd, TypeOK
  <2>. QED
    BY <2>1 DEF WholeInv
<1>12. ASSUME NEW p \in Processes, Restore(p)
       PROVE  WholeInv'
  BY <1>t, <1>12, WholeFrame DEF Restore, Lockable, Goto, TypeOK
<1>13. ASSUME NEW p \in Processes, Replace(p)
       PROVE  WholeInv'
  <2>1. pc[p] = "copied" /\ lock = p /\ UNCHANGED <<pre, saved, cut>>
    BY <1>t, <1>13 DEF Replace, TypeOK
  <2>2. \/ db' = saved /\ lock' = p /\ pc' = [pc EXCEPT ![p] = "replaced"]
        \/ UNCHANGED <<db, wal>>
    BY <1>13, <2>1 DEF Replace, Goto
  <2>. QED
    BY <1>t, <2>1, <2>2 DEF WholeInv, TypeOK
<1>14. ASSUME NEW p \in Processes, Replaced(p)
       PROVE  WholeInv'
  <2>1. /\ pc[p] = "replaced" /\ lock = p /\ wal' = "absent"
        /\ UNCHANGED <<db, pre, saved, cut>>
    BY <1>t, <1>14 DEF Replaced, TypeOK
  <2>. QED
    BY <2>1 DEF WholeInv
<1>15. CASE GenerateKey \/ Configure \/ UNCHANGED vars
  BY <1>15 DEF GenerateKey, Configure, vars, WholeInv
<1>. QED
  BY <1>1, <1>2, <1>3, <1>4, <1>5, <1>6, <1>7, <1>8, <1>9, <1>10, <1>11, <1>12,
     <1>13, <1>14, <1>15 DEF Next, Step

(* A service keeps its database to itself: whoever else could change it    *)
(* needs the lock, or the transaction of a rotation that has lost it.      *)
LEMMA Undisturbed ==
    ASSUME VaultInv, Next, NEW p \in Processes, pc[p] = "serving", db' # db
    PROVE  lock = p /\ db'.sentinel = db.sentinel /\ db'.schema = db.schema
<1>. USE NobodyAssumption DEF disk, process, ghosts
<1>1. /\ lock = p /\ txn = Nobody /\ db \in Databases
      /\ \A q \in Processes : lock = q <=> q = p
      /\ \A q \in Processes :
            pc[q] \in {"open", "script", "seed", "work", "verify", "serving", "password",
                       "rotating", "closing", "backup", "copied", "replaced"} => q = p
  BY DEF VaultInv, TypeOK, TransactionInv
<1>2. PICK q \in Processes : Step(q)
  BY DEF Next, GenerateKey, Configure
<1>3. CASE Seal(q)
  <2>1. q = p
    BY <1>1, <1>3 DEF Seal
  <2>. QED
    BY <1>1, <1>3, <2>1 DEF Seal, Databases
<1>4. CASE \/ Open(q) \/ EndScript(q) \/ Verify(q) \/ InitVault(q) \/ RotateEnd(q)
           \/ LingerCommits(q) \/ Backup(q) \/ Replace(q)
  BY <1>1, <1>4 DEF Open, EndScript, Verify, InitVault, RotateEnd, LingerCommits,
     Backup, Lockable, Replace
<1>5. CASE \/ Begin(q) \/ BeginWithKey(q) \/ Unlink(q) \/ Acquire(q) \/ Interrupt(q)
           \/ Crash(q) \/ Seed(q) \/ Look(q) \/ ReadKey(q) \/ Shutdown(q)
           \/ InitPassword(q) \/ RotateBegin(q) \/ Close(q) \/ Linger(q)
           \/ BackupEnd(q) \/ Restore(q) \/ Replaced(q)
  BY <1>5 DEF Begin, BeginWithKey, Unlink, Acquire, Interrupt, Crash, Seed, Look,
     ReadKey, Shutdown, InitPassword, RotateBegin, Close, Linger, BackupEnd,
     Restore, Replaced
<1>. QED
  BY <1>2, <1>3, <1>4, <1>5 DEF Step
-----------------------------------------------------------------------------
(* Only who is stopped in the middle of a migration or of a restore leaves *)
(* the database neither old nor new.                                       *)
THEOREM AlwaysWhole == Spec => []WholeUnlessCut
<1>1. WholeInv => WholeUnlessCut
  BY DEF WholeInv, WholeUnlessCut
<1>2. Init => WholeInv
  BY InitWhole
<1>3. VaultInv /\ WholeInv /\ [Next]_vars => WholeInv'
  BY WholeStep
<1>. QED
  BY VaultSafe, <1>1, <1>2, <1>3, PTL DEF Spec

(* While a service runs, no other process changes its database, and it     *)
(* does not change the sentinel or the schema itself.                      *)
THEOREM ServiceIsAlone == Spec => ServingUndisturbed
<1>. DEFINE Alone == \A p \in Processes : pc[p] = "serving" /\ db' # db =>
                         lock = p /\ db'.sentinel = db.sentinel /\ db'.schema = db.schema
<1>1. VaultInv /\ Next => Alone
  BY Undisturbed
<1>2. VaultInv /\ [Next]_vars => [Alone]_vars
  BY <1>1
<1>. QED
  BY VaultSafe, <1>2, PTL DEF Spec, ServingUndisturbed
=============================================================================
