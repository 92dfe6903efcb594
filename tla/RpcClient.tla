----------------------------- MODULE RpcClient -----------------------------
(***************************************************************************)
(* AppServerClient (codex/client.py): one Codex app-server process, the    *)
(* requests of several coroutines to it, the reader that hands out its     *)
(* answers and notifications, and close().                                 *)
(*                                                                         *)
(* Grain: one action per step between two awaits.  The event loop runs one *)
(* coroutine at a time; a cancellation or a timeout reaches a coroutine at *)
(* its await.                                                              *)
(*                                                                         *)
(* Abstracted: the contents of frames (an answer is ok or an error), the   *)
(* class of the exception a request fails with, and bytes: a pipe holds    *)
(* whole frames.                                                           *)
(***************************************************************************)
EXTENDS Integers, Sequences, FiniteSets

CONSTANTS MaxRequests, (* bound: requests, numbered as _next_id does       *)
          Rejectable,  (* bound: requests Codex may answer with an error   *)
          Closers,     (* coroutines that may call close()                 *)
          QueueSize,   (* capacity of the queue of notifications           *)
          HighWater,   (* frames stdin takes before drain() waits          *)
          MaxNotes,    (* bound: notifications Codex sends                 *)
          MaxFrames    (* bound: frames in the pipe from Codex             *)

ASSUME RpcAssumption ==
    /\ MaxRequests \in Nat \ {0} /\ Rejectable \subseteq 1 .. MaxRequests
    /\ QueueSize \in Nat \ {0} /\ HighWater \in Nat \ {0}
    /\ MaxNotes \in Nat /\ MaxFrames \in Nat \ {0}

Requests   == 1 .. MaxRequests
Initialize == 1            (* the request spawn() makes                    *)
Closed     == 0            (* _NOTIFICATION_CLOSED in the queue; also the  *)
                           (* frame of the notification "initialized"      *)

VARIABLES
    request,   (* where each request stands, and at last what it returned  *)
    future,    (* its future; "open" while it is in _pending               *)
    writers,   (* _writer_lock: its holder, then its waiters in order      *)
    stdin,     (* frames written and not read by Codex                     *)
    child,     (* the process                                              *)
    taken,     (* requests Codex has read and not answered                 *)
    said,      (* the answers Codex has given: <<request, kind>>           *)
    noted,     (* number of notifications Codex has sent                   *)
    stdout,    (* frames sent and not read by _read_loop                   *)
    reader,    (* _reader_task                                             *)
    queue,     (* _notifications                                           *)
    terminal,  (* _terminal_error is set                                   *)
    closing,   (* _closing                                                 *)
    closed,    (* _closed                                                  *)
    closer,    (* each close() call                                        *)
    spawned,   (* spawn()                                                  *)
    consumer,  (* the coroutine that iterates over notifications()         *)
    heard      (* the last notification it got                             *)

calls  == <<request, future, writers>>
codex  == <<child, taken, said, noted>>
ends   == <<closing, closed, closer>>
stream == <<consumer, heard>>
vars   == <<calls, stdin, codex, stdout, reader, queue, terminal, ends, spawned, stream>>
-----------------------------------------------------------------------------
Answers  == {"ok", "rejected"}
Ended    == Answers \cup {"failed"}
Over     == consumer \in {"ended", "left"}
Busy     == {"queue", "drain", "wait"}

Frame(kind, n) == [kind |-> kind, of |-> n]
Frames == [kind : Answers, of : Requests] \cup [kind : {"note"}, of : 1 .. MaxNotes]
              \cup {Frame("bad", 0)}

TypeOK ==
    /\ request \in [Requests -> {"new"} \cup Busy \cup Ended]
    /\ future \in [Requests -> {"none", "open", "gone", "dropped"} \cup Answers]
    /\ writers \in Seq(Requests)
    /\ stdin \in Seq(Requests \cup {Closed})
    /\ child \in {"running", "terminated", "killed", "dead"}
    /\ taken \subseteq Requests /\ said \subseteq Requests \X Answers
    /\ noted \in 0 .. MaxNotes
    /\ stdout \in Seq(Frames)
    /\ reader \in {"reading", "cancelled", "done"}
    /\ queue \in Seq(0 .. MaxNotes) /\ Len(queue) <= QueueSize
    /\ terminal \in BOOLEAN /\ closing \in BOOLEAN /\ closed \in BOOLEAN
    /\ closer \in [Closers -> {"idle", "wait", "reap", "gather"}]
    /\ spawned \in {"initialize", "ready", "failed"}
    /\ consumer \in {"waiting", "ended", "left"}
    /\ heard \in 0 .. MaxNotes

Init ==
    /\ request = [r \in Requests |-> IF r = Initialize THEN "wait" ELSE "new"]
    /\ future = [r \in Requests |-> IF r = Initialize THEN "open" ELSE "none"]
    /\ writers = <<>> /\ stdin = <<Initialize>>
    /\ child = "running" /\ taken = {} /\ said = {} /\ noted = 0
    /\ stdout = <<>> /\ reader = "reading" /\ queue = <<>> /\ terminal = FALSE
    /\ closing = FALSE /\ closed = FALSE /\ closer = [c \in Closers |-> "idle"]
    /\ spawned = "initialize" /\ consumer = "waiting" /\ heard = 0
-----------------------------------------------------------------------------
(***************************************************************************)
(* Requests.                                                               *)
(***************************************************************************)

(* The lock is released or given up by r, whose place is anywhere in line. *)
Without(r) ==
    LET places == {i \in 1 .. Len(writers) : writers[i] = r}
        place  == CHOOSE i \in places : TRUE
    IN  IF places = {} THEN writers
        ELSE SubSeq(writers, 1, place - 1) \o SubSeq(writers, place + 1, Len(writers))

(* stdin.write and drain by the holder of the lock, which waits in drain   *)
(* while the pipe is too full.  What is written to a process that is gone  *)
(* is lost, and drain may raise.                                           *)
Submit(r) ==
    \/ /\ child # "dead"
       /\ stdin' = Append(stdin, r)
       /\ IF Len(stdin') > HighWater
          THEN /\ request' = [request EXCEPT ![r] = "drain"]
               /\ writers' = <<r>> \o Without(r)
          ELSE /\ request' = [request EXCEPT ![r] = "wait"]
               /\ writers' = Without(r)
       /\ future' = [future EXCEPT ![r] = IF @ = "none" THEN "open" ELSE @]
    \/ /\ child = "dead"
       /\ writers' = Without(r)
       /\ \/ /\ request' = [request EXCEPT ![r] = "wait"]
             /\ future' = [future EXCEPT ![r] = IF @ = "none" THEN "open" ELSE @]
          \/ /\ request' = [request EXCEPT ![r] = "failed"]
             /\ future' = [future EXCEPT ![r] = "dropped"]
       /\ UNCHANGED stdin

(* A coroutine calls request(): refused at once after a terminal error;    *)
(* else in _pending before it asks for the lock.                           *)
Issue(r) ==
    /\ spawned = "ready" /\ request[r] = "new"
    /\ \A q \in 1 .. r - 1 : request[q] # "new"
    /\ \/ /\ terminal
          /\ request' = [request EXCEPT ![r] = "failed"]
          /\ UNCHANGED <<future, writers, stdin>>
       \/ ~terminal /\ writers = <<>> /\ Submit(r)
       \/ /\ ~terminal /\ writers # <<>>
          /\ request' = [request EXCEPT ![r] = "queue"]
          /\ future' = [future EXCEPT ![r] = "open"]
          /\ writers' = Append(writers, r)
          /\ UNCHANGED stdin
    /\ UNCHANGED <<codex, stdout, reader, queue, terminal, ends, spawned, stream>>

(* The lock comes to r, whatever has become of its future meanwhile.       *)
Write(r) ==
    /\ request[r] = "queue" /\ Head(writers) = r
    /\ Submit(r)
    /\ UNCHANGED <<codex, stdout, reader, queue, terminal, ends, spawned, stream>>

(* drain returns; or the pipe is lost, and it may raise.                   *)
Drained(r) ==
    /\ request[r] = "drain"
    /\ \/ /\ Len(stdin) <= HighWater \/ child = "dead"
          /\ request' = [request EXCEPT ![r] = "wait"]
          /\ UNCHANGED future
       \/ /\ child = "dead"
          /\ request' = [request EXCEPT ![r] = "failed"]
          /\ future' = [future EXCEPT ![r] = "dropped"]
    /\ writers' = Without(r)
    /\ UNCHANGED <<stdin, codex, stdout, reader, queue, terminal, ends, spawned, stream>>

(* The wait for the future ends with its result or exception.              *)
Return(r) ==
    /\ request[r] = "wait" /\ future[r] \in Answers \cup {"gone"}
    /\ request' = [request EXCEPT ![r] = IF future[r] = "gone" THEN "failed" ELSE future[r]]
    /\ future' = [future EXCEPT ![r] = "dropped"]
    /\ UNCHANGED <<writers, stdin, codex, stdout, reader, queue, terminal, ends, spawned, stream>>

(* Only the wait for the answer has a timeout.  It wins over a future that *)
(* has its result and whose coroutine has not run yet.                     *)
TimeOut(r) ==
    /\ request[r] = "wait"
    /\ request' = [request EXCEPT ![r] = "failed"]
    /\ future' = [future EXCEPT ![r] = "dropped"]
    /\ UNCHANGED <<writers, stdin, codex, stdout, reader, queue, terminal, ends, spawned, stream>>

(* The caller is cancelled at any of the three awaits.                     *)
Cancel(r) ==
    /\ request[r] \in Busy
    /\ request' = [request EXCEPT ![r] = "failed"]
    /\ future' = [future EXCEPT ![r] = "dropped"]
    /\ writers' = Without(r)
    /\ UNCHANGED <<stdin, codex, stdout, reader, queue, terminal, ends, spawned, stream>>

(* spawn() goes on: the notification "initialized", or failure.            *)
Spawned ==
    /\ spawned = "initialize" /\ request[Initialize] \in Ended
    /\ \/ /\ request[Initialize] = "ok" /\ ~terminal
          /\ spawned' = "ready"
          /\ stdin' = IF child = "dead" THEN stdin ELSE Append(stdin, Closed)
       \/ /\ request[Initialize] # "ok" \/ terminal \/ child = "dead"
          /\ spawned' = "failed" /\ UNCHANGED stdin
    /\ UNCHANGED <<calls, codex, stdout, reader, queue, terminal, ends, stream>>
-----------------------------------------------------------------------------
(***************************************************************************)
(* Codex.  It may answer an error, late, in any order or never, send a     *)
(* frame that does not parse or is too long, stop reading, and exit.       *)
(***************************************************************************)
Alive == child \in {"running", "terminated"}
Room  == Len(stdout) < MaxFrames

ChildReads ==
    /\ Alive /\ stdin # <<>>
    /\ stdin' = Tail(stdin)
    /\ taken' = taken \cup ({Head(stdin)} \cap Requests)
    /\ UNCHANGED <<calls, child, said, noted, stdout, reader, queue, terminal, ends, spawned,
                   stream>>

ChildAnswers(r, k) ==
    /\ Alive /\ r \in taken /\ Room /\ (k = "rejected" => r \in Rejectable)
    /\ taken' = taken \ {r} /\ said' = said \cup {<<r, k>>}
    /\ stdout' = Append(stdout, Frame(k, r))
    /\ UNCHANGED <<calls, stdin, child, noted, reader, queue, terminal, ends, spawned,
                   stream>>

ChildNotifies ==
    /\ Alive /\ noted < MaxNotes /\ Room
    /\ noted' = noted + 1
    /\ stdout' = Append(stdout, Frame("note", noted'))
    /\ UNCHANGED <<calls, stdin, child, taken, said, reader, queue, terminal, ends, spawned,
                   stream>>

ChildGarbles ==
    /\ Alive /\ Room
    /\ stdout' = Append(stdout, Frame("bad", 0))
    /\ UNCHANGED <<calls, stdin, codex, reader, queue, terminal, ends, spawned, stream>>

(* It exits when it likes, on SIGTERM or not, and at SIGKILL.  What it has *)
(* written can still be read.                                              *)
ChildExits ==
    /\ child # "dead"
    /\ child' = "dead" /\ stdin' = <<>> /\ taken' = {}
    /\ UNCHANGED <<calls, said, noted, stdout, reader, queue, terminal, ends, spawned,
                   stream>>
-----------------------------------------------------------------------------
(***************************************************************************)
(* The reader and the queue of notifications.                              *)
(***************************************************************************)

(* put_nowait; when the queue is full, the oldest entry makes room.        *)
PutNewest(x) == IF Len(queue) < QueueSize THEN Append(queue, x) ELSE queue
Put(x) == IF Len(queue) < QueueSize THEN Append(queue, x) ELSE Append(Tail(queue), x)

(* _wake_notification_waiters.                                             *)
WakeIfRoom == PutNewest(Closed)
Wake       == Put(Closed)

(* _fail_pending, on the futures that are in _pending.                     *)
FailPending == [r \in Requests |-> IF future[r] = "open" THEN "gone" ELSE future[r]]

(* An answer is handed to the pending request of its id; nobody waits for  *)
(* a late one.                                                             *)
SettleFirst(f) ==
    [r \in Requests |-> IF /\ future[r] = "open"
                          /\ \A q \in 1 .. r - 1 : future[q] # "open"
                       THEN f.kind ELSE future[r]]
Settle(f) ==
    [r \in Requests |-> IF r = f.of /\ future[r] = "open" THEN f.kind ELSE future[r]]

ReadFrame ==
    /\ reader = "reading" /\ stdout # <<>>
    /\ stdout' = Tail(stdout)
    /\ LET f == Head(stdout) IN
       \/ /\ f.kind \in Answers
          /\ future' = Settle(f)
          /\ UNCHANGED <<queue, reader, terminal>>
       \/ /\ f.kind = "note"
          /\ queue' = Put(f.of)
          /\ UNCHANGED <<future, reader, terminal>>
       \/ /\ f.kind = "bad"
          /\ future' = FailPending /\ terminal' = TRUE
          /\ queue' = Wake /\ reader' = "done"
    /\ UNCHANGED <<request, writers, stdin, codex, ends, spawned, stream>>

(* The end of the output is an error, unless close() has begun: then the   *)
(* requests are left to it.                                                *)
EofIsError == ~closing
AtEofLeft  == future
AtEof      == IF EofIsError THEN FailPending ELSE future

ReadEof ==
    /\ reader = "reading" /\ stdout = <<>> /\ child = "dead"
    /\ future' = AtEof /\ terminal' = (terminal \/ EofIsError)
    /\ queue' = Wake /\ reader' = "done"
    /\ UNCHANGED <<request, writers, stdin, codex, stdout, ends, spawned, stream>>

(* Cancelled by close(), it wakes the consumer once more.                  *)
ReaderStops ==
    /\ reader = "cancelled"
    /\ queue' = Wake /\ reader' = "done"
    /\ UNCHANGED <<calls, stdin, codex, stdout, terminal, ends, spawned, stream>>

(* One coroutine iterates over notifications(), once the client is spawned.*)
Consume ==
    /\ spawned = "ready" /\ consumer = "waiting" /\ queue # <<>>
    /\ queue' = Tail(queue)
    /\ \/ /\ Head(queue) # Closed
          /\ heard' = Head(queue) /\ UNCHANGED consumer
       \/ /\ Head(queue) = Closed
          /\ consumer' = IF terminal THEN "left" ELSE "ended"
          /\ UNCHANGED heard
    /\ UNCHANGED <<calls, stdin, codex, stdout, reader, terminal, ends, spawned>>

(* The consumer has what it waited for, times out or is cancelled.  That   *)
(* the stream raises the terminal error is the same to it.                 *)
Leave ==
    /\ spawned = "ready" /\ consumer = "waiting"
    /\ consumer' = "left"
    /\ UNCHANGED <<calls, stdin, codex, stdout, reader, queue, terminal, ends, spawned, heard>>
-----------------------------------------------------------------------------
(***************************************************************************)
(* close(), called by any of its owners, perhaps by two at a time.         *)
(***************************************************************************)

(* The finally clause up to its await: pending requests fail, the consumer *)
(* is woken, the reader cancelled.                                         *)
Finally(c) ==
    /\ future' = FailPending /\ terminal' = TRUE
    /\ queue' = Wake
    /\ reader' = IF reader = "reading" THEN "cancelled" ELSE reader
    /\ closer' = [closer EXCEPT ![c] = "gather"]

CloseStart(c) ==
    /\ spawned # "initialize" /\ closer[c] = "idle" /\ ~closed
    /\ closing' = TRUE
    /\ \/ child = "dead" /\ Finally(c) /\ UNCHANGED child
       \/ /\ closer' = [closer EXCEPT ![c] = "wait"]
          /\ child' = IF child = "running" THEN "terminated" ELSE child
          /\ UNCHANGED <<future, terminal, queue, reader>>
    /\ UNCHANGED <<request, writers, stdin, taken, said, noted, stdout, closed, spawned, stream>>

(* process.wait() returns.                                                 *)
CloseReaped(c) ==
    /\ closer[c] \in {"wait", "reap"} /\ child = "dead"
    /\ Finally(c)
    /\ UNCHANGED <<request, writers, stdin, codex, stdout, closing, closed, spawned, stream>>

KillLater == child
Kill      == IF child = "dead" THEN child ELSE "killed"

(* It has not ended within ten seconds, or the wait was cancelled.         *)
CloseKill(c) ==
    /\ closer[c] = "wait"
    /\ child' = Kill
    /\ closer' = [closer EXCEPT ![c] = "reap"]
    /\ UNCHANGED <<calls, stdin, taken, said, noted, stdout, reader, queue, terminal, closing,
                   closed, spawned, stream>>

(* Cancelled while it waits for the killed process: on to the finally      *)
(* clause, with the process perhaps still there.                           *)
CloseHurried(c) ==
    /\ closer[c] = "reap"
    /\ Finally(c)
    /\ UNCHANGED <<request, writers, stdin, codex, stdout, closing, closed, spawned, stream>>

(* Both tasks have ended; close() raises if the process has not.           *)
CloseDone(c) ==
    /\ closer[c] = "gather" /\ reader = "done"
    /\ closed' = (child = "dead")
    /\ closer' = [closer EXCEPT ![c] = "idle"]
    /\ UNCHANGED <<calls, stdin, codex, stdout, reader, queue, terminal, closing, spawned, stream>>

(* Cancelled in its last await.                                            *)
CloseCut(c) ==
    /\ closer[c] = "gather"
    /\ closer' = [closer EXCEPT ![c] = "idle"]
    /\ UNCHANGED <<calls, stdin, codex, stdout, reader, queue, terminal, closing, closed, spawned,
                   stream>>
-----------------------------------------------------------------------------
RequestStep(r) == Write(r) \/ Drained(r) \/ Return(r) \/ TimeOut(r)
ReaderStep     == ReadFrame \/ ReadEof \/ ReaderStops
CloserStep(c)  == CloseReaped(c) \/ CloseKill(c) \/ CloseDone(c)

Next ==
    \/ \E r \in Requests : Issue(r) \/ Cancel(r) \/ RequestStep(r)
    \/ \E r \in Requests, k \in Answers : ChildAnswers(r, k)
    \/ ChildReads \/ ChildNotifies \/ ChildGarbles \/ ChildExits
    \/ Spawned \/ ReaderStep \/ Consume \/ Leave
    \/ \E c \in Closers : CloseStart(c) \/ CloserStep(c) \/ CloseHurried(c) \/ CloseCut(c)

Spec == Init /\ [][Next]_vars

(* The event loop runs what can run, timeouts expire, and SIGKILL works.   *)
(* Nothing is assumed of Codex.                                            *)
FairSpec ==
    /\ Spec
    /\ \A r \in Requests : WF_vars(RequestStep(r))
    /\ WF_vars(ReaderStep) /\ WF_vars(Consume) /\ WF_vars(Spawned)
    /\ WF_vars(child = "killed" /\ ChildExits)
    /\ \A c \in Closers : WF_vars(CloserStep(c))
    /\ WF_vars(\E c \in Closers : spawned = "failed" /\ ~closing /\ CloseStart(c))
-----------------------------------------------------------------------------
(* client.py keeps the promise its callers rely on: an answer reaches the  *)
(* request it was given to and no other, though answers come late,         *)
(* for requests that have been given up or in another order; no request is *)
(* left waiting in the lock, in drain or for its answer once the process   *)
(* is gone, nor is the consumer; what the queue drops does not change the  *)
(* order; and an exit of Codex is never taken for a regular end of the     *)
(* stream.  (If spawn() fails there is no consumer.)                       *)
Outcome == [r \in Requests |-> IF request[r] = "new" THEN "none"
                                ELSE IF request[r] \in Busy THEN "asked"
                                ELSE request[r]]
Hearing == IF spawned = "failed" THEN "left" ELSE consumer
Promise == INSTANCE RpcPromise WITH
    Notes   <- 1 .. MaxNotes,
    outcome <- Outcome,
    gone    <- child = "dead",
    stream  <- Hearing
KeepsClientPromise == Promise!Spec

(* A future in _pending has somebody who will settle it before its timeout *)
(* does: the reader at work, or a close() that has its finally clause      *)
(* before it.  A request that comes after the terminal error, or between   *)
(* an end of file during close() and its finally clause, is no exception.  *)
Closing(c) == closer[c] \in {"wait", "reap"}
PendingIsAttended ==
    (\E r \in Requests : future[r] = "open") =>
        ~terminal /\ (reader = "reading" \/ \E c \in Closers : Closing(c))

(* The mark that ends the stream is never dropped, be the queue full and   *)
(* the reader and two close() calls put one each; and nothing follows it.  *)
EndIsMarked ==
    /\ reader = "done" =>
           Over \/ \E i \in 1 .. Len(queue) : queue[i] = Closed
    /\ \A i, j \in 1 .. Len(queue) : i < j /\ queue[i] = Closed => queue[j] = Closed

(* A full queue loses its oldest notifications only: what is in it is in   *)
(* order and after what has been consumed, and all that Codex has sent     *)
(* since is behind it in the queue or not read yet.                        *)
Unread(n) == \E i \in 1 .. Len(stdout) : stdout[i] = Frame("note", n)
NewestKept ==
    \A i \in 1 .. Len(queue) : queue[i] # Closed =>
        /\ queue[i] > heard
        /\ \A j \in 1 .. i - 1 : queue[j] < queue[i]
        /\ \A n \in queue[i] + 1 .. noted :
              Unread(n) \/ \E j \in i + 1 .. Len(queue) : queue[j] = n

(* Whatever cancels it meanwhile, a close() that has begun ends the        *)
(* process, and whoever has failed to spawn one begins it.                 *)
CloseKills == closing \/ spawned = "failed" ~> child = "dead"
=============================================================================
