----------------------------- MODULE RpcProofs -----------------------------
(***************************************************************************)
(* Theorems about RpcClient for any number of requests, of close() calls   *)
(* and of notifications, and any capacity of the queue: its types, that a  *)
(* pending request is attended to, that the end of the stream is marked    *)
(* and nothing but the oldest is lost, and the safety part of the promise  *)
(* to the client's callers.                                                *)
(***************************************************************************)
EXTENDS RpcClient, SequenceTheorems, TLAPS

(* PendingIsAttended looks at futures; what keeps it is that the client    *)
(* without terminal error still has a reader or a close() before its       *)
(* finally clause, that a close() which has begun stands before it, and    *)
(* that a request that waits in line has got its future before.            *)
LinedUp  == \A r \in Requests : request[r] = "queue" => future[r] # "none"
Attended ==
    ~terminal => /\ reader = "reading" \/ \E c \in Closers : Closing(c)
                 /\ closing => \E c \in Closers : Closing(c)
OpenMeansLive == \A r \in Requests : future[r] = "open" => ~terminal

PendingInv == LinedUp /\ Attended /\ OpenMeansLive

(* The end of the stream is put into the queue by who ends the reader,     *)
(* and only while close() is under way is it not an error.                 *)
MarkedByEnd ==
    \A i \in 1 .. Len(queue) :
        queue[i] = Closed => reader # "reading" /\ (terminal \/ closing)
CutByClose == reader = "cancelled" => terminal
StreamInv == EndIsMarked /\ MarkedByEnd /\ CutByClose

(* Notifications are numbered as Codex sends them: what is not read yet is *)
(* in order, complete up to the last one, and behind all that has been     *)
(* read.                                                                   *)
IsNote(i) == stdout[i].kind = "note"
PipeInOrder ==
    \A i \in 1 .. Len(stdout) : IsNote(i) =>
        /\ stdout[i].of <= noted
        /\ \A j \in 1 .. i - 1 : IsNote(j) => stdout[j].of < stdout[i].of
        /\ \A n \in stdout[i].of + 1 .. noted :
              \E j \in i + 1 .. Len(stdout) : stdout[j] = Frame("note", n)
        /\ heard < stdout[i].of
        /\ \A j \in 1 .. Len(queue) : queue[j] < stdout[i].of
QueueBounded == heard <= noted /\ \A i \in 1 .. Len(queue) : queue[i] <= noted
OrderInv == NewestKept /\ PipeInOrder /\ QueueBounded

(* What is handed to a caller or on its way to one is an answer of Codex,  *)
(* to a request that has been made.                                        *)
Asked  == \A r \in Requests : request[r] = "new" => r \notin taken
                              /\ \A i \in 1 .. Len(stdin) : stdin[i] # r
Given  ==
    /\ \A r \in Requests : future[r] \in Answers => <<r, future[r]>> \in said
    /\ \A i \in 1 .. Len(stdout) :
          stdout[i].kind \in Answers => <<stdout[i].of, stdout[i].kind>> \in said
NoConsumerYet == spawned = "initialize" => consumer = "waiting"
AnswerInv == Asked /\ Given /\ NoConsumerYet

RpcInv == TypeOK /\ PendingInv /\ StreamInv /\ OrderInv /\ AnswerInv
-----------------------------------------------------------------------------
(* What put_nowait leaves in the queue: the new entry last, before it the  *)
(* old ones, without the first of them if the queue was full.              *)
LEMMA PutProperties ==
    ASSUME TypeOK, NEW x \in 0 .. MaxNotes
    PROVE  /\ Put(x) \in Seq(0 .. MaxNotes) /\ Len(Put(x)) \in 1 .. QueueSize
           /\ Put(x)[Len(Put(x))] = x
           /\ \E d \in {0, 1} :
                 /\ Len(Put(x)) = Len(queue) + 1 - d
                 /\ \A i \in 1 .. Len(Put(x)) - 1 : Put(x)[i] = queue[i + d]
<1>. DEFINE S == 0 .. MaxNotes
<1>1. /\ queue \in Seq(S) /\ Len(queue) <= QueueSize /\ Len(queue) \in Nat
      /\ QueueSize \in Nat \ {0}
  BY RpcAssumption, LenProperties DEF TypeOK
<1>2. CASE Len(queue) < QueueSize
  <2>1. Put(x) = Append(queue, x)
    BY <1>2 DEF Put
  <2>2. /\ Put(x) \in Seq(S) /\ Len(Put(x)) = Len(queue) + 1
        /\ \A i \in 1 .. Len(queue) : Put(x)[i] = queue[i]
        /\ Put(x)[Len(queue) + 1] = x
    BY <1>1, <2>1, AppendProperties
  <2>. QED
    BY <1>1, <1>2, <2>2
<1>3. CASE Len(queue) >= QueueSize
  <2>. DEFINE t == Tail(queue)
  <2>1. Put(x) = Append(t, x) /\ queue # <<>>
    BY <1>1, <1>3 DEF Put
  <2>2. /\ t \in Seq(S) /\ Len(t) = Len(queue) - 1
        /\ \A i \in 1 .. Len(t) : t[i] = queue[i + 1]
    BY <1>1, <2>1, HeadTailProperties
  <2>3. /\ Put(x) \in Seq(S) /\ Len(Put(x)) = Len(t) + 1
        /\ \A i \in 1 .. Len(t) : Put(x)[i] = t[i]
        /\ Put(x)[Len(t) + 1] = x
    BY <2>1, <2>2, AppendProperties
  <2>4. \A i \in 1 .. Len(t) : Put(x)[i] = queue[i + 1]
    BY <2>2, <2>3
  <2>5. Len(queue) = QueueSize
    BY <1>1, <1>3
  <2>. QED
    BY <1>1, <2>2, <2>3, <2>4, <2>5
<1>. QED
  BY <1>1, <1>2, <1>3

(* Who leaves the line of the lock leaves the others in it.                *)
LEMMA WithoutType ==
    ASSUME TypeOK, NEW r \in Requests
    PROVE  Without(r) \in Seq(Requests)
<1>. DEFINE places == {i \in 1 .. Len(writers) : writers[i] = r}
            place  == CHOOSE i \in places : TRUE
<1>1. writers \in Seq(Requests) /\ Len(writers) \in Nat
  BY LenProperties DEF TypeOK
<1>2. CASE places = {}
  BY <1>1, <1>2 DEF Without
<1>3. CASE places # {}
  <2>1. place \in 1 .. Len(writers)
    BY <1>3
  <2>2. /\ SubSeq(writers, 1, place - 1) \in Seq(Requests)
        /\ SubSeq(writers, place + 1, Len(writers)) \in Seq(Requests)
    <3>. HIDE DEF place
    <3>1. \A i \in 1 .. Len(writers) : writers[i] \in Requests
      BY <1>1, ElementOfSeq
    <3>2. /\ place - 1 \in Int /\ place + 1 \in Int
          /\ \A i \in 1 .. place - 1 : writers[i] \in Requests
          /\ \A i \in place + 1 .. Len(writers) : writers[i] \in Requests
      BY <1>1, <2>1, <3>1
    <3>3. SubSeq(writers, 1, place - 1) \in Seq(Requests)
      BY <3>2, SubSeqProperties
    <3>4. SubSeq(writers, place + 1, Len(writers)) \in Seq(Requests)
      BY <1>1, <3>2, SubSeqProperties
    <3>. QED
      BY <3>3, <3>4
  <2>3. Without(r) = SubSeq(writers, 1, place - 1) \o SubSeq(writers, place + 1, Len(writers))
    BY <1>3 DEF Without
  <2>. QED
    BY <2>2, <2>3, ConcatProperties
<1>. QED
  BY <1>2, <1>3

LEMMA SubmitType ==
    ASSUME TypeOK, NEW r \in Requests, Submit(r)
    PROVE  /\ request' \in [Requests -> {"new"} \cup Busy \cup Ended]
           /\ future' \in [Requests -> {"none", "open", "gone", "dropped"} \cup Answers]
           /\ writers' \in Seq(Requests)
           /\ stdin' \in Seq(Requests \cup {Closed})
<1>. USE DEF TypeOK
<1>1. Without(r) \in Seq(Requests) /\ <<r>> \o Without(r) \in Seq(Requests)
  BY WithoutType, ConcatProperties
<1>2. Append(stdin, r) \in Seq(Requests \cup {Closed})
  BY AppendProperties
<1>3. request' \in [Requests -> {"new"} \cup Busy \cup Ended]
  BY DEF Submit, Busy, Ended
<1>4. future' \in [Requests -> {"none", "open", "gone", "dropped"} \cup Answers]
  BY DEF Submit
<1>5. writers' \in Seq(Requests) /\ stdin' \in Seq(Requests \cup {Closed})
  BY <1>1, <1>2 DEF Submit
<1>. QED
  BY <1>3, <1>4, <1>5

(* What the finally clause of close() leaves.                              *)
LEMMA FinallyType ==
    ASSUME TypeOK, NEW c \in Closers, Finally(c)
    PROVE  /\ future' \in [Requests -> {"none", "open", "gone", "dropped"} \cup Answers]
           /\ reader' \in {"reading", "cancelled", "done"}
           /\ queue' \in Seq(0 .. MaxNotes) /\ Len(queue') <= QueueSize
           /\ closer' \in [Closers -> {"idle", "wait", "reap", "gather"}]
<1>. USE DEF TypeOK, Finally
<1>1. queue' = Put(0) /\ 0 \in 0 .. MaxNotes
  BY RpcAssumption DEF Wake, Closed
<1>2. Put(0) \in Seq(0 .. MaxNotes) /\ Len(Put(0)) <= QueueSize
  BY <1>1, PutProperties, RpcAssumption
<1>3. FailPending \in [Requests -> {"none", "open", "gone", "dropped"} \cup Answers]
  BY DEF FailPending
<1>. QED
  BY <1>1, <1>2, <1>3

(* Every variable keeps to its values.                                     *)
LEMMA TypeStep ==
    ASSUME TypeOK, [Next]_vars
    PROVE  TypeOK'
<1>. USE DEF calls, codex, ends, stream
<1>n. /\ MaxNotes \in Nat /\ 0 \in 0 .. MaxNotes
      /\ Wake \in Seq(0 .. MaxNotes) /\ Len(Wake) <= QueueSize
  BY RpcAssumption, PutProperties DEF Wake, Closed
<1>1. ASSUME NEW r \in Requests, Issue(r)
      PROVE  TypeOK'
  <2>1. CASE Submit(r)
    BY <1>1, <2>1, SubmitType DEF TypeOK, Issue
  <2>2. CASE terminal /\ request' = [request EXCEPT ![r] = "failed"]
             /\ UNCHANGED <<future, writers, stdin>>
    BY <1>1, <2>2 DEF TypeOK, Issue, Ended
  <2>3. CASE /\ request' = [request EXCEPT ![r] = "queue"]
             /\ future' = [future EXCEPT ![r] = "open"]
             /\ writers' = Append(writers, r)
             /\ UNCHANGED stdin
    BY <1>1, <2>3, AppendProperties DEF TypeOK, Issue, Busy
  <2>. QED
    BY <1>1, <2>1, <2>2, <2>3 DEF Issue
<1>2. ASSUME NEW r \in Requests, Write(r)
      PROVE  TypeOK'
  BY <1>2, SubmitType DEF TypeOK, Write
<1>3. ASSUME NEW r \in Requests, Drained(r) \/ Cancel(r)
      PROVE  TypeOK'
  <2>1. /\ request' \in [Requests -> {"new"} \cup Busy \cup Ended]
        /\ future' \in [Requests -> {"none", "open", "gone", "dropped"} \cup Answers]
    BY <1>3 DEF TypeOK, Drained, Cancel, Busy, Ended
  <2>2. writers' \in Seq(Requests)
    BY <1>3, WithoutType DEF Drained, Cancel
  <2>. QED
    BY <1>3, <2>1, <2>2 DEF TypeOK, Drained, Cancel
<1>4. ASSUME NEW r \in Requests, Return(r) \/ TimeOut(r)
      PROVE  TypeOK'
  <2>1. /\ request' \in [Requests -> {"new"} \cup Busy \cup Ended]
        /\ future' \in [Requests -> {"none", "open", "gone", "dropped"} \cup Answers]
    BY <1>4 DEF TypeOK, Return, TimeOut, Ended, Answers
  <2>. QED
    BY <1>4, <2>1 DEF TypeOK, Return, TimeOut
<1>5. CASE Spawned
  <2>1. Append(stdin, Closed) \in Seq(Requests \cup {Closed})
    BY AppendProperties DEF TypeOK
  <2>2. stdin' \in Seq(Requests \cup {Closed}) /\ spawned' \in {"ready", "failed"}
    BY <1>5, <2>1 DEF TypeOK, Spawned
  <2>. QED
    BY <1>5, <2>2 DEF TypeOK, Spawned
<1>6. CASE ChildReads
  BY <1>6, HeadTailProperties DEF TypeOK, ChildReads
<1>7. ASSUME NEW r \in Requests, NEW k \in Answers, ChildAnswers(r, k)
      PROVE  TypeOK'
  <2>1. Frame(k, r) \in Frames
    BY DEF Frame, Frames
  <2>. QED
    BY <1>7, <2>1, AppendProperties DEF TypeOK, ChildAnswers
<1>8. CASE ChildNotifies
  <2>1. noted + 1 \in 1 .. MaxNotes
    BY <1>8, <1>n DEF TypeOK, ChildNotifies
  <2>2. Frame("note", noted') \in Frames
    BY <1>8, <2>1 DEF Frame, Frames, ChildNotifies
  <2>. QED
    BY <1>8, <2>1, <2>2, AppendProperties DEF TypeOK, ChildNotifies
<1>9. CASE ChildGarbles
  <2>1. Frame("bad", 0) \in Frames
    BY DEF Frames
  <2>. QED
    BY <1>9, <2>1, AppendProperties DEF TypeOK, ChildGarbles
<1>10. CASE ChildExits
  BY <1>10 DEF TypeOK, ChildExits
<1>11. CASE ReadFrame
  <2>1. Head(stdout) \in Frames /\ stdout' \in Seq(Frames)
    BY <1>11, HeadTailProperties DEF TypeOK, ReadFrame
  <2>2. CASE Head(stdout).kind \in Answers /\ future' = Settle(Head(stdout))
             /\ UNCHANGED <<queue, reader, terminal>>
    BY <1>11, <2>1, <2>2 DEF TypeOK, ReadFrame, Settle
  <2>3. CASE Head(stdout).kind = "note" /\ queue' = Put(Head(stdout).of)
             /\ UNCHANGED <<future, reader, terminal>>
    <3>1. Head(stdout).of \in 0 .. MaxNotes
      BY <2>1, <2>3, <1>n DEF Frames, Frame, Answers
    <3>. QED
      <4>1. queue' \in Seq(0 .. MaxNotes) /\ Len(queue') \in 1 .. QueueSize
        BY <2>3, <3>1, PutProperties
      <4>. QED
        BY <1>11, <2>1, <2>3, <4>1, RpcAssumption DEF TypeOK, ReadFrame
  <2>4. CASE future' = FailPending /\ terminal' = TRUE /\ queue' = Wake /\ reader' = "done"
    BY <1>11, <1>n, <2>1, <2>4 DEF TypeOK, ReadFrame, FailPending
  <2>. QED
    BY <1>11, <2>2, <2>3, <2>4 DEF ReadFrame
<1>12. CASE ReadEof
  BY <1>12, <1>n DEF TypeOK, ReadEof, AtEof, EofIsError, FailPending
<1>13. CASE ReaderStops
  BY <1>13, <1>n DEF TypeOK, ReaderStops
<1>14. CASE Consume
  <2>1. /\ Head(queue) \in 0 .. MaxNotes /\ Tail(queue) \in Seq(0 .. MaxNotes)
        /\ Len(Tail(queue)) = Len(queue) - 1 /\ Len(queue) \in Nat
    BY <1>14, HeadTailProperties, LenProperties DEF TypeOK, Consume
  <2>. QED
    BY <1>14, <2>1, RpcAssumption DEF TypeOK, Consume
<1>15. CASE Leave
  BY <1>15 DEF TypeOK, Leave
<1>16. ASSUME NEW c \in Closers, CloseStart(c)
      PROVE  TypeOK'
  <2>1. CASE Finally(c)
    BY <1>16, <2>1, FinallyType DEF TypeOK, CloseStart, Finally
  <2>2. CASE ~Finally(c)
    BY <1>16, <2>2 DEF TypeOK, CloseStart
  <2>. QED
    BY <2>1, <2>2
<1>17. ASSUME NEW c \in Closers, CloseReaped(c) \/ CloseHurried(c)
      PROVE  TypeOK'
  BY ZenonT(30), <1>17, FinallyType DEF TypeOK, CloseReaped, CloseHurried, Finally
<1>18. ASSUME NEW c \in Closers, CloseKill(c) \/ CloseDone(c) \/ CloseCut(c)
      PROVE  TypeOK'
  BY ZenonT(30), <1>18 DEF TypeOK, CloseKill, CloseDone, CloseCut, Kill
<1>19. CASE UNCHANGED vars
  BY <1>19 DEF TypeOK, vars
<1>. QED
  BY <1>1, <1>2, <1>3, <1>4, <1>5, <1>6, <1>7, <1>8, <1>9, <1>10, <1>11,
     <1>12, <1>13, <1>14, <1>15, <1>16, <1>17, <1>18, <1>19
  DEF Next, RequestStep, ReaderStep, CloserStep
-----------------------------------------------------------------------------
(* A request that is written, or fails to be, gets a future if it has none *)
(* yet, and never a second one.                                            *)
LEMMA SubmitFutures ==
    ASSUME TypeOK, NEW r \in Requests, Submit(r)
    PROVE  /\ request'[r] \in {"drain", "wait", "failed"}
           /\ future'[r] = "open" => future[r] \in {"none", "open"}
           /\ \A q \in Requests \ {r} :
                 request'[q] = request[q] /\ future'[q] = future[q]
BY DEF TypeOK, Submit

(* A close() that reaches its finally clause leaves nothing pending and    *)
(* the terminal error.                                                     *)
LEMMA FinallyPending ==
    ASSUME TypeOK, LinedUp, NEW c \in Closers, Finally(c), UNCHANGED request
    PROVE  PendingInv'
BY DEF TypeOK, PendingInv, LinedUp, Attended, OpenMeansLive, Finally, FailPending

LEMMA PendingStep ==
    ASSUME TypeOK, PendingInv, [Next]_vars
    PROVE  PendingInv'
<1>. USE DEF PendingInv, calls, codex, ends, stream
<1>1. ASSUME NEW r \in Requests, Issue(r)
      PROVE  PendingInv'
  <2>1. UNCHANGED <<terminal, reader, closing, closer>>
    BY <1>1 DEF Issue
  <2>2. CASE ~terminal /\ Submit(r)
    BY <2>1, <2>2, SubmitFutures DEF LinedUp, Attended, Closing, OpenMeansLive
  <2>3. CASE \/ terminal /\ request' = [request EXCEPT ![r] = "failed"]
                /\ UNCHANGED future
             \/ ~terminal /\ future' = [future EXCEPT ![r] = "open"]
                /\ request' = [request EXCEPT ![r] = "queue"]
    BY <1>1, <2>1, <2>3 DEF TypeOK, LinedUp, Attended, Closing, OpenMeansLive
  <2>. QED
    BY <1>1, <2>2, <2>3 DEF Issue
<1>2. ASSUME NEW r \in Requests, Write(r)
      PROVE  PendingInv'
  <2>1. UNCHANGED <<terminal, reader, closing, closer>> /\ future[r] # "none"
    BY <1>2 DEF Write, LinedUp
  <2>. QED
    BY <1>2, <2>1, SubmitFutures DEF Write, LinedUp, Attended, Closing, OpenMeansLive
<1>3. ASSUME NEW r \in Requests, Drained(r) \/ Return(r) \/ TimeOut(r) \/ Cancel(r)
      PROVE  PendingInv'
  <2>1. UNCHANGED <<terminal, reader, closing, closer>>
    BY <1>3 DEF Drained, Return, TimeOut, Cancel
  <2>2. /\ request'[r] # "queue" /\ future'[r] \in {future[r], "dropped"}
        /\ \A q \in Requests \ {r} :
              request'[q] = request[q] /\ future'[q] = future[q]
    BY <1>3 DEF TypeOK, Drained, Return, TimeOut, Cancel, Answers
  <2>. QED
    BY <2>1, <2>2 DEF LinedUp, Attended, Closing, OpenMeansLive
<1>4. CASE Spawned \/ Consume \/ Leave \/ UNCHANGED vars
  BY <1>4 DEF Spawned, Consume, Leave, vars, LinedUp, Attended, Closing, OpenMeansLive
<1>5. CASE ChildReads \/ ChildNotifies \/ ChildGarbles \/ ChildExits
  BY <1>5 DEF ChildReads, ChildNotifies, ChildGarbles, ChildExits, LinedUp,
     Attended, Closing, OpenMeansLive
<1>6. ASSUME NEW r \in Requests, NEW k \in Answers, ChildAnswers(r, k)
      PROVE  PendingInv'
  BY <1>6 DEF ChildAnswers, LinedUp, Attended, Closing, OpenMeansLive
<1>7. CASE ReadFrame
  <2>1. UNCHANGED <<request, closing, closer>>
    BY <1>7 DEF ReadFrame
  <2>2. \/ /\ UNCHANGED <<terminal, reader>>
           /\ \/ future' = Settle(Head(stdout)) /\ Head(stdout).kind \in Answers
              \/ UNCHANGED future
        \/ terminal' /\ future' = FailPending
    BY <1>7 DEF ReadFrame
  <2>. QED
    BY <2>1, <2>2 DEF TypeOK, Settle, FailPending, Answers, LinedUp, Attended,
       Closing, OpenMeansLive
<1>8. CASE ReadEof
  BY <1>8 DEF TypeOK, ReadEof, AtEof, EofIsError, FailPending, LinedUp, Attended,
     Closing, OpenMeansLive
<1>9. CASE ReaderStops
  BY <1>9 DEF ReaderStops, LinedUp, Attended, Closing, OpenMeansLive
<1>10. ASSUME NEW c \in Closers, CloseStart(c)
       PROVE  PendingInv'
  <2>1. CASE Finally(c)
    BY <1>10, <2>1, FinallyPending DEF CloseStart
  <2>2. CASE ~Finally(c)
    BY <1>10, <2>2 DEF TypeOK, CloseStart, LinedUp, Attended, Closing, OpenMeansLive
  <2>. QED
    BY <2>1, <2>2
<1>11. ASSUME NEW c \in Closers, CloseReaped(c) \/ CloseHurried(c)
       PROVE  PendingInv'
  BY <1>11, FinallyPending DEF CloseReaped, CloseHurried
<1>12. ASSUME NEW c \in Closers, CloseKill(c) \/ CloseDone(c) \/ CloseCut(c)
       PROVE  PendingInv'
  <2>1. UNCHANGED <<request, future, terminal, reader, closing>>
    BY <1>12 DEF CloseKill, CloseDone, CloseCut
  <2>2. \A d \in Closers : Closing(d) => Closing(d)'
    BY <1>12 DEF TypeOK, CloseKill, CloseDone, CloseCut, Closing
  <2>. QED
    BY <2>1, <2>2 DEF LinedUp, Attended, OpenMeansLive
<1>. QED
  BY <1>1, <1>2, <1>3, <1>4, <1>5, <1>6, <1>7, <1>8, <1>9, <1>10, <1>11, <1>12
  DEF Next, RequestStep, ReaderStep, CloserStep
-----------------------------------------------------------------------------
LEMMA NoteType ==
    ASSUME TypeOK, stdout # <<>>, Head(stdout).kind = "note"
    PROVE  Head(stdout).of \in 1 .. MaxNotes
<1>1. Head(stdout) \in Frames
  BY HeadTailProperties DEF TypeOK
<1>. QED
  BY <1>1 DEF Frames, Frame, Answers

(* When the mark is put, it is in the queue, whatever had to go for it.    *)
LEMMA Marked ==
    ASSUME TypeOK, StreamInv, queue' = Wake, reader' # "reading",
           terminal' \/ closing', reader' = "cancelled" => terminal',
           UNCHANGED consumer
    PROVE  StreamInv'
<1>1. /\ 0 \in 0 .. MaxNotes /\ Len(Wake) \in Nat /\ Len(Wake) >= 1
      /\ Wake[Len(Wake)] = 0
      /\ \E d \in {0, 1} :
            /\ Len(Wake) = Len(queue) + 1 - d
            /\ \A i \in 1 .. Len(Wake) - 1 : Wake[i] = queue[i + d]
  <2>1. Closed \in 0 .. MaxNotes
    BY RpcAssumption DEF Closed
  <2>2. Wake = Put(Closed) /\ Closed = 0
    BY DEF Wake, Closed
  <2>3. Len(Wake) \in 1 .. QueueSize /\ QueueSize \in Nat
    BY <2>1, <2>2, PutProperties, RpcAssumption
  <2>. QED
    BY <2>1, <2>2, <2>3, PutProperties
<1>2. PICK d \in {0, 1} :
         /\ Len(Wake) = Len(queue) + 1 - d
         /\ \A i \in 1 .. Len(Wake) - 1 : Wake[i] = queue[i + d]
  BY <1>1
<1>3. Len(queue) \in Nat
  BY LenProperties DEF TypeOK
<1>4. \A i, j \in 1 .. Len(Wake) : i < j /\ Wake[i] = Closed => Wake[j] = Closed
  <2>1. ASSUME NEW i \in 1 .. Len(Wake), NEW j \in 1 .. Len(Wake),
               i < j, Wake[i] = Closed, j # Len(Wake)
        PROVE  Wake[j] = Closed
    <3>. DEFINE top == Len(Wake)
    <3>0. top \in Nat
      BY <1>1
    <3>1. i \in 1 .. top - 1 /\ j \in 1 .. top - 1
      <4>. HIDE DEF top
      <4>1. i \in 1 .. top /\ j \in 1 .. top /\ i < j /\ j # top
        BY <2>1 DEF top
      <4>. QED
        BY <3>0, <4>1
    <3>2. Wake[i] = queue[i + d] /\ Wake[j] = queue[j + d]
      BY <1>2, <3>1
    <3>3. i + d \in 1 .. Len(queue) /\ j + d \in 1 .. Len(queue) /\ i + d < j + d
      BY <1>2, <1>3, <2>1, <3>1
    <3>4. \A k, l \in 1 .. Len(queue) : k < l /\ queue[k] = Closed => queue[l] = Closed
      BY DEF StreamInv, EndIsMarked
    <3>. QED
      BY <2>1, <3>2, <3>3, <3>4
  <2>. QED
    BY <1>1, <2>1 DEF Closed
<1>5. EndIsMarked'
  <2>1. \E i \in 1 .. Len(Wake) : Wake[i] = Closed
    BY <1>1 DEF Closed
  <2>. QED
    BY <1>4, <2>1 DEF EndIsMarked
<1>. QED
  BY <1>5 DEF StreamInv, MarkedByEnd, CutByClose

(* While neither the reader nor the queue changes, the mark stays true.    *)
LEMMA StreamFrame ==
    ASSUME StreamInv, UNCHANGED <<queue, reader>>, Over => Over',
           terminal => terminal', closing => closing'
    PROVE  StreamInv'
BY DEF StreamInv, EndIsMarked, MarkedByEnd, CutByClose

LEMMA StreamStep ==
    ASSUME TypeOK, StreamInv, [Next]_vars
    PROVE  StreamInv'
<1>. USE DEF calls, codex, ends, stream
<1>1. ASSUME NEW r \in Requests, Issue(r) \/ Cancel(r) \/ RequestStep(r)
      PROVE  StreamInv'
  BY <1>1, StreamFrame DEF Issue, Cancel, RequestStep, Write, Drained, Return,
     TimeOut, Over
<1>2. ASSUME NEW r \in Requests, NEW k \in Answers, ChildAnswers(r, k)
      PROVE  StreamInv'
  BY <1>2, StreamFrame DEF ChildAnswers, Over
<1>3. CASE ChildReads \/ ChildNotifies \/ ChildGarbles \/ ChildExits
  BY <1>3, StreamFrame DEF ChildReads, ChildNotifies, ChildGarbles, ChildExits, Over
<1>4. CASE Spawned \/ Leave \/ UNCHANGED vars
  BY <1>4, StreamFrame DEF Spawned, Leave, vars, Over
<1>5. CASE ReadFrame
  <2>1. UNCHANGED <<closing, consumer>>
    BY <1>5 DEF ReadFrame
  <2>2. CASE UNCHANGED <<queue, reader, terminal>>
    BY <2>1, <2>2, StreamFrame DEF Over
  <2>3. CASE Head(stdout).kind = "note" /\ queue' = Put(Head(stdout).of)
             /\ UNCHANGED <<future, reader, terminal>>
    <3>. DEFINE n == Head(stdout).of
    <3>1. reader = "reading" /\ n \in 1 .. MaxNotes
      BY <1>5, <2>3, NoteType DEF ReadFrame
    <3>2. \A i \in 1 .. Len(queue) : queue[i] # Closed
      BY <3>1 DEF StreamInv, MarkedByEnd
    <3>3. Len(queue) \in Nat /\ n # Closed /\ n \in 0 .. MaxNotes
      BY <3>1, LenProperties, RpcAssumption DEF TypeOK, Closed
    <3>. HIDE DEF n
    <3>4. \A i \in 1 .. Len(Put(n)) : Put(n)[i] # Closed
      <4>1. PICK d \in {0, 1} :
               /\ Len(Put(n)) = Len(queue) + 1 - d
               /\ \A i \in 1 .. Len(Put(n)) - 1 : Put(n)[i] = queue[i + d]
        BY <3>3, PutProperties
      <4>2. Put(n)[Len(Put(n))] = n
        BY <3>3, PutProperties
      <4>. QED
        BY <3>2, <3>3, <4>1, <4>2
    <3>. QED
      BY <2>3, <3>1, <3>4 DEF n, StreamInv, EndIsMarked, MarkedByEnd, CutByClose
  <2>4. CASE terminal' /\ queue' = Wake /\ reader' = "done"
    BY <2>1, <2>4, Marked
  <2>. QED
    BY <1>5, <2>2, <2>3, <2>4 DEF ReadFrame
<1>6. CASE ReadEof
  BY <1>6, Marked DEF TypeOK, ReadEof, EofIsError
<1>7. CASE ReaderStops
  BY <1>7, Marked DEF ReaderStops, StreamInv, CutByClose
<1>8. CASE Consume
  <2>. DEFINE rest == Tail(queue)
  <2>1. /\ queue' = rest /\ UNCHANGED <<reader, terminal, closing>>
        /\ ~Over /\ queue # <<>>
        /\ Head(queue) = Closed => Over'
    BY <1>8 DEF Consume, Over
  <2>2. /\ Len(queue) \in Nat \ {0} /\ Len(rest) = Len(queue) - 1
        /\ \A i \in 1 .. Len(rest) : rest[i] = queue[i + 1]
        /\ Head(queue) = queue[1]
    BY <2>1, HeadTailProperties, LenProperties, EmptySeq DEF TypeOK
  <2>. HIDE DEF rest
  <2>3. \A k, l \in 1 .. Len(queue) : k < l /\ queue[k] = Closed => queue[l] = Closed
    BY DEF StreamInv, EndIsMarked
  <2>4. \A i, j \in 1 .. Len(rest) : i < j /\ rest[i] = Closed => rest[j] = Closed
    <3>1. ASSUME NEW i \in 1 .. Len(rest), NEW j \in 1 .. Len(rest), i < j,
                 rest[i] = Closed
          PROVE  rest[j] = Closed
      <4>1. /\ i + 1 \in 1 .. Len(queue) /\ j + 1 \in 1 .. Len(queue)
            /\ i + 1 < j + 1
            /\ rest[i] = queue[i + 1] /\ rest[j] = queue[j + 1]
        BY <2>2, <3>1
      <4>. QED
        BY <2>3, <3>1, <4>1
    <3>. QED
      BY <3>1
  <2>5. reader' = "done" => Over' \/ \E i \in 1 .. Len(rest) : rest[i] = Closed
    <3>1. ASSUME reader = "done", queue[1] # Closed
          PROVE  \E i \in 1 .. Len(rest) : rest[i] = Closed
      <4>1. PICK k \in 1 .. Len(queue) : queue[k] = Closed
        BY <2>1, <3>1 DEF StreamInv, EndIsMarked
      <4>2. k - 1 \in 1 .. Len(rest) /\ rest[k - 1] = queue[(k - 1) + 1]
        BY <2>2, <3>1, <4>1
      <4>3. (k - 1) + 1 = k
        BY <4>1
      <4>. QED
        BY <4>1, <4>2, <4>3
    <3>. QED
      BY <2>1, <2>2, <3>1
  <2>6. MarkedByEnd'
    <3>1. ASSUME NEW i \in 1 .. Len(rest), rest[i] = Closed
          PROVE  reader # "reading" /\ (terminal \/ closing)
      <4>1. i + 1 \in 1 .. Len(queue) /\ queue[i + 1] = Closed
        BY <2>2, <3>1
      <4>. QED
        BY <4>1 DEF StreamInv, MarkedByEnd
    <3>. QED
      BY <2>1, <3>1 DEF MarkedByEnd
  <2>. QED
    BY <2>1, <2>4, <2>5, <2>6 DEF StreamInv, EndIsMarked, CutByClose
<1>9. ASSUME NEW c \in Closers, CloseStart(c)
      PROVE  StreamInv'
  <2>1. CASE Finally(c)
    BY <1>9, <2>1, Marked DEF TypeOK, CloseStart, Finally
  <2>2. CASE ~Finally(c)
    BY <1>9, <2>2, StreamFrame DEF CloseStart, Over
  <2>. QED
    BY <2>1, <2>2
<1>10. ASSUME NEW c \in Closers, CloseReaped(c) \/ CloseHurried(c)
       PROVE  StreamInv'
  BY <1>10, Marked DEF TypeOK, CloseReaped, CloseHurried, Finally
<1>11. ASSUME NEW c \in Closers, CloseKill(c) \/ CloseDone(c) \/ CloseCut(c)
       PROVE  StreamInv'
  BY <1>11, StreamFrame DEF CloseKill, CloseDone, CloseCut, Over
<1>. QED
  BY <1>1, <1>2, <1>3, <1>4, <1>5, <1>6, <1>7, <1>8, <1>9, <1>10, <1>11
  DEF Next, ReaderStep, CloserStep
-----------------------------------------------------------------------------
(* What is in the pipe: frames; a notification in it is behind all that    *)
(* has been heard.                                                         *)
LEMMA PipeNotes ==
    ASSUME TypeOK, PipeInOrder
    PROVE  /\ Len(stdout) \in Nat /\ Len(queue) \in Nat /\ noted \in Nat /\ heard \in Nat
           /\ \A i \in 1 .. Len(stdout) :
                 stdout[i].kind = "note" => stdout[i].of \in Nat \ {0}
           /\ \A i \in 1 .. Len(queue) : queue[i] \in 0 .. MaxNotes
<1>1. /\ Len(stdout) \in Nat /\ Len(queue) \in Nat /\ noted \in Nat /\ heard \in Nat
      /\ MaxNotes \in Nat
  BY LenProperties, RpcAssumption DEF TypeOK
<1>2. \A i \in 1 .. Len(queue) : queue[i] \in 0 .. MaxNotes
  BY ElementOfSeq DEF TypeOK
<1>3. ASSUME NEW i \in 1 .. Len(stdout), stdout[i].kind = "note"
      PROVE  stdout[i].of \in Nat \ {0}
  <2>1. stdout[i] \in Frames
    BY ElementOfSeq DEF TypeOK
  <2>. QED
    BY <1>1, <1>3, <2>1 DEF Frames, Frame, Answers
<1>. QED
  BY <1>1, <1>2, <1>3

(* Whatever goes into the queue, a notification as it is read or the mark, *)
(* the queue stays in order and complete up to its end.                    *)
LEMMA PutOrder ==
    ASSUME TypeOK, OrderInv, NEW x \in 0 .. MaxNotes, queue' = Put(x),
           UNCHANGED <<noted, heard>>,
           \A n \in 1 .. noted : Unread(n) => Unread(n)' \/ n = x,
           x # Closed =>
               /\ x > heard /\ x <= noted
               /\ \A i \in 1 .. Len(queue) : queue[i] < x
               /\ \A n \in x + 1 .. noted : Unread(n)'
    PROVE  NewestKept' /\ QueueBounded'
<1>. DEFINE q == Put(x)
<1>1. /\ Len(q) \in Nat \ {0} /\ q[Len(q)] = x
      /\ \E d \in {0, 1} : /\ Len(q) = Len(queue) + 1 - d
                           /\ \A i \in 1 .. Len(q) - 1 : q[i] = queue[i + d]
  <2>1. Len(q) \in 1 .. QueueSize /\ QueueSize \in Nat
    BY PutProperties, RpcAssumption
  <2>. QED
    BY <2>1, PutProperties
<1>2. queue' = q
  OBVIOUS
<1>. HIDE DEF q
<1>3. PICK d \in {0, 1} : /\ Len(q) = Len(queue) + 1 - d
                          /\ \A i \in 1 .. Len(q) - 1 : q[i] = queue[i + d]
  BY <1>1
<1>4. /\ Len(queue) \in Nat /\ noted \in Nat /\ heard \in Nat
      /\ \A i \in 1 .. Len(queue) : queue[i] \in 0 .. MaxNotes
  BY PipeNotes DEF OrderInv
<1>5. ASSUME NEW i \in 1 .. Len(q), i # Len(q)
      PROVE  /\ i \in 1 .. Len(q) - 1 /\ i + d \in 1 .. Len(queue)
             /\ q[i] = queue[i + d]
  <2>1. i \in 1 .. Len(q) - 1 /\ i + d \in 1 .. Len(queue)
    BY <1>1, <1>3, <1>4, <1>5
  <2>. QED
    BY <1>3, <2>1
<1>6. QueueBounded'
  <2>1. ASSUME NEW i \in 1 .. Len(q)
        PROVE  q[i] <= noted
    <3>1. CASE i = Len(q)
      BY <1>1, <1>4, <3>1 DEF Closed
    <3>2. CASE i # Len(q)
      BY <1>5, <3>2 DEF OrderInv, QueueBounded
    <3>. QED
      BY <3>1, <3>2
  <2>. QED
    BY <1>2, <2>1 DEF OrderInv, QueueBounded
<1>7. ASSUME NEW i \in 1 .. Len(q), q[i] # Closed
      PROVE  /\ q[i] > heard
             /\ \A j \in 1 .. i - 1 : q[j] < q[i]
             /\ \A n \in q[i] + 1 .. noted :
                   Unread(n)' \/ \E j \in i + 1 .. Len(q) : q[j] = n
  <2>1. CASE i = Len(q)
    <3>1. \A j \in 1 .. i - 1 : q[j] < q[i]
      <4>1. ASSUME NEW j \in 1 .. i - 1
            PROVE  q[j] < x
        <5>1. j \in 1 .. Len(q) /\ j # Len(q)
          BY <1>1, <2>1, <4>1
        <5>2. j + d \in 1 .. Len(queue) /\ q[j] = queue[j + d]
          BY <1>5, <5>1
        <5>. QED
          BY <1>1, <1>7, <2>1, <5>2
      <4>. QED
        BY <1>1, <2>1, <4>1
    <3>. QED
      BY <1>1, <1>7, <2>1, <3>1
  <2>2. CASE i # Len(q)
    <3>1. i + d \in 1 .. Len(queue) /\ q[i] = queue[i + d] /\ i \in 1 .. Len(q) - 1
      BY <1>5, <2>2
    <3>2. /\ queue[i + d] > heard
          /\ \A j \in 1 .. (i + d) - 1 : queue[j] < queue[i + d]
          /\ \A n \in queue[i + d] + 1 .. noted :
                Unread(n) \/ \E j \in (i + d) + 1 .. Len(queue) : queue[j] = n
      BY <1>7, <3>1 DEF OrderInv, NewestKept
    <3>3. \A j \in 1 .. i - 1 : q[j] < q[i]
      <4>1. ASSUME NEW j \in 1 .. i - 1
            PROVE  q[j] < q[i]
        <5>1. j \in 1 .. Len(q) /\ j # Len(q) /\ j + d \in 1 .. (i + d) - 1
          BY <1>1, <1>3, <3>1
        <5>2. q[j] = queue[j + d]
          BY <1>5, <5>1
        <5>. QED
          BY <3>1, <3>2, <5>1, <5>2
      <4>. QED
        BY <4>1
    <3>4. ASSUME NEW n \in q[i] + 1 .. noted, ~Unread(n)'
          PROVE  \E j \in i + 1 .. Len(q) : q[j] = n
      <4>1. q[i] \in Nat /\ n \in 1 .. noted /\ n \in queue[i + d] + 1 .. noted
        BY <1>4, <3>1
      <4>2. CASE Unread(n)
        <5>1. n = x
          BY <3>4, <4>1, <4>2
        <5>2. Len(q) \in i + 1 .. Len(q)
          BY <1>1, <3>1
        <5>. QED
          BY <1>1, <5>1, <5>2
      <4>3. CASE ~Unread(n)
        <5>1. PICK k \in (i + d) + 1 .. Len(queue) : queue[k] = n
          BY <3>2, <4>1, <4>3
        <5>2. /\ k - d \in i + 1 .. Len(q) /\ k - d \in 1 .. Len(q) - 1
              /\ (k - d) + d = k
          BY SMTT(30), <1>1, <1>3, <1>4, <3>1
        <5>3. q[k - d] = queue[(k - d) + d]
          BY <1>3, <5>2
        <5>. QED
          BY <5>1, <5>2, <5>3
      <4>. QED
        BY <4>2, <4>3
    <3>. QED
      BY <3>1, <3>2, <3>3, <3>4
  <2>. QED
    BY <2>1, <2>2
<1>8. NewestKept'
  BY <1>2, <1>7 DEF NewestKept
<1>. QED
  BY <1>6, <1>8

(* So each entry of the queue is the new one or was there before.          *)
LEMMA PutElements ==
    ASSUME TypeOK, NEW x \in 0 .. MaxNotes
    PROVE  \A j \in 1 .. Len(Put(x)) :
              Put(x)[j] = x \/ \E k \in 1 .. Len(queue) : Put(x)[j] = queue[k]
<1>. DEFINE q == Put(x)
<1>1. /\ Len(q) \in Nat \ {0} /\ q[Len(q)] = x /\ Len(queue) \in Nat
      /\ \E d \in {0, 1} : /\ Len(q) = Len(queue) + 1 - d
                           /\ \A i \in 1 .. Len(q) - 1 : q[i] = queue[i + d]
  <2>1. Len(q) \in 1 .. QueueSize /\ QueueSize \in Nat /\ Len(queue) \in Nat
    BY PutProperties, RpcAssumption, LenProperties DEF TypeOK
  <2>. QED
    BY <2>1, PutProperties
<1>. SUFFICES ASSUME NEW j \in 1 .. Len(q), j # Len(q)
              PROVE  \E k \in 1 .. Len(queue) : q[j] = queue[k]
  BY <1>1
<1>. HIDE DEF q
<1>2. PICK d \in {0, 1} : /\ Len(q) = Len(queue) + 1 - d
                          /\ \A i \in 1 .. Len(q) - 1 : q[i] = queue[i + d]
  BY <1>1
<1>3. j \in 1 .. Len(q) - 1 /\ j + d \in 1 .. Len(queue)
  BY <1>1, <1>2
<1>. QED
  BY <1>2, <1>3

(* When the reader takes a frame, the rest of the pipe is as it was, and   *)
(* what the queue has got by it is not ahead of the pipe.                  *)
LEMMA PipeTail ==
    ASSUME TypeOK, OrderInv, stdout # <<>>, stdout' = Tail(stdout),
           UNCHANGED <<noted, heard>>,
           \A j \in 1 .. Len(queue') :
              \/ queue'[j] = 0
              \/ \E k \in 1 .. Len(queue) : queue'[j] = queue[k]
              \/ stdout[1].kind = "note" /\ queue'[j] = stdout[1].of
    PROVE  /\ PipeInOrder'
           /\ \A n \in 1 .. noted :
                 Unread(n) => Unread(n)' \/ stdout[1] = Frame("note", n)
<1>. DEFINE p == Tail(stdout)
<1>1. /\ Len(stdout) \in Nat \ {0} /\ Len(p) = Len(stdout) - 1
      /\ \A i \in 1 .. Len(p) : p[i] = stdout[i + 1]
  BY HeadTailProperties, LenProperties, EmptySeq DEF TypeOK
<1>2. stdout' = p
  OBVIOUS
<1>. HIDE DEF p
<1>3. /\ Len(queue) \in Nat /\ noted \in Nat /\ heard \in Nat
      /\ \A i \in 1 .. Len(stdout) :
            stdout[i].kind = "note" => stdout[i].of \in Nat \ {0}
  BY PipeNotes DEF OrderInv
<1>4. ASSUME NEW n \in 1 .. noted, Unread(n), stdout[1] # Frame("note", n)
      PROVE  Unread(n)'
  <2>1. PICK i \in 1 .. Len(stdout) : stdout[i] = Frame("note", n)
    BY <1>4 DEF Unread
  <2>2. i - 1 \in 1 .. Len(p) /\ (i - 1) + 1 = i
    BY <1>1, <1>4, <2>1
  <2>3. p[i - 1] = stdout[(i - 1) + 1]
    BY <1>1, <2>2
  <2>. QED
    BY <1>2, <2>1, <2>2, <2>3 DEF Unread
<1>5. ASSUME NEW i \in 1 .. Len(p), p[i].kind = "note"
      PROVE  /\ p[i].of <= noted
             /\ \A j \in 1 .. i - 1 : p[j].kind = "note" => p[j].of < p[i].of
             /\ \A n \in p[i].of + 1 .. noted :
                   \E j \in i + 1 .. Len(p) : p[j] = Frame("note", n)
             /\ heard < p[i].of
             /\ \A j \in 1 .. Len(queue') : queue'[j] < p[i].of
  <2>. DEFINE f == stdout[i + 1]
  <2>1. p[i] = f /\ i + 1 \in 1 .. Len(stdout) /\ f.of \in Nat \ {0}
    <3>1. i + 1 \in 1 .. Len(stdout) /\ p[i] = stdout[i + 1]
      BY <1>1
    <3>. QED
      BY <1>3, <1>5, <3>1
  <2>2. /\ f.of <= noted
        /\ \A j \in 1 .. (i + 1) - 1 : stdout[j].kind = "note" => stdout[j].of < f.of
        /\ \A n \in f.of + 1 .. noted :
              \E j \in (i + 1) + 1 .. Len(stdout) : stdout[j] = Frame("note", n)
        /\ heard < f.of
        /\ \A j \in 1 .. Len(queue) : queue[j] < f.of
    BY <1>5, <2>1 DEF OrderInv, PipeInOrder, IsNote
  <2>. HIDE DEF f
  <2>3. ASSUME NEW j \in 1 .. i - 1, p[j].kind = "note"
        PROVE  p[j].of < f.of
    <3>1. j \in 1 .. Len(p) /\ j + 1 \in 1 .. (i + 1) - 1
      BY <1>1
    <3>2. p[j] = stdout[j + 1]
      BY <1>1, <3>1
    <3>. QED
      BY <2>2, <2>3, <3>1, <3>2
  <2>4. ASSUME NEW n \in f.of + 1 .. noted
        PROVE  \E j \in i + 1 .. Len(p) : p[j] = Frame("note", n)
    <3>1. PICK k \in (i + 1) + 1 .. Len(stdout) : stdout[k] = Frame("note", n)
      BY <2>2
    <3>2. /\ k - 1 \in i + 1 .. Len(p) /\ k - 1 \in 1 .. Len(p)
          /\ (k - 1) + 1 = k
      BY <1>1, <3>1
    <3>3. p[k - 1] = stdout[(k - 1) + 1]
      BY <1>1, <3>2
    <3>. QED
      BY <3>1, <3>2, <3>3
  <2>5. ASSUME NEW j \in 1 .. Len(queue')
        PROVE  queue'[j] < f.of
    <3>1. 1 \in 1 .. (i + 1) - 1 /\ 0 < f.of
      BY <2>1
    <3>2. stdout[1].kind = "note" => stdout[1].of < f.of
      BY <2>2, <3>1
    <3>. QED
      BY <2>2, <3>1, <3>2
  <2>. QED
    BY <2>1, <2>2, <2>3, <2>4, <2>5
<1>6. PipeInOrder'
  BY ZenonT(30), <1>2, <1>5 DEF PipeInOrder, IsNote
<1>. QED
  BY <1>4, <1>6

(* What goes into the queue besides, the mark, is no notification.         *)
LEMMA WakeOrder ==
    ASSUME TypeOK, OrderInv, queue' = Wake, UNCHANGED <<stdout, noted, heard>>
    PROVE  OrderInv'
<1>1. 0 \in 0 .. MaxNotes /\ queue' = Put(0) /\ Closed = 0
  BY RpcAssumption DEF Wake, Closed
<1>2. NewestKept' /\ QueueBounded'
  <2>1. \A n \in 1 .. noted : Unread(n) => Unread(n)'
    BY DEF Unread
  <2>. QED
    BY <1>1, <2>1, PutOrder
<1>3. \A j \in 1 .. Len(queue') :
         queue'[j] = 0 \/ \E k \in 1 .. Len(queue) : queue'[j] = queue[k]
  BY <1>1, PutElements
<1>4. /\ noted \in Nat /\ heard \in Nat
      /\ \A i \in 1 .. Len(stdout) :
            stdout[i].kind = "note" => stdout[i].of \in Nat \ {0}
  BY PipeNotes DEF OrderInv
<1>5. ASSUME NEW i \in 1 .. Len(stdout), stdout[i].kind = "note",
             NEW j \in 1 .. Len(queue')
      PROVE  queue'[j] < stdout[i].of
  <2>1. \A k \in 1 .. Len(queue) : queue[k] < stdout[i].of
    BY <1>5 DEF OrderInv, PipeInOrder, IsNote
  <2>2. 0 < stdout[i].of
    BY <1>4, <1>5
  <2>. QED
    BY <1>3, <2>1, <2>2
<1>6. PipeInOrder'
  BY <1>5 DEF OrderInv, PipeInOrder, IsNote
<1>. QED
  BY <1>2, <1>6 DEF OrderInv

(* Any frame but a notification is no news to the queue.                   *)
LEMMA PipeAppend ==
    ASSUME TypeOK, OrderInv, NEW f \in Frames, f.kind # "note",
           stdout' = Append(stdout, f), UNCHANGED <<queue, noted, heard>>
    PROVE  OrderInv'
<1>. DEFINE p == Append(stdout, f)
<1>1. /\ Len(stdout) \in Nat /\ Len(p) = Len(stdout) + 1 /\ p[Len(stdout) + 1] = f
      /\ \A i \in 1 .. Len(stdout) : p[i] = stdout[i]
  BY AppendProperties, LenProperties DEF TypeOK
<1>2. stdout' = p
  OBVIOUS
<1>. HIDE DEF p
<1>3. \A n \in 1 .. noted : Unread(n) => Unread(n)'
  BY <1>1, <1>2 DEF Unread
<1>4. NewestKept'
  <2>1. /\ \A i \in 1 .. Len(queue) : queue[i] \in Nat
        /\ noted \in Nat
    BY PipeNotes DEF OrderInv
  <2>2. ASSUME NEW i \in 1 .. Len(queue), NEW n \in queue[i] + 1 .. noted
        PROVE  n \in 1 .. noted
    BY <2>1
  <2>. QED
    BY <1>3, <2>2 DEF OrderInv, NewestKept
<1>5. PipeInOrder'
  <2>1. ASSUME NEW i \in 1 .. Len(p), p[i].kind = "note"
        PROVE  /\ p[i].of <= noted
               /\ \A j \in 1 .. i - 1 : p[j].kind = "note" => p[j].of < p[i].of
               /\ \A n \in p[i].of + 1 .. noted :
                     \E j \in i + 1 .. Len(p) : p[j] = Frame("note", n)
               /\ heard < p[i].of
               /\ \A j \in 1 .. Len(queue) : queue[j] < p[i].of
    <3>1. i \in 1 .. Len(stdout) /\ p[i] = stdout[i]
      BY <1>1, <2>1
    <3>2. /\ stdout[i].of <= noted
          /\ \A j \in 1 .. i - 1 :
                stdout[j].kind = "note" => stdout[j].of < stdout[i].of
          /\ \A n \in stdout[i].of + 1 .. noted :
                \E j \in i + 1 .. Len(stdout) : stdout[j] = Frame("note", n)
          /\ heard < stdout[i].of
          /\ \A j \in 1 .. Len(queue) : queue[j] < stdout[i].of
      BY <2>1, <3>1 DEF OrderInv, PipeInOrder, IsNote
    <3>3. \A j \in 1 .. i - 1 : j \in 1 .. Len(stdout) /\ p[j] = stdout[j]
      BY <1>1, <3>1
    <3>4. \A j \in i + 1 .. Len(stdout) : j \in i + 1 .. Len(p) /\ p[j] = stdout[j]
      BY <1>1, <3>1
    <3>. QED
      BY <3>1, <3>2, <3>3, <3>4
  <2>. QED
    BY <1>2, <2>1 DEF PipeInOrder, IsNote
<1>. QED
  BY <1>4, <1>5 DEF OrderInv, QueueBounded

LEMMA OrderFrame ==
    ASSUME OrderInv, UNCHANGED <<stdout, queue, noted, heard>>
    PROVE  OrderInv'
BY DEF OrderInv, NewestKept, PipeInOrder, QueueBounded, Unread, IsNote

(* Codex sends a notification: the last one, behind all others.            *)
LEMMA Notified ==
    ASSUME TypeOK, OrderInv, ChildNotifies
    PROVE  OrderInv'
<1>. DEFINE f == Frame("note", noted + 1)
            p == Append(stdout, f)
<1>1. /\ stdout' = p /\ noted' = noted + 1 /\ noted + 1 \in 1 .. MaxNotes
      /\ UNCHANGED <<queue, heard>>
  BY RpcAssumption DEF TypeOK, ChildNotifies, stream
<1>2. f \in Frames /\ f.of = noted + 1
  BY <1>1 DEF Frame, Frames
<1>3. /\ Len(stdout) \in Nat /\ Len(p) = Len(stdout) + 1 /\ p[Len(stdout) + 1] = f
      /\ \A i \in 1 .. Len(stdout) : p[i] = stdout[i]
  BY <1>2, AppendProperties, LenProperties DEF TypeOK
<1>4. /\ Len(queue) \in Nat /\ noted \in Nat /\ heard \in Nat
      /\ \A i \in 1 .. Len(queue) : queue[i] \in Nat
      /\ \A i \in 1 .. Len(stdout) :
            stdout[i].kind = "note" => stdout[i].of \in Nat \ {0}
  BY PipeNotes DEF OrderInv
<1>5. \E j \in 1 .. Len(p) : p[j] = Frame("note", noted + 1)
  BY <1>3
<1>. HIDE DEF p, f
<1>6. \A n \in 1 .. noted : Unread(n) => Unread(n)'
  BY <1>1, <1>3 DEF Unread
<1>7. \A n \in 1 .. noted + 1 : n = noted + 1 => Unread(n)'
  BY <1>1, <1>5 DEF Unread
<1>8. NewestKept'
  <2>1. ASSUME NEW i \in 1 .. Len(queue), queue[i] # Closed,
               NEW n \in queue[i] + 1 .. noted + 1
        PROVE  Unread(n)' \/ \E j \in i + 1 .. Len(queue) : queue[j] = n
    <3>1. n \in 1 .. noted + 1 /\ (n # noted + 1 => n \in queue[i] + 1 .. noted)
      BY <1>4
    <3>2. CASE n = noted + 1
      BY <1>7, <3>1, <3>2
    <3>3. CASE n # noted + 1
      <4>1. n \in 1 .. noted
        BY <1>4, <3>1, <3>3
      <4>2. Unread(n) \/ \E j \in i + 1 .. Len(queue) : queue[j] = n
        BY <2>1, <3>1, <3>3 DEF OrderInv, NewestKept
      <4>. QED
        BY <1>6, <4>1, <4>2
    <3>. QED
      BY <3>2, <3>3
  <2>. QED
    BY <1>1, <2>1 DEF OrderInv, NewestKept
<1>9. PipeInOrder'
  <2>1. ASSUME NEW i \in 1 .. Len(p), p[i].kind = "note"
        PROVE  /\ p[i].of <= noted + 1
               /\ \A j \in 1 .. i - 1 : p[j].kind = "note" => p[j].of < p[i].of
               /\ \A n \in p[i].of + 1 .. noted + 1 :
                     \E j \in i + 1 .. Len(p) : p[j] = Frame("note", n)
               /\ heard < p[i].of
               /\ \A j \in 1 .. Len(queue) : queue[j] < p[i].of
    <3>0. \A j \in 1 .. Len(stdout) : p[j].kind = "note" => p[j].of <= noted
      BY <1>3 DEF OrderInv, PipeInOrder, IsNote
    <3>1. CASE i = Len(stdout) + 1
      <4>1. p[i].of = noted + 1
        BY <1>2, <1>3, <3>1
      <4>2. \A j \in 1 .. i - 1 : p[j].kind = "note" => p[j].of < noted + 1
        <5>1. ASSUME NEW j \in 1 .. i - 1, p[j].kind = "note"
              PROVE  p[j].of < noted + 1
          <6>1. j \in 1 .. Len(stdout)
            BY <1>3, <3>1
          <6>2. p[j].of \in Nat /\ p[j].of <= noted
            BY <1>3, <1>4, <3>0, <5>1, <6>1
          <6>. QED
            BY <1>4, <6>2
        <5>. QED
          BY <5>1
      <4>3. heard < noted + 1 /\ \A j \in 1 .. Len(queue) : queue[j] < noted + 1
        BY <1>4 DEF OrderInv, QueueBounded
      <4>. QED
        BY <1>4, <4>1, <4>2, <4>3
    <3>2. CASE i # Len(stdout) + 1
      <4>1. i \in 1 .. Len(stdout) /\ p[i] = stdout[i]
        BY <1>3, <3>2
      <4>2. /\ stdout[i].of <= noted
            /\ \A j \in 1 .. i - 1 :
                  stdout[j].kind = "note" => stdout[j].of < stdout[i].of
            /\ \A n \in stdout[i].of + 1 .. noted :
                  \E j \in i + 1 .. Len(stdout) : stdout[j] = Frame("note", n)
            /\ heard < stdout[i].of
            /\ \A j \in 1 .. Len(queue) : queue[j] < stdout[i].of
        BY <2>1, <4>1 DEF OrderInv, PipeInOrder, IsNote
      <4>3. \A j \in 1 .. i - 1 : j \in 1 .. Len(stdout) /\ p[j] = stdout[j]
        BY <1>3, <4>1
      <4>4. ASSUME NEW n \in stdout[i].of + 1 .. noted + 1
            PROVE  \E j \in i + 1 .. Len(p) : p[j] = Frame("note", n)
        <5>1. CASE n = noted + 1
          <6>1. Len(stdout) + 1 \in i + 1 .. Len(p)
            BY <1>3, <4>1
          <6>. QED
            BY <1>3, <5>1, <6>1 DEF f
        <5>2. CASE n # noted + 1
          <6>1. n \in stdout[i].of + 1 .. noted
            BY <1>4, <2>1, <4>1, <5>2
          <6>2. PICK j \in i + 1 .. Len(stdout) : stdout[j] = Frame("note", n)
            BY <4>2, <6>1
          <6>3. j \in i + 1 .. Len(p) /\ j \in 1 .. Len(stdout)
            BY <1>3, <4>1
          <6>. QED
            BY <1>3, <6>2, <6>3
        <5>. QED
          BY <5>1, <5>2
      <4>5. stdout[i].of \in Nat
        BY <1>4, <2>1, <4>1
      <4>. QED
        BY <1>4, <4>1, <4>2, <4>3, <4>4, <4>5
    <3>. QED
      BY <3>1, <3>2
  <2>. QED
    BY <1>1, <2>1 DEF PipeInOrder, IsNote
<1>10. QueueBounded'
  BY <1>1, <1>4 DEF OrderInv, QueueBounded
<1>. QED
  BY <1>8, <1>9, <1>10 DEF OrderInv

LEMMA ReadOrder ==
    ASSUME TypeOK, OrderInv, ReadFrame
    PROVE  OrderInv'
<1>1. /\ stdout # <<>> /\ stdout' = Tail(stdout) /\ UNCHANGED <<noted, heard>>
      /\ Head(stdout) = stdout[1] /\ 1 \in 1 .. Len(stdout)
  BY HeadTailProperties, LenProperties, EmptySeq DEF TypeOK, ReadFrame, codex, stream
<1>2. 0 \in 0 .. MaxNotes /\ Wake = Put(0) /\ Closed = 0
  BY RpcAssumption DEF Wake, Closed
<1>3. CASE stdout[1].kind # "note" /\ queue' \in {queue, Wake}
  <2>1. \A j \in 1 .. Len(queue') :
           queue'[j] = 0 \/ \E k \in 1 .. Len(queue) : queue'[j] = queue[k]
    BY <1>2, <1>3, PutElements
  <2>2. PipeInOrder' /\ \A n \in 1 .. noted :
                           Unread(n) => Unread(n)' \/ stdout[1] = Frame("note", n)
    BY <1>1, <2>1, PipeTail
  <2>3. \A n \in 1 .. noted : Unread(n) => Unread(n)'
    <3>1. \A n \in 1 .. noted : stdout[1] # Frame("note", n)
      BY <1>3 DEF Frame
    <3>. QED
      BY <2>2, <3>1
  <2>4. CASE queue' = queue
    <3>1. \A i \in 1 .. Len(queue) :
             queue[i] \in Nat /\ \A n \in queue[i] + 1 .. noted : n \in 1 .. noted
      BY PipeNotes DEF OrderInv
    <3>. QED
      BY <1>1, <2>2, <2>3, <2>4, <3>1 DEF OrderInv, NewestKept, QueueBounded
  <2>5. CASE queue' = Wake
    BY <1>1, <1>2, <2>2, <2>3, <2>5, PutOrder DEF OrderInv
  <2>. QED
    BY <1>3, <2>4, <2>5
<1>4. CASE stdout[1].kind = "note" /\ queue' = Put(stdout[1].of)
  <2>. DEFINE x == stdout[1].of
  <2>1. /\ x \in 1 .. MaxNotes /\ x \in 0 .. MaxNotes /\ noted \in Nat
    BY <1>1, <1>4, NoteType, RpcAssumption DEF TypeOK
  <2>2. /\ x <= noted
        /\ \A n \in x + 1 .. noted :
              \E j \in 1 + 1 .. Len(stdout) : stdout[j] = Frame("note", n)
        /\ heard < x
        /\ \A j \in 1 .. Len(queue) : queue[j] < x
    BY <1>1, <1>4 DEF OrderInv, PipeInOrder, IsNote
  <2>3. \A j \in 1 .. Len(queue') :
           queue'[j] = x \/ \E k \in 1 .. Len(queue) : queue'[j] = queue[k]
    BY <1>4, <2>1, PutElements
  <2>4. PipeInOrder' /\ \A n \in 1 .. noted :
                           Unread(n) => Unread(n)' \/ stdout[1] = Frame("note", n)
    BY <1>1, <1>4, <2>3, PipeTail
  <2>5. \A n \in 1 .. noted : Unread(n) => Unread(n)' \/ n = x
    <3>1. \A n \in 1 .. noted : stdout[1] = Frame("note", n) => n = x
      BY DEF Frame
    <3>. QED
      BY <2>4, <3>1
  <2>6. \A n \in x + 1 .. noted : Unread(n)'
    <3>1. ASSUME NEW n \in x + 1 .. noted
          PROVE  Unread(n)'
      <4>1. n \in 1 .. noted /\ n # x
        BY <2>1
      <4>2. PICK j \in 1 + 1 .. Len(stdout) : stdout[j] = Frame("note", n)
        BY <2>2
      <4>3. j \in 1 .. Len(stdout)
        BY <1>1
      <4>4. Unread(n)
        BY <4>2, <4>3 DEF Unread
      <4>. QED
        BY <2>5, <4>1, <4>4
    <3>. QED
      BY <3>1
  <2>7. queue' = Put(x) /\ heard < x /\ x > heard
    <3>1. heard \in Nat
      BY RpcAssumption DEF TypeOK
    <3>. QED
      BY <1>4, <2>1, <2>2, <3>1
  <2>. HIDE DEF x
  <2>8. NewestKept' /\ QueueBounded'
    BY <1>1, <2>1, <2>2, <2>5, <2>6, <2>7, PutOrder
  <2>. QED
    BY <2>4, <2>8 DEF OrderInv
<1>. QED
  BY <1>1, <1>3, <1>4 DEF ReadFrame, Answers

LEMMA ConsumeOrder ==
    ASSUME TypeOK, StreamInv, OrderInv, Consume
    PROVE  OrderInv'
<1>. DEFINE rest == Tail(queue)
<1>1. /\ queue' = rest /\ queue # <<>> /\ UNCHANGED <<stdout, noted>>
      /\ heard' = IF Head(queue) = Closed THEN heard ELSE Head(queue)
  BY DEF Consume, codex
<1>2. /\ Len(queue) \in Nat \ {0} /\ Len(rest) = Len(queue) - 1
      /\ \A i \in 1 .. Len(rest) : rest[i] = queue[i + 1]
      /\ Head(queue) = queue[1] /\ 1 \in 1 .. Len(queue)
  BY <1>1, HeadTailProperties, LenProperties, EmptySeq DEF TypeOK
<1>. HIDE DEF rest
<1>3. /\ noted \in Nat /\ heard \in Nat /\ Closed = 0
      /\ \A i \in 1 .. Len(queue) : queue[i] \in Nat
  BY PipeNotes DEF OrderInv, Closed
<1>4. ASSUME NEW i \in 1 .. Len(rest)
      PROVE  rest[i] = queue[i + 1] /\ i + 1 \in 1 .. Len(queue)
  BY <1>2
<1>5. NewestKept'
  <2>1. ASSUME NEW i \in 1 .. Len(rest), rest[i] # Closed
        PROVE  /\ rest[i] > heard'
               /\ \A j \in 1 .. i - 1 : rest[j] < rest[i]
               /\ \A n \in rest[i] + 1 .. noted :
                     Unread(n) \/ \E j \in i + 1 .. Len(rest) : rest[j] = n
    <3>1. /\ queue[i + 1] > heard
          /\ \A j \in 1 .. (i + 1) - 1 : queue[j] < queue[i + 1]
          /\ \A n \in queue[i + 1] + 1 .. noted :
                Unread(n) \/ \E j \in (i + 1) + 1 .. Len(queue) : queue[j] = n
      BY <1>4, <2>1 DEF OrderInv, NewestKept
    <3>2. rest[i] > heard'
      <4>1. 1 \in 1 .. (i + 1) - 1
        BY <1>2
      <4>2. queue[1] < queue[i + 1] /\ queue[1] \in Nat /\ queue[i + 1] \in Nat
        BY <1>2, <1>3, <1>4, <3>1, <4>1
      <4>. QED
        BY <1>1, <1>2, <1>4, <3>1, <4>2
    <3>3. ASSUME NEW j \in 1 .. i - 1
          PROVE  rest[j] < rest[i]
      <4>1. j \in 1 .. Len(rest) /\ j + 1 \in 1 .. (i + 1) - 1
        BY <1>2
      <4>. QED
        BY <1>4, <3>1, <4>1
    <3>4. ASSUME NEW n \in rest[i] + 1 .. noted, ~Unread(n)
          PROVE  \E j \in i + 1 .. Len(rest) : rest[j] = n
      <4>1. n \in queue[i + 1] + 1 .. noted
        BY <1>4
      <4>2. PICK k \in (i + 1) + 1 .. Len(queue) : queue[k] = n
        BY <3>1, <3>4, <4>1
      <4>3. /\ k - 1 \in i + 1 .. Len(rest) /\ k - 1 \in 1 .. Len(rest)
            /\ (k - 1) + 1 = k
        BY <1>2, <4>2
      <4>4. rest[k - 1] = queue[(k - 1) + 1]
        BY <1>4, <4>3
      <4>. QED
        BY <4>2, <4>3, <4>4
    <3>. QED
      BY <3>2, <3>3, <3>4
  <2>2. \A n \in Nat : Unread(n) => Unread(n)'
    BY <1>1 DEF Unread
  <2>3. \A i \in 1 .. Len(rest) : rest[i] \in Nat
    BY <1>3, <1>4
  <2>4. \A i \in 1 .. Len(rest) : \A n \in rest[i] + 1 .. noted : n \in Nat
    BY <1>3, <2>3
  <2>. QED
    BY <1>1, <2>1, <2>2, <2>4 DEF NewestKept
<1>6. PipeInOrder'
  <2>1. \A i \in 1 .. Len(stdout) : IsNote(i) =>
           /\ heard < stdout[i].of
           /\ \A j \in 1 .. Len(queue) : queue[j] < stdout[i].of
    BY DEF OrderInv, PipeInOrder
  <2>2. \A i \in 1 .. Len(stdout) : IsNote(i) =>
           /\ heard' < stdout[i].of
           /\ \A j \in 1 .. Len(rest) : rest[j] < stdout[i].of
    BY <1>1, <1>2, <1>4, <2>1
  <2>. QED
    BY <1>1, <2>2 DEF OrderInv, PipeInOrder, IsNote
<1>7. QueueBounded'
  BY <1>1, <1>2, <1>4 DEF OrderInv, QueueBounded
<1>. QED
  BY <1>5, <1>6, <1>7 DEF OrderInv

LEMMA OrderStep ==
    ASSUME TypeOK, StreamInv, OrderInv, [Next]_vars
    PROVE  OrderInv'
<1>. USE DEF calls, codex, ends, stream
<1>1. ASSUME NEW r \in Requests, Issue(r) \/ Cancel(r) \/ RequestStep(r)
      PROVE  OrderInv'
  BY <1>1, OrderFrame DEF Issue, Cancel, RequestStep, Write, Drained, Return, TimeOut
<1>2. ASSUME NEW r \in Requests, NEW k \in Answers, ChildAnswers(r, k)
      PROVE  OrderInv'
  <2>1. Frame(k, r) \in Frames /\ Frame(k, r).kind # "note"
    BY DEF Frame, Frames, Answers
  <2>2. stdout' = Append(stdout, Frame(k, r)) /\ UNCHANGED <<queue, noted, heard>>
    BY <1>2 DEF ChildAnswers
  <2>. QED
    BY <2>1, <2>2, PipeAppend
<1>3. CASE ChildGarbles
  <2>1. Frame("bad", 0) \in Frames /\ Frame("bad", 0).kind # "note"
    BY DEF Frame, Frames
  <2>2. stdout' = Append(stdout, Frame("bad", 0)) /\ UNCHANGED <<queue, noted, heard>>
    BY <1>3 DEF ChildGarbles
  <2>. QED
    BY <2>1, <2>2, PipeAppend
<1>4. CASE ChildNotifies
  BY <1>4, Notified
<1>5. CASE ChildReads \/ ChildExits \/ Spawned \/ Leave \/ UNCHANGED vars
  BY <1>5, OrderFrame DEF ChildReads, ChildExits, Spawned, Leave, vars
<1>6. CASE ReadFrame
  BY <1>6, ReadOrder
<1>7. CASE ReadEof \/ ReaderStops
  BY <1>7, WakeOrder DEF ReadEof, ReaderStops
<1>8. CASE Consume
  BY <1>8, ConsumeOrder
<1>9. ASSUME NEW c \in Closers, CloseStart(c)
      PROVE  OrderInv'
  BY <1>9, WakeOrder, OrderFrame DEF CloseStart, Finally
<1>10. ASSUME NEW c \in Closers, CloseReaped(c) \/ CloseHurried(c)
       PROVE  OrderInv'
  BY <1>10, WakeOrder DEF CloseReaped, CloseHurried, Finally
<1>11. ASSUME NEW c \in Closers, CloseKill(c) \/ CloseDone(c) \/ CloseCut(c)
       PROVE  OrderInv'
  BY <1>11, OrderFrame DEF CloseKill, CloseDone, CloseCut
<1>. QED
  BY <1>1, <1>2, <1>3, <1>4, <1>5, <1>6, <1>7, <1>8, <1>9, <1>10, <1>11
  DEF Next, ReaderStep, CloserStep
-----------------------------------------------------------------------------
LEMMA AppendElements ==
    ASSUME NEW S, NEW s \in Seq(S), NEW x \in S
    PROVE  \A i \in 1 .. Len(Append(s, x)) :
              \/ Append(s, x)[i] = x
              \/ i \in 1 .. Len(s) /\ Append(s, x)[i] = s[i]
<1>. DEFINE p == Append(s, x)
            top == Len(s) + 1
<1>1. /\ Len(s) \in Nat /\ Len(p) = top /\ p[top] = x
      /\ \A i \in 1 .. Len(s) : p[i] = s[i]
  BY AppendProperties, LenProperties
<1>. HIDE DEF p, top
<1>2. ASSUME NEW i \in 1 .. Len(p)
      PROVE  p[i] = x \/ (i \in 1 .. Len(s) /\ p[i] = s[i])
  <2>1. CASE i = top
    BY <1>1, <2>1
  <2>2. CASE i # top
    <3>1. i \in 1 .. Len(s)
      BY <1>1, <2>2 DEF top
    <3>. QED
      BY <1>1, <3>1
  <2>. QED
    BY <2>1, <2>2
<1>. QED
  BY <1>2 DEF p

(* What a caller is handed stays an answer of Codex as long as nothing but *)
(* answers of Codex is added to the pipe and to the futures.               *)
LEMMA AnswerFrame ==
    ASSUME AnswerInv, UNCHANGED <<stdin, taken, stdout>>, said \subseteq said',
           \A r \in Requests : request'[r] = "new" => request[r] = "new",
           \A r \in Requests :
              future'[r] \in Answers => future'[r] = future[r],
           spawned' = "initialize" => spawned = "initialize" /\ consumer' = consumer
    PROVE  AnswerInv'
BY DEF AnswerInv, Asked, Given, NoConsumerYet

LEMMA FailedFutures ==
    \A r \in Requests : FailPending[r] \in Answers => FailPending[r] = future[r]
BY DEF FailPending, Answers

(* A request that is handed to Codex is a new one no more.                 *)
LEMMA SubmitAsked ==
    ASSUME TypeOK, AnswerInv, NEW r \in Requests, Submit(r),
           UNCHANGED <<taken, said, stdout, spawned, consumer>>
    PROVE  AnswerInv'
<1>1. /\ request'[r] # "new"
      /\ \A q \in Requests \ {r} : request'[q] = request[q]
  BY SubmitFutures
<1>2. \A q \in Requests : future'[q] \in Answers => future'[q] = future[q]
  BY DEF TypeOK, Submit, Answers
<1>3. CASE stdin' = stdin
  BY <1>1, <1>2, <1>3, AnswerFrame
<1>4. CASE stdin' = Append(stdin, r)
  <2>. DEFINE p == Append(stdin, r)
  <2>1. stdin \in Seq(Requests \cup {Closed}) /\ r \in Requests \cup {Closed}
    BY DEF TypeOK
  <2>2. \A i \in 1 .. Len(p) : p[i] = r \/ (i \in 1 .. Len(stdin) /\ p[i] = stdin[i])
    BY <2>1, AppendElements
  <2>. HIDE DEF p
  <2>3. Asked'
    <3>1. ASSUME NEW q \in Requests, request'[q] = "new"
          PROVE  q \notin taken /\ \A i \in 1 .. Len(p) : p[i] # q
      BY <1>1, <2>2, <3>1 DEF AnswerInv, Asked
    <3>2. stdin' = p
      BY <1>4 DEF p
    <3>. QED
      BY <3>1, <3>2 DEF Asked
  <2>4. Given' /\ NoConsumerYet'
    BY <1>2 DEF AnswerInv, Given, NoConsumerYet
  <2>. QED
    BY <2>3, <2>4 DEF AnswerInv
<1>. QED
  BY <1>3, <1>4 DEF Submit

LEMMA AnswerStep ==
    ASSUME TypeOK, AnswerInv, [Next]_vars
    PROVE  AnswerInv'
<1>. USE DEF calls, codex, ends, stream
<1>1. ASSUME NEW r \in Requests, Issue(r) \/ Write(r)
      PROVE  AnswerInv'
  <2>1. UNCHANGED <<taken, said, stdout, spawned, consumer>>
    BY <1>1 DEF Issue, Write
  <2>2. CASE Submit(r)
    BY <2>1, <2>2, SubmitAsked
  <2>3. CASE \/ /\ request' = [request EXCEPT ![r] = "failed"]
                /\ UNCHANGED <<future, stdin>>
             \/ /\ request' = [request EXCEPT ![r] = "queue"]
                /\ future' = [future EXCEPT ![r] = "open"]
                /\ UNCHANGED stdin
    BY <2>1, <2>3, AnswerFrame DEF TypeOK, Answers
  <2>. QED
    BY <1>1, <2>2, <2>3 DEF Issue, Write
<1>2. ASSUME NEW r \in Requests, Drained(r) \/ Return(r) \/ TimeOut(r) \/ Cancel(r)
      PROVE  AnswerInv'
  <2>1. UNCHANGED <<stdin, taken, said, stdout, spawned, consumer>>
    BY <1>2 DEF Drained, Return, TimeOut, Cancel
  <2>2. /\ request'[r] # "new" /\ future'[r] \in {future[r], "dropped"}
        /\ \A q \in Requests \ {r} :
              request'[q] = request[q] /\ future'[q] = future[q]
    BY <1>2 DEF TypeOK, Drained, Return, TimeOut, Cancel, Answers
  <2>. QED
    BY <2>1, <2>2, AnswerFrame DEF Answers
<1>3. CASE ReadFrame
  <2>1. /\ UNCHANGED <<request, stdin, taken, said, spawned, consumer>>
        /\ stdout # <<>> /\ stdout' = Tail(stdout)
    BY <1>3 DEF ReadFrame
  <2>. DEFINE p == Tail(stdout)
  <2>2. /\ Len(stdout) \in Nat \ {0} /\ Len(p) = Len(stdout) - 1
        /\ \A i \in 1 .. Len(p) : p[i] = stdout[i + 1]
        /\ Head(stdout) = stdout[1] /\ 1 \in 1 .. Len(stdout)
    BY <2>1, HeadTailProperties, LenProperties, EmptySeq DEF TypeOK
  <2>. HIDE DEF p
  <2>3. ASSUME NEW i \in 1 .. Len(p), p[i].kind \in Answers
        PROVE  <<p[i].of, p[i].kind>> \in said
    <3>1. i + 1 \in 1 .. Len(stdout) /\ p[i] = stdout[i + 1]
      BY <2>2
    <3>. QED
      BY <2>3, <3>1 DEF AnswerInv, Given
  <2>4. ASSUME NEW r \in Requests, future'[r] \in Answers
        PROVE  <<r, future'[r]>> \in said
    <3>1. CASE future'[r] = future[r]
      BY <2>4, <3>1 DEF AnswerInv, Given
    <3>2. CASE /\ Head(stdout).kind \in Answers
               /\ r = Head(stdout).of /\ future'[r] = Head(stdout).kind
      BY <2>2, <3>2 DEF AnswerInv, Given
    <3>3. \/ future' = future \/ future' = FailPending
          \/ Head(stdout).kind \in Answers /\ future' = Settle(Head(stdout))
      BY <1>3 DEF ReadFrame
    <3>. QED
      BY <2>4, <3>1, <3>2, <3>3, FailedFutures DEF Settle
  <2>5. stdout' = p
    BY <2>1 DEF p
  <2>6. Given'
    BY <2>1, <2>3, <2>4, <2>5 DEF Given
  <2>. QED
    BY <2>1, <2>6 DEF AnswerInv, Asked, NoConsumerYet
<1>4. CASE ReadEof \/ ReaderStops
  BY <1>4, AnswerFrame, FailedFutures DEF ReadEof, AtEof, ReaderStops
<1>5. CASE ChildReads
  <2>1. /\ UNCHANGED <<request, future, said, stdout, spawned, consumer>>
        /\ stdin # <<>> /\ stdin' = Tail(stdin)
        /\ taken' = taken \cup ({Head(stdin)} \cap Requests)
    BY <1>5 DEF ChildReads
  <2>. DEFINE p == Tail(stdin)
  <2>2. /\ Len(stdin) \in Nat \ {0} /\ Len(p) = Len(stdin) - 1
        /\ \A i \in 1 .. Len(p) : p[i] = stdin[i + 1]
        /\ Head(stdin) = stdin[1] /\ 1 \in 1 .. Len(stdin)
    BY <2>1, HeadTailProperties, LenProperties, EmptySeq DEF TypeOK
  <2>. HIDE DEF p
  <2>3. \A i \in 1 .. Len(p) : i + 1 \in 1 .. Len(stdin) /\ p[i] = stdin[i + 1]
    BY <2>2
  <2>4. ASSUME NEW r \in Requests, request[r] = "new"
        PROVE  r \notin taken' /\ \A i \in 1 .. Len(p) : p[i] # r
    <3>1. r \notin taken /\ \A i \in 1 .. Len(stdin) : stdin[i] # r
      BY <2>4 DEF AnswerInv, Asked
    <3>2. Head(stdin) # r
      BY <2>2, <3>1
    <3>. QED
      BY <2>1, <2>3, <3>1, <3>2
  <2>5. stdin' = p
    BY <2>1 DEF p
  <2>6. Asked'
    BY <2>1, <2>4, <2>5 DEF Asked
  <2>. QED
    BY <2>1, <2>6 DEF AnswerInv, Given, NoConsumerYet
<1>6. ASSUME NEW r \in Requests, NEW k \in Answers, ChildAnswers(r, k)
      PROVE  AnswerInv'
  <2>. DEFINE f == Frame(k, r)
              p == Append(stdout, f)
  <2>1. /\ UNCHANGED <<request, future, stdin, spawned, consumer>>
        /\ taken' = taken \ {r} /\ said' = said \cup {<<r, k>>} /\ stdout' = p
    BY <1>6 DEF ChildAnswers
  <2>2. f \in Frames /\ f.of = r /\ f.kind = k
    BY DEF Frame, Frames
  <2>3. stdout \in Seq(Frames)
    BY DEF TypeOK
  <2>4. \A i \in 1 .. Len(p) : p[i] = f \/ (i \in 1 .. Len(stdout) /\ p[i] = stdout[i])
    BY <2>2, <2>3, AppendElements
  <2>. HIDE DEF p, f
  <2>5. ASSUME NEW i \in 1 .. Len(p), p[i].kind \in Answers
        PROVE  <<p[i].of, p[i].kind>> \in said'
    BY <2>1, <2>2, <2>4, <2>5 DEF AnswerInv, Given
  <2>6. Given'
    BY <2>1, <2>5 DEF AnswerInv, Given
  <2>. QED
    BY <2>1, <2>6 DEF AnswerInv, Asked, NoConsumerYet
<1>7. CASE ChildNotifies \/ ChildGarbles
  <2>1. PICK n \in 0 .. MaxNotes, kind \in {"note", "bad"} :
           stdout' = Append(stdout, Frame(kind, n)) /\ Frame(kind, n) \in Frames
    <3>1. ChildNotifies => noted + 1 \in 1 .. MaxNotes
      BY RpcAssumption DEF TypeOK, ChildNotifies
    <3>2. 0 \in 0 .. MaxNotes /\ (\A n \in 1 .. MaxNotes : n \in 0 .. MaxNotes)
      BY RpcAssumption
    <3>. QED
      BY <1>7, <3>1, <3>2 DEF ChildNotifies, ChildGarbles, Frame, Frames
  <2>. DEFINE f == Frame(kind, n)
              p == Append(stdout, f)
  <2>2. f.kind \notin Answers
    BY DEF Frame, Answers
  <2>3. stdout' = p
    BY <2>1
  <2>4. stdout \in Seq(Frames)
    BY DEF TypeOK
  <2>5. \A i \in 1 .. Len(p) : p[i] = f \/ (i \in 1 .. Len(stdout) /\ p[i] = stdout[i])
    BY <2>1, <2>4, AppendElements
  <2>. HIDE DEF p, f
  <2>6. UNCHANGED <<request, future, stdin, taken, said, spawned, consumer>>
    BY <1>7 DEF ChildNotifies, ChildGarbles
  <2>7. ASSUME NEW i \in 1 .. Len(p), p[i].kind \in Answers
        PROVE  <<p[i].of, p[i].kind>> \in said
    BY <2>2, <2>5, <2>7 DEF AnswerInv, Given
  <2>8. Given'
    BY <2>3, <2>6, <2>7 DEF AnswerInv, Given
  <2>. QED
    BY <2>6, <2>8 DEF AnswerInv, Asked, NoConsumerYet
<1>8. CASE ChildExits
  <2>1. \A i \in 1 .. Len(stdin') : FALSE
    BY <1>8 DEF ChildExits
  <2>. QED
    BY <1>8, <2>1 DEF ChildExits, AnswerInv, Asked, Given, NoConsumerYet
<1>9. CASE Spawned
  <2>1. /\ UNCHANGED <<request, future, taken, said, stdout, consumer>>
        /\ spawned' # "initialize" /\ stdin' \in {stdin, Append(stdin, Closed)}
    BY <1>9 DEF Spawned
  <2>2. ASSUME NEW r \in Requests, request[r] = "new"
        PROVE  \A i \in 1 .. Len(stdin') : stdin'[i] # r
    <3>1. \A i \in 1 .. Len(stdin) : stdin[i] # r
      BY <2>2 DEF AnswerInv, Asked
    <3>2. r # Closed
      BY RpcAssumption DEF Requests, Closed
    <3>3. /\ Len(stdin) \in Nat
          /\ Len(Append(stdin, Closed)) = Len(stdin) + 1
          /\ Append(stdin, Closed)[Len(stdin) + 1] = Closed
          /\ \A i \in 1 .. Len(stdin) : Append(stdin, Closed)[i] = stdin[i]
      <4>1. stdin \in Seq(Requests \cup {Closed}) /\ Closed \in Requests \cup {Closed}
        BY DEF TypeOK
      <4>. QED
        BY <4>1, AppendProperties, LenProperties
    <3>. QED
      BY <2>1, <3>1, <3>2, <3>3
  <2>3. Asked'
    BY <2>1, <2>2 DEF AnswerInv, Asked
  <2>. QED
    BY <2>1, <2>3 DEF AnswerInv, Given, NoConsumerYet
<1>10. CASE Consume \/ Leave \/ UNCHANGED vars
  BY <1>10, AnswerFrame DEF Consume, Leave, vars
<1>11. ASSUME NEW c \in Closers,
              CloseStart(c) \/ CloserStep(c) \/ CloseHurried(c) \/ CloseCut(c)
       PROVE  AnswerInv'
  BY <1>11, AnswerFrame, FailedFutures DEF CloseStart, CloserStep, CloseReaped,
     CloseKill, CloseDone, CloseHurried, CloseCut, Finally
<1>. QED
  BY <1>1, <1>2, <1>3, <1>4, <1>5, <1>6, <1>7, <1>8, <1>9, <1>10, <1>11
  DEF Next, RequestStep, ReaderStep
-----------------------------------------------------------------------------
(* What a step means to the callers, in the terms of RpcPromise.           *)
LEMMA Untold ==
    ASSUME UNCHANGED <<Outcome, said, closing, heard, Hearing>>,
           child' = "dead" <=> child = "dead"
    PROVE  [Promise!Next]_(Promise!vars)
BY DEF Promise!vars

LEMMA Told ==
    ASSUME TypeOK, NEW r \in Requests,
           \A q \in Requests \ {r} : request'[q] = request[q],
           request' \in [Requests -> {"new"} \cup Busy \cup Ended],
           UNCHANGED <<said, child, closing, heard, Hearing>>,
           \/ request[r] = "new" /\ request'[r] \in Busy \cup {"failed"}
           \/ request[r] \in Busy /\ request'[r] \in Busy \cup {"failed"}
           \/ request[r] \in Busy /\ <<r, request'[r]>> \in said
    PROVE  [Promise!Next]_(Promise!vars)
<1>. DEFINE o == Outcome'[r]
<1>1. Outcome' = [Outcome EXCEPT ![r] = o]
  <2>1. \A q \in Requests \ {r} : Outcome'[q] = Outcome[q]
    BY DEF Outcome
  <2>2. /\ Outcome = [q \in Requests |-> Outcome[q]]
        /\ Outcome' = [q \in Requests |-> Outcome'[q]]
    BY DEF Outcome
  <2>. HIDE DEF o
  <2>3. Outcome'[r] = o
    BY DEF o
  <2>. QED
    BY <2>1, <2>2, <2>3
<1>2. CASE request[r] = "new" /\ request'[r] \in Busy \cup {"failed"}
  <2>1. Outcome[r] = "none" /\ o \in {"asked", "failed"}
    BY <1>2 DEF Outcome, Busy
  <2>2. Promise!Ask(r)
    BY <1>1, <2>1 DEF Promise!Ask
  <2>. QED
    BY <2>2 DEF Promise!Next
<1>3. CASE request[r] \in Busy /\ request'[r] = "failed"
  <2>1. Outcome[r] = "asked" /\ o = "failed"
    BY <1>3 DEF Outcome, Busy
  <2>2. Promise!Fail(r)
    BY <1>1, <2>1 DEF Promise!Fail
  <2>. QED
    BY <2>2 DEF Promise!Next
<1>4. CASE request[r] \in Busy /\ request'[r] \in Busy
  <2>1. Outcome[r] = "asked" /\ o = "asked"
    BY <1>4 DEF Outcome, Busy
  <2>2. Outcome' = Outcome
    BY <1>1, <2>1 DEF Outcome
  <2>. QED
    BY <2>2, Untold
<1>5. CASE request[r] \in Busy /\ <<r, request'[r]>> \in said
  <2>1. request'[r] \in Answers
    BY <1>5 DEF TypeOK
  <2>2. Outcome[r] = "asked" /\ o = request'[r]
    BY <1>5, <2>1 DEF Outcome, Busy, Answers
  <2>3. Promise!Reply(r)
    BY <1>1, <1>5, <2>1, <2>2 DEF Promise!Reply
  <2>. QED
    BY <2>3 DEF Promise!Next
<1>. QED
  BY <1>2, <1>3, <1>4, <1>5

LEMMA PromiseStep ==
    ASSUME RpcInv, [Next]_vars
    PROVE  [Promise!Next]_(Promise!vars)
<1>. USE DEF calls, codex, ends, stream
<1>t. TypeOK /\ TypeOK' /\ StreamInv /\ OrderInv /\ AnswerInv
  BY TypeStep DEF RpcInv
<1>1. ASSUME NEW r \in Requests, Issue(r) \/ Write(r)
      PROVE  [Promise!Next]_(Promise!vars)
  <2>1. UNCHANGED <<said, child, closing, heard, Hearing>>
    BY <1>1 DEF Issue, Write, Hearing
  <2>2. request[r] \in {"new", "queue"} /\ request'[r] \in Busy \cup {"failed"}
    BY <1>1, <1>t, SubmitFutures DEF TypeOK, Issue, Write, Busy
  <2>3. \A q \in Requests \ {r} : request'[q] = request[q]
    BY <1>1, <1>t, SubmitFutures DEF TypeOK, Issue, Write
  <2>. QED
    BY <1>t, <2>1, <2>2, <2>3, Told DEF TypeOK, Busy
<1>2. ASSUME NEW r \in Requests, Drained(r) \/ TimeOut(r) \/ Cancel(r)
      PROVE  [Promise!Next]_(Promise!vars)
  <2>1. UNCHANGED <<said, child, closing, heard, Hearing>>
    BY <1>2 DEF Drained, TimeOut, Cancel, Hearing
  <2>2. /\ request[r] \in Busy /\ request'[r] \in Busy \cup {"failed"}
        /\ \A q \in Requests \ {r} : request'[q] = request[q]
    BY <1>2, <1>t DEF TypeOK, Drained, TimeOut, Cancel, Busy
  <2>. QED
    BY <1>t, <2>1, <2>2, Told DEF TypeOK
<1>3. ASSUME NEW r \in Requests, Return(r)
      PROVE  [Promise!Next]_(Promise!vars)
  <2>1. UNCHANGED <<said, child, closing, heard, Hearing>>
    BY <1>3 DEF Return, Hearing
  <2>2. /\ request[r] \in Busy
        /\ request'[r] = "failed" \/ <<r, request'[r]>> \in said
        /\ \A q \in Requests \ {r} : request'[q] = request[q]
    <3>1. future[r] # "gone" => <<r, future[r]>> \in said
      BY <1>3, <1>t DEF Return, AnswerInv, Given
    <3>. QED
      BY <1>3, <1>t, <3>1 DEF TypeOK, Return, Busy
  <2>. QED
    BY <1>t, <2>1, <2>2, Told DEF TypeOK
<1>4. CASE Spawned
  <2>1. /\ UNCHANGED <<Outcome, said, child, closing, heard, consumer>>
        /\ Hearing = "waiting" /\ spawned' \in {"ready", "failed"}
    BY <1>4, <1>t DEF Spawned, Hearing, Outcome, AnswerInv, NoConsumerYet
  <2>2. CASE spawned' = "failed"
    <3>1. Promise!Stop
      BY <2>1, <2>2 DEF Promise!Stop, Hearing
    <3>. QED
      BY <3>1 DEF Promise!Next
  <2>3. CASE spawned' = "ready"
    <3>1. Hearing' = Hearing
      BY <1>4, <2>1, <2>3 DEF Hearing, Spawned
    <3>. QED
      BY <2>1, <3>1, Untold
  <2>. QED
    BY <2>1, <2>2, <2>3
<1>5. CASE ChildReads \/ ChildNotifies \/ ChildGarbles \/ ReaderStep \/ UNCHANGED vars
  <2>1. UNCHANGED <<request, said, child, closing, heard, spawned, consumer>>
    BY <1>5 DEF ChildReads, ChildNotifies, ChildGarbles, ReaderStep, ReadFrame,
       ReadEof, ReaderStops, vars
  <2>. QED
    BY <2>1, Untold DEF Outcome, Hearing
<1>6. ASSUME NEW r \in Requests, NEW k \in Answers, ChildAnswers(r, k)
      PROVE  [Promise!Next]_(Promise!vars)
  <2>1. /\ child # "dead" /\ r \in taken /\ said' = said \cup {<<r, k>>}
        /\ UNCHANGED <<Outcome, child, closing, heard, Hearing>>
    BY <1>6 DEF ChildAnswers, Alive, Outcome, Hearing
  <2>2. request[r] # "new"
    BY <1>t, <2>1 DEF AnswerInv, Asked
  <2>3. Outcome[r] # "none"
    BY <1>t, <2>2 DEF TypeOK, Outcome, Busy, Ended, Answers
  <2>4. Promise!Say(r, k)
    BY <2>1, <2>3 DEF Promise!Say
  <2>. QED
    BY <2>4 DEF Promise!Next
<1>7. CASE ChildExits
  <2>1. Promise!Exit
    BY <1>7 DEF ChildExits, Promise!Exit, Outcome, Hearing
  <2>. QED
    BY <2>1 DEF Promise!Next
<1>8. CASE Consume \/ Leave
  <2>1. /\ UNCHANGED <<Outcome, said, child, closing>>
        /\ Hearing = "waiting" /\ Hearing' = consumer'
    BY <1>8 DEF Consume, Leave, Outcome, Hearing
  <2>2. CASE consumer' = "left" /\ heard' = heard
    <3>1. Promise!Stop
      BY <2>1, <2>2 DEF Promise!Stop
    <3>. QED
      BY <3>1 DEF Promise!Next
  <2>3. CASE Consume /\ consumer' # "left"
    <3>1. Head(queue) = queue[1] /\ 1 \in 1 .. Len(queue)
      BY <1>t, <2>3, HeadTailProperties, LenProperties, EmptySeq DEF TypeOK, Consume
    <3>2. CASE Head(queue) = Closed
      <4>1. /\ consumer' = "ended" /\ ~terminal /\ heard' = heard
            /\ terminal \/ closing
        BY <1>t, <2>3, <3>1, <3>2 DEF Consume, StreamInv, MarkedByEnd
      <4>2. Promise!Stop
        BY <2>1, <4>1 DEF Promise!Stop
      <4>. QED
        BY <4>2 DEF Promise!Next
    <3>3. CASE Head(queue) # Closed
      <4>1. heard' = queue[1] /\ consumer' = "waiting" /\ queue[1] > heard
        BY <1>t, <2>3, <3>1, <3>3 DEF Consume, OrderInv, NewestKept
      <4>2. queue[1] \in 1 .. MaxNotes
        <5>1. queue[1] \in 0 .. MaxNotes
          BY <1>t, <3>1, PipeNotes DEF OrderInv
        <5>. QED
          BY <3>1, <3>3, <5>1, RpcAssumption DEF Closed
      <4>3. Promise!Hear(queue[1])
        BY <2>1, <4>1 DEF Promise!Hear
      <4>. QED
        BY <4>2, <4>3 DEF Promise!Next
    <3>. QED
      BY <3>2, <3>3
  <2>. QED
    BY <1>8, <2>2, <2>3 DEF Consume, Leave
<1>9. ASSUME NEW c \in Closers, CloseStart(c)
      PROVE  [Promise!Next]_(Promise!vars)
  <2>1. /\ UNCHANGED <<Outcome, said, heard, Hearing>> /\ closing'
        /\ child' = "dead" <=> child = "dead"
    BY <1>9, <1>t DEF CloseStart, Outcome, Hearing
  <2>2. Promise!Close
    BY <1>t, <2>1 DEF TypeOK, Promise!Close
  <2>. QED
    BY <2>2 DEF Promise!Next
<1>10. ASSUME NEW c \in Closers, CloserStep(c) \/ CloseHurried(c) \/ CloseCut(c)
       PROVE  [Promise!Next]_(Promise!vars)
  <2>1. UNCHANGED <<request, said, closing, heard, spawned, consumer>>
    BY <1>10 DEF CloserStep, CloseReaped, CloseKill, CloseDone, CloseHurried,
       CloseCut
  <2>2. child' = "dead" <=> child = "dead"
    BY <1>10 DEF CloserStep, CloseReaped, CloseKill, CloseDone, CloseHurried,
       CloseCut, Kill
  <2>. QED
    BY <2>1, <2>2, Untold DEF Outcome, Hearing
<1>. QED
  BY <1>1, <1>2, <1>3, <1>4, <1>5, <1>6, <1>7, <1>8, <1>9, <1>10
  DEF Next, RequestStep
-----------------------------------------------------------------------------
LEMMA RpcInit ==
    ASSUME Init
    PROVE  RpcInv /\ Promise!Init
<1>1. Len(<<>>) = 0 /\ \A S : <<>> \in Seq(S)
  BY EmptySeq, LenProperties
<1>2. Initialize \in Requests /\ Initialize # Closed
  BY RpcAssumption DEF Initialize, Requests, Closed
<1>3. /\ stdin \in Seq(Requests \cup {Closed}) /\ Len(stdin) = 1
      /\ stdin[1] = Initialize
  BY <1>2 DEF Init
<1>4. TypeOK
  <2>1. /\ request \in [Requests -> {"new"} \cup Busy \cup Ended]
        /\ future \in [Requests -> {"none", "open", "gone", "dropped"} \cup Answers]
        /\ closer \in [Closers -> {"idle", "wait", "reap", "gather"}]
    BY DEF Init, Busy
  <2>2. /\ writers \in Seq(Requests) /\ stdout \in Seq(Frames)
        /\ queue \in Seq(0 .. MaxNotes) /\ Len(queue) <= QueueSize
    BY <1>1, RpcAssumption DEF Init
  <2>3. noted \in 0 .. MaxNotes /\ heard \in 0 .. MaxNotes
    BY RpcAssumption DEF Init
  <2>. QED
    BY <1>3, <2>1, <2>2, <2>3 DEF Init, TypeOK
<1>5. PendingInv /\ StreamInv
  BY <1>1 DEF Init, PendingInv, LinedUp, Attended, OpenMeansLive, StreamInv,
     EndIsMarked, MarkedByEnd, CutByClose
<1>6. OrderInv
  BY <1>1 DEF Init, OrderInv, NewestKept, PipeInOrder, QueueBounded
<1>7. AnswerInv
  BY <1>1, <1>3 DEF Init, AnswerInv, Asked, Given, NoConsumerYet, Answers
<1>8. Promise!Init
  BY DEF Init, Promise!Init, Outcome, Hearing, Busy
<1>. QED
  BY <1>4, <1>5, <1>6, <1>7, <1>8 DEF RpcInv

(* In every behaviour of the client the inductive invariant holds.         *)
THEOREM RpcBasis == Spec => []RpcInv
<1>1. RpcInv /\ [Next]_vars => RpcInv'
  BY TypeStep, PendingStep, StreamStep, OrderStep, AnswerStep DEF RpcInv
<1>. QED
  BY RpcInit, <1>1, PTL DEF Spec

(* The state of the client keeps to its types.                             *)
THEOREM TypeCorrect == Spec => []TypeOK
<1>1. RpcInv => TypeOK
  BY DEF RpcInv
<1>. QED
  BY RpcBasis, <1>1, PTL

(* Of any number of requests and close() calls, cancelled or not: while a  *)
(* future is in _pending, the reader is at work or a close() has its       *)
(* finally clause, which fails what is pending, before it.                 *)
THEOREM PendingAttended == Spec => []PendingIsAttended
<1>1. RpcInv => PendingIsAttended
  BY DEF RpcInv, PendingInv, OpenMeansLive, Attended, PendingIsAttended
<1>. QED
  BY RpcBasis, <1>1, PTL

(* However small the queue and whoever ends the reader, the mark that ends *)
(* the stream is in the queue until the consumer has seen it, and nothing  *)
(* but the mark follows it.                                                *)
THEOREM EndMarked == Spec => []EndIsMarked
<1>1. RpcInv => EndIsMarked
  BY DEF RpcInv, StreamInv
<1>. QED
  BY RpcBasis, <1>1, PTL

(* Whatever the capacity of the queue, it loses its oldest notifications   *)
(* only.                                                                   *)
THEOREM NewestAreKept == Spec => []NewestKept
<1>1. RpcInv => NewestKept
  BY DEF RpcInv, OrderInv
<1>. QED
  BY RpcBasis, <1>1, PTL

(* The client implements what RpcPromise promises of safety: an answer     *)
(* reaches the request Codex has given it to and no other, a request gets  *)
(* one result, notifications arrive in order and none twice, and their     *)
(* stream ends without an error only after a close().                      *)
THEOREM SafePromise == Spec => Promise!Safe
<1>1. Init => Promise!Init
  BY RpcInit
<1>2. RpcInv /\ [Next]_vars => [Promise!Next]_(Promise!vars)
  BY PromiseStep
<1>. QED
  BY RpcBasis, <1>1, <1>2, PTL DEF Spec, Promise!Safe
-----------------------------------------------------------------------------
(* Of any number of close() calls, each cancelled at any of its awaits or  *)
(* not: whoever has come past the first wait has seen the process dead or  *)
(* killed it; so has somebody once they are all over.                      *)
Killed == child \in {"killed", "dead"}
Signalled ==
    /\ closed => child = "dead"
    /\ closing => child # "running"
    /\ closing /\ (\A c \in Closers : closer[c] # "wait") => Killed
PastTheWait ==
    \A c \in Closers : /\ closer[c] # "idle" => closing
                       /\ closer[c] \in {"reap", "gather"} => Killed

CloseInv == Signalled /\ PastTheWait

(* The process is signalled in the step that says closing, and a signal is *)
(* not taken back.                                                         *)
LEMMA CloseStep ==
    ASSUME TypeOK, CloseInv, [Next]_vars
    PROVE  CloseInv'
<1>t. /\ child \in {"running", "terminated", "killed", "dead"}
      /\ closer \in [Closers -> {"idle", "wait", "reap", "gather"}]
  BY DEF TypeOK
<1>. USE DEF CloseInv, Signalled, PastTheWait, Killed
<1>1. ASSUME UNCHANGED <<child, ends>>
      PROVE  CloseInv'
  BY <1>1 DEF ends
<1>2. CASE ChildExits
  BY <1>2 DEF ChildExits, ends
<1>3. ASSUME NEW c \in Closers, CloseStart(c)
      PROVE  CloseInv'
  <2>1. closing' = TRUE /\ closed' = closed /\ ~closed /\ closer[c] = "idle"
    BY <1>3 DEF CloseStart
  <2>2. CASE child = "dead" /\ Finally(c) /\ UNCHANGED child
    BY <1>t, <2>1, <2>2 DEF Finally
  <2>3. CASE /\ closer' = [closer EXCEPT ![c] = "wait"]
             /\ child' = IF child = "running" THEN "terminated" ELSE child
    BY <1>t, <2>1, <2>3
  <2>. QED
    BY <1>3, <2>2, <2>3 DEF CloseStart
<1>4. ASSUME NEW c \in Closers, CloseReaped(c) \/ CloseHurried(c)
      PROVE  CloseInv'
  <2>1. closer' = [closer EXCEPT ![c] = "gather"] /\ UNCHANGED <<child, closing, closed>>
    BY <1>4 DEF CloseReaped, CloseHurried, Finally, codex
  <2>2. Killed /\ closing
    BY <1>4 DEF CloseReaped, CloseHurried
  <2>. QED
    BY <1>t, <2>1, <2>2
<1>5. ASSUME NEW c \in Closers, CloseKill(c)
      PROVE  CloseInv'
  <2>1. /\ closer' = [closer EXCEPT ![c] = "reap"] /\ UNCHANGED <<closing, closed>>
        /\ child' = IF child = "dead" THEN child ELSE "killed"
        /\ closer[c] = "wait"
    BY <1>5 DEF CloseKill, Kill
  <2>. QED
    BY <1>t, <2>1
<1>6. ASSUME NEW c \in Closers, CloseDone(c) \/ CloseCut(c)
      PROVE  CloseInv'
  <2>1. /\ closer' = [closer EXCEPT ![c] = "idle"] /\ UNCHANGED <<child, closing>>
        /\ closed' \in {closed, child = "dead"} /\ closer[c] = "gather"
    BY <1>6 DEF CloseDone, CloseCut, codex
  <2>. QED
    BY <1>t, <2>1
<1>7. ASSUME \/ Spawned \/ ReaderStep \/ Consume \/ Leave \/ UNCHANGED vars
             \/ ChildReads \/ ChildNotifies \/ ChildGarbles
             \/ \E r \in Requests : Issue(r) \/ Cancel(r) \/ RequestStep(r)
             \/ \E r \in Requests, k \in Answers : ChildAnswers(r, k)
      PROVE  UNCHANGED <<child, ends>>
  BY <1>7 DEF Spawned, ReaderStep, ReadFrame, ReadEof, ReaderStops, Consume,
     Leave, ChildReads, ChildNotifies, ChildGarbles, ChildAnswers, Issue,
     Cancel, RequestStep, Write, Drained, Return, TimeOut, codex, ends, vars
<1>. QED
  BY <1>1, <1>2, <1>3, <1>4, <1>5, <1>6, <1>7 DEF Next, CloserStep

(* A process somebody has begun to close has its SIGTERM, and is killed or *)
(* dead as soon as no close() waits for it any more, however these ended;  *)
(* what counts as closed is dead: the safety side of CloseKills.           *)
THEOREM CloseLeavesNone == Spec => []CloseInv
<1>1. Init => CloseInv
  BY DEF Init, CloseInv, Signalled, PastTheWait
<1>. QED
  BY <1>1, CloseStep, TypeCorrect, PTL DEF Spec
=============================================================================
