------------------------------- MODULE Events -------------------------------
(***************************************************************************)
(* Live events: the Broadcaster (events.py) and a browser tab at the other *)
(* end of the stream (web/app.py, app.js), which the browser opens again   *)
(* with the last id it has got.  Tabs do not concern each other: one is    *)
(* enough.                                                                 *)
(*                                                                         *)
(* Abstracted: the contents of events; what is under way on the connection *)
(* counts as received, for a tab that reconnects asks again from the last  *)
(* id it got.                                                              *)
(***************************************************************************)
EXTENDS Integers, Sequences

CONSTANTS ReplaySize,   (* capacity of the ring                            *)
          ClientSize,   (* capacity of a client's queue                    *)
          MaxSequence,  (* bound: events published by a process            *)
          MaxRestarts   (* bound                                           *)

ASSUME EventsAssumption ==
    /\ ReplaySize \in Nat \ {0} /\ ClientSize \in Nat \ {0}
    /\ MaxSequence \in Nat /\ MaxRestarts \in Nat

VARIABLES
    sequence,   (* _sequence                                               *)
    ring,       (* _ring: the ids of the last events                       *)
    queue,      (* the client's queue: events and gaps, with their ids     *)
    connected,  (* the queue is in _clients                                *)
    lastId,     (* the tab: the id it got last; 0 before the first         *)
    since,      (* ghost: the tab is owed the events after this one        *)
    seen,       (* ghost: the events it got from this process              *)
    warned,     (* ghost: the id of the newest gap it got, 0 if none       *)
    restarts

server == <<sequence, ring>>
vars   == <<server, queue, connected, lastId, since, seen, warned, restarts>>

Ids     == 1 .. MaxSequence
Entries == [gap : BOOLEAN, id : Ids]
Event(n) == [gap |-> FALSE, id |-> n]
Gap(n)   == [gap |-> TRUE, id |-> n]

TypeOK ==
    /\ sequence \in 0 .. MaxSequence
    /\ ring \in Seq(Ids) /\ Len(ring) <= ReplaySize
    /\ queue \in Seq(Entries) /\ Len(queue) <= ClientSize
    /\ connected \in BOOLEAN
    /\ lastId \in {0} \cup Ids /\ since \in 0 .. MaxSequence
    /\ seen \subseteq 1 .. sequence /\ warned \in 0 .. sequence
    /\ restarts \in 0 .. MaxRestarts

Init ==
    /\ sequence = 0 /\ ring = <<>> /\ queue = <<>> /\ connected = FALSE
    /\ lastId = 0 /\ since = 0 /\ seen = {} /\ warned = 0 /\ restarts = 0
-----------------------------------------------------------------------------
(* deque(maxlen): the oldest leaves.                                       *)
Ringed(n) == IF Len(ring) < ReplaySize THEN Append(ring, n) ELSE Append(Tail(ring), n)

(* put_nowait; when the queue is full the oldest entry goes, and a gap     *)
(* takes the place of the event too.                                       *)
PutEvent(n) == IF Len(queue) < ClientSize THEN Append(queue, Event(n))
               ELSE Append(Tail(queue), Event(n))
PutIfRoom(n) == IF Len(queue) < ClientSize THEN Append(queue, Event(n)) ELSE queue
Put(n) == IF Len(queue) < ClientSize THEN Append(queue, Event(n))
          ELSE Append(Tail(queue), Gap(n))

Publish ==
    /\ sequence < MaxSequence
    /\ sequence' = sequence + 1 /\ ring' = Ringed(sequence')
    /\ queue' = IF connected THEN Put(sequence') ELSE queue
    /\ UNCHANGED <<connected, lastId, since, seen, warned, restarts>>

(* What the ring has after the tab's last id (its end: the ids rise),      *)
(* behind a gap when that is not all of it or more than the queue takes.   *)
After(n) ==
    LET old == CHOOSE k \in 0 .. Len(ring) : \A i \in 1 .. Len(ring) : ring[i] > n <=> i > k
    IN  SubSeq(ring, old + 1, Len(ring))
AsEvents(s) == [i \in 1 .. Len(s) |-> Event(s[i])]
RingLost    == ring # <<>> /\ lastId < Head(ring) - 1
Newest(s)   == IF Len(s) < ClientSize THEN s
               ELSE SubSeq(s, Len(s) - ClientSize + 2, Len(s))
ReplayAll   == LET s == After(0) IN AsEvents(s)
Replay ==
    LET s == After(lastId) IN
    IF RingLost \/ Len(s) > ClientSize THEN <<Gap(sequence)>> \o AsEvents(Newest(s))
    ELSE AsEvents(s)

(* The browser connects, with Last-Event-ID if it has one.  What the tab   *)
(* is owed then: without an id, the events to come; with the id of an      *)
(* earlier process, the same.                                              *)
Subscribe ==
    /\ ~connected
    /\ connected' = TRUE
    /\ queue' = IF lastId = 0 THEN <<>> ELSE Replay
    /\ since' = IF lastId \in 1 .. sequence THEN lastId ELSE sequence
    /\ warned' = 0
    /\ UNCHANGED <<server, lastId, seen, restarts>>

(* The stream's next chunk.  The tab asks to be refreshed after a gap.     *)
Deliver ==
    /\ connected /\ queue # <<>>
    /\ queue' = Tail(queue)
    /\ LET e == Head(queue) IN
       /\ lastId' = e.id
       /\ IF e.gap THEN warned' = e.id /\ UNCHANGED seen
                   ELSE seen' = seen \cup {e.id} /\ UNCHANGED warned
    /\ UNCHANGED <<server, connected, since, restarts>>

Disconnect ==
    /\ connected
    /\ connected' = FALSE /\ queue' = <<>>
    /\ UNCHANGED <<server, lastId, since, seen, warned, restarts>>

(* The page is loaded again: a new stream without an id.                   *)
Reload ==
    /\ connected' = FALSE /\ queue' = <<>> /\ lastId' = 0
    /\ since' = sequence /\ seen' = {} /\ warned' = 0
    /\ UNCHANGED <<server, restarts>>

(* The process is started again and counts from the beginning; the tab     *)
(* keeps its id.                                                           *)
Restart ==
    /\ restarts < MaxRestarts
    /\ restarts' = restarts + 1
    /\ sequence' = 0 /\ ring' = <<>>
    /\ connected' = FALSE /\ queue' = <<>>
    /\ since' = 0 /\ seen' = {} /\ warned' = 0
    /\ UNCHANGED lastId

Next == Publish \/ Subscribe \/ Deliver \/ Disconnect \/ Reload \/ Restart

Spec == Init /\ [][Next]_vars

(* The stream of a connected tab goes on.                                  *)
FairSpec == Spec /\ WF_vars(Deliver)
-----------------------------------------------------------------------------
(* While a connection lasts, no event it owes is missed in silence: it has *)
(* arrived, or waits in the queue, or a gap no older than it has arrived   *)
(* or waits, though gaps themselves are dropped when the queue is full.    *)
Owed == since + 1 .. sequence
MissedNotSilently ==
    connected => \A n \in Owed :
        \/ n \in seen \/ warned >= n
        \/ \E i \in 1 .. Len(queue) : queue[i] = Event(n) \/ (queue[i].gap /\ queue[i].id >= n)

(* An event arrives at most once and after those published before it, over *)
(* every reconnection to a process, though a replay follows a gap with a   *)
(* higher id.  (Not so after a restart: the numbers begin again.)          *)
InOrder ==
    \A i \in 1 .. Len(queue) : ~queue[i].gap =>
        /\ \A n \in seen : n < queue[i].id
        /\ \A j \in 1 .. i - 1 : ~queue[j].gap => queue[j].id < queue[i].id

(* An owed event, or a gap that covers it, comes while the tab stays.      *)
Informed ==
    \A n \in Ids : connected /\ n \in Owed ~> n \in seen \/ warned >= n \/ ~connected
                                              \/ n \notin Owed
=============================================================================
