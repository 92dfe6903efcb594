---------------------------- MODULE EventsProofs ----------------------------
(***************************************************************************)
(* Theorems about Events for any capacity of the ring and of a client's    *)
(* queue and any number of events and restarts: its types, that a tab      *)
(* misses nothing in silence while its connection lasts, and that no event *)
(* comes twice or out of order.                                            *)
(***************************************************************************)
EXTENDS Events, SequenceTheorems, TLAPS

(* The ring has the last ids, as many as it can.                           *)
RingInv ==
    /\ Len(ring) <= sequence
    /\ ring = <<>> => sequence = 0
    /\ \A i \in 1 .. Len(ring) : ring[i] = sequence - Len(ring) + i

(* What waits is not ahead of the process, and not behind what the tab has *)
(* got: a gap is never older than what came before it, for it stands for   *)
(* that too when the next one takes its place.                             *)
Behind(e, f) == IF f.gap THEN e.id <= f.id ELSE e.gap \/ e.id < f.id
QueueInv ==
    /\ \A i \in 1 .. Len(queue) :
          /\ queue[i].id <= sequence
          /\ \A j \in 1 .. i - 1 : Behind(queue[j], queue[i])
    /\ \A i \in 1 .. Len(queue) :
          /\ queue[i].gap => warned <= queue[i].id
          /\ \A n \in seen : Behind(Event(n), queue[i])
    /\ \A n \in seen : n <= lastId

EventsInv == TypeOK /\ RingInv /\ QueueInv /\ MissedNotSilently
-----------------------------------------------------------------------------
LEMMA Numbers ==
    ASSUME TypeOK
    PROVE  /\ sequence \in Nat /\ Len(ring) \in Nat /\ Len(queue) \in Nat
           /\ lastId \in Nat /\ since \in Nat /\ warned \in Nat
           /\ ReplaySize \in Nat \ {0} /\ ClientSize \in Nat \ {0}
           /\ \A n \in seen : n \in Nat \ {0} /\ n <= sequence
           /\ \A i \in 1 .. Len(ring) : ring[i] \in Ids
           /\ \A i \in 1 .. Len(queue) :
                 /\ queue[i] \in Entries /\ queue[i].gap \in BOOLEAN
                 /\ queue[i].id \in Nat \ {0}
<1>1. /\ sequence \in Nat /\ lastId \in Nat /\ since \in Nat /\ warned \in Nat
      /\ ReplaySize \in Nat \ {0} /\ ClientSize \in Nat \ {0}
      /\ \A n \in seen : n \in Nat \ {0} /\ n <= sequence
  BY EventsAssumption DEF TypeOK, Ids
<1>2. /\ Len(ring) \in Nat /\ Len(queue) \in Nat
      /\ \A i \in 1 .. Len(ring) : ring[i] \in Ids
      /\ \A i \in 1 .. Len(queue) : queue[i] \in Entries
  BY LenProperties, ElementOfSeq DEF TypeOK
<1>. QED
  BY <1>1, <1>2, EventsAssumption DEF Entries, Ids

(* The event that is published is the last of the ring.                    *)
LEMMA RingedProperties ==
    ASSUME TypeOK, RingInv, sequence < MaxSequence
    PROVE  /\ Ringed(sequence + 1) \in Seq(Ids)
           /\ Len(Ringed(sequence + 1)) \in 1 .. ReplaySize
           /\ Len(Ringed(sequence + 1)) <= sequence + 1
           /\ \A i \in 1 .. Len(Ringed(sequence + 1)) :
                 Ringed(sequence + 1)[i]
                    = sequence + 1 - Len(Ringed(sequence + 1)) + i
<1>. DEFINE new  == sequence + 1
            r    == Ringed(new)
<1>1. new \in Ids /\ sequence \in Nat /\ Len(ring) \in Nat /\ ReplaySize \in Nat \ {0}
  BY Numbers, EventsAssumption DEF Ids, TypeOK
<1>2. /\ ring \in Seq(Ids) /\ Len(ring) <= ReplaySize /\ Len(ring) <= sequence
      /\ \A i \in 1 .. Len(ring) : ring[i] = sequence - Len(ring) + i
  BY DEF TypeOK, RingInv
<1>3. CASE Len(ring) < ReplaySize
  <2>1. r = Append(ring, new)
    BY <1>3 DEF Ringed
  <2>. HIDE DEF new, r
  <2>2. /\ r \in Seq(Ids) /\ Len(r) = Len(ring) + 1
        /\ \A i \in 1 .. Len(ring) : r[i] = ring[i]
        /\ r[Len(ring) + 1] = new
    BY <1>1, <1>2, <2>1, AppendProperties
  <2>3. ASSUME NEW i \in 1 .. Len(r)
        PROVE  r[i] = new - Len(r) + i
    <3>1. CASE i \in 1 .. Len(ring)
      BY <1>1, <1>2, <2>2, <3>1 DEF new
    <3>2. CASE i \notin 1 .. Len(ring)
      <4>1. i = Len(ring) + 1
        BY <1>1, <2>2, <3>2
      <4>2. r[i] = new
        BY <2>2, <4>1
      <4>. QED
        BY <1>1, <2>2, <4>1, <4>2 DEF new
    <3>. QED
      BY <3>1, <3>2
  <2>. QED
    BY <1>1, <1>2, <1>3, <2>2, <2>3 DEF new, r
<1>4. CASE Len(ring) >= ReplaySize
  <2>. DEFINE t == Tail(ring)
  <2>1. r = Append(t, new) /\ ring # <<>> /\ Len(ring) = ReplaySize
    BY <1>1, <1>2, <1>4 DEF Ringed
  <2>2. /\ t \in Seq(Ids) /\ Len(t) = Len(ring) - 1
        /\ \A i \in 1 .. Len(t) : t[i] = ring[i + 1]
    BY <1>2, <2>1, HeadTailProperties
  <2>. HIDE DEF new, r, t
  <2>3. /\ r \in Seq(Ids) /\ Len(r) = Len(t) + 1
        /\ \A i \in 1 .. Len(t) : r[i] = t[i]
        /\ r[Len(t) + 1] = new
    BY <1>1, <2>1, <2>2, AppendProperties
  <2>4. ASSUME NEW i \in 1 .. Len(r)
        PROVE  r[i] = new - Len(r) + i
    <3>1. CASE i \in 1 .. Len(t)
      <4>1. i + 1 \in 1 .. Len(ring) /\ r[i] = ring[i + 1]
        BY <1>1, <2>2, <2>3, <3>1
      <4>2. ring[i + 1] = sequence - Len(ring) + (i + 1)
        BY <1>2, <4>1
      <4>3. Len(r) = Len(ring) /\ i \in Nat
        BY <1>1, <2>1, <2>2, <2>3
      <4>4. r[i] = sequence - Len(ring) + (i + 1)
        BY <4>1, <4>2
      <4>. QED
        BY <1>1, <4>3, <4>4 DEF new
    <3>2. CASE i \notin 1 .. Len(t)
      <4>1. i = Len(t) + 1
        BY <1>1, <2>1, <2>2, <2>3, <3>2
      <4>2. r[i] = new
        BY <2>3, <4>1
      <4>. QED
        BY <1>1, <2>1, <2>2, <2>3, <4>1, <4>2 DEF new
    <3>. QED
      BY <3>1, <3>2
  <2>. QED
    BY <1>1, <1>2, <1>4, <2>1, <2>2, <2>3, <2>4 DEF new, r
<1>. QED
  BY <1>1, <1>3, <1>4

(* What the ring has after n is its end.                                   *)
LEMMA AfterProperties ==
    ASSUME TypeOK, RingInv, NEW n \in Nat
    PROVE  /\ After(n) \in Seq(Ids)
           /\ \E k \in 0 .. Len(ring) :
                 /\ Len(After(n)) = Len(ring) - k
                 /\ \A i \in 1 .. Len(After(n)) : After(n)[i] = ring[k + i]
                 /\ \A i \in 1 .. Len(ring) : ring[i] > n <=> i > k
<1>. DEFINE Old(k) == \A i \in 1 .. Len(ring) : ring[i] > n <=> i > k
            old    == CHOOSE k \in 0 .. Len(ring) : Old(k)
<1>1. /\ sequence \in Nat /\ Len(ring) \in Nat /\ Len(ring) <= sequence
      /\ \A i \in 1 .. Len(ring) : ring[i] = sequence - Len(ring) + i
  BY Numbers DEF RingInv
<1>2. \E k \in 0 .. Len(ring) : Old(k)
  <2>. DEFINE first == sequence - Len(ring)
  <2>1. first \in Nat /\ \A i \in 1 .. Len(ring) : ring[i] = first + i
    BY <1>1
  <2>. HIDE DEF first
  <2>2. CASE n <= first
    <3>1. 0 \in 0 .. Len(ring) /\ Old(0)
      BY <1>1, <2>1, <2>2
    <3>. QED
      BY <3>1
  <2>3. CASE n > first /\ n <= first + Len(ring)
    <3>1. n - first \in 0 .. Len(ring)
      BY <1>1, <2>1, <2>3
    <3>2. Old(n - first)
      BY <1>1, <2>1, <2>3
    <3>. QED
      BY <3>1, <3>2
  <2>4. CASE n > first + Len(ring)
    <3>1. Len(ring) \in 0 .. Len(ring) /\ Old(Len(ring))
      BY <1>1, <2>1, <2>4
    <3>. QED
      BY <3>1
  <2>. QED
    BY <1>1, <2>1, <2>2, <2>3, <2>4
<1>3. old \in 0 .. Len(ring) /\ Old(old)
  BY <1>2
<1>4. After(n) = SubSeq(ring, old + 1, Len(ring))
  BY DEF After
<1>. HIDE DEF old, Old
<1>5. /\ old + 1 \in Int /\ Len(ring) \in Int
      /\ \A i \in old + 1 .. Len(ring) : ring[i] \in Ids
      /\ Len(ring) - (old + 1) + 1 = Len(ring) - old
      /\ old + 1 <= Len(ring) + 1
  <2>1. \A i \in old + 1 .. Len(ring) : i \in 1 .. Len(ring)
    BY <1>1, <1>3
  <2>. QED
    BY <1>1, <1>3, <2>1, Numbers
<1>6. /\ After(n) \in Seq(Ids) /\ Len(After(n)) = Len(ring) - old
      /\ \A i \in 1 .. Len(ring) - old : After(n)[i] = ring[old + 1 + i - 1]
  <2>1. /\ After(n) \in Seq(Ids)
        /\ Len(After(n)) = IF old + 1 <= Len(ring) THEN Len(ring) - (old + 1) + 1 ELSE 0
        /\ \A i \in 1 .. Len(ring) - (old + 1) + 1 :
              After(n)[i] = ring[old + 1 + i - 1]
    BY <1>4, <1>5, SubSeqProperties
  <2>2. Len(After(n)) = Len(ring) - old
    <3>. DEFINE len == Len(After(n))
    <3>1. len = IF old + 1 <= Len(ring) THEN Len(ring) - (old + 1) + 1 ELSE 0
      BY <2>1
    <3>. HIDE DEF len
    <3>2. len = Len(ring) - old
      BY <1>1, <1>3, <3>1
    <3>. QED
      BY <3>2 DEF len
  <2>3. 1 .. Len(ring) - (old + 1) + 1 = 1 .. Len(ring) - old
    BY <1>5
  <2>. QED
    BY <2>1, <2>2, <2>3
<1>7. \A i \in 1 .. Len(ring) - old : After(n)[i] = ring[old + i]
  <2>1. \A i \in 1 .. Len(ring) - old : old + 1 + i - 1 = old + i
    BY <1>1, <1>3
  <2>. QED
    BY <1>6, <2>1
<1>. QED
  BY <1>3, <1>6, <1>7 DEF Old

LEMMA AsEventsProperties ==
    ASSUME NEW s \in Seq(Ids)
    PROVE  /\ AsEvents(s) \in Seq(Entries) /\ Len(AsEvents(s)) = Len(s)
           /\ \A i \in 1 .. Len(s) : AsEvents(s)[i] = Event(s[i])
<1>1. Len(s) \in Nat /\ \A i \in 1 .. Len(s) : s[i] \in Ids
  BY LenProperties, ElementOfSeq
<1>2. \A i \in 1 .. Len(s) : Event(s[i]) \in Entries
  BY <1>1 DEF Event, Entries
<1>3. AsEvents(s) \in [1 .. Len(s) -> Entries]
  BY <1>2 DEF AsEvents
<1>4. AsEvents(s) \in Seq(Entries)
  BY <1>1, <1>3, SeqDef
<1>5. Len(AsEvents(s)) = Len(s)
  BY <1>1, <1>3, <1>4, LenProperties
<1>. QED
  BY <1>4, <1>5 DEF AsEvents

(* The end of a sequence that leaves room for a gap.                       *)
LEMMA NewestProperties ==
    ASSUME NEW s \in Seq(Ids), ClientSize \in Nat \ {0}
    PROVE  /\ Newest(s) \in Seq(Ids) /\ Len(Newest(s)) < ClientSize
           /\ \E m \in Nat :
                 /\ Len(Newest(s)) = Len(s) - m
                 /\ \A i \in 1 .. Len(Newest(s)) : Newest(s)[i] = s[m + i]
<1>1. Len(s) \in Nat /\ \A i \in 1 .. Len(s) : s[i] \in Ids
  BY LenProperties, ElementOfSeq
<1>2. CASE Len(s) < ClientSize
  <2>1. Newest(s) = s /\ 0 \in Nat /\ Len(s) - 0 = Len(s) /\ \A i \in 1 .. Len(s) : 0 + i = i
    BY <1>1, <1>2 DEF Newest
  <2>. QED
    BY <1>2, <2>1
<1>3. CASE Len(s) >= ClientSize
  <2>. DEFINE t == Newest(s)
              m == Len(s) - ClientSize + 1
  <2>1. t = SubSeq(s, m + 1, Len(s))
    <3>1. Len(s) - ClientSize + 2 = m + 1
      BY <1>1
    <3>. QED
      BY <1>1, <1>3, <3>1 DEF Newest
  <2>2. m \in Nat /\ m <= Len(s) /\ Len(s) - m = ClientSize - 1
    BY <1>1, <1>3
  <2>. HIDE DEF t, m
  <2>3. /\ \A i \in m + 1 .. Len(s) : s[i] \in Ids
        /\ m + 1 \in Int /\ Len(s) \in Int /\ Len(s) - (m + 1) + 1 = Len(s) - m
    BY <1>1, <2>2
  <2>4. /\ t \in Seq(Ids)
        /\ Len(t) = IF m + 1 <= Len(s) THEN Len(s) - (m + 1) + 1 ELSE 0
        /\ \A i \in 1 .. Len(s) - (m + 1) + 1 : t[i] = s[m + 1 + i - 1]
    BY <2>1, <2>3, SubSeqProperties
  <2>5. Len(t) = Len(s) - m
    <3>. DEFINE len == Len(t)
    <3>1. len = IF m + 1 <= Len(s) THEN Len(s) - (m + 1) + 1 ELSE 0
      BY <2>4
    <3>. HIDE DEF len
    <3>2. len = Len(s) - m
      BY <1>1, <2>2, <3>1
    <3>. QED
      BY <3>2 DEF len
  <2>6. \A i \in 1 .. Len(t) : t[i] = s[m + i]
    <3>1. \A i \in 1 .. Len(t) : i \in 1 .. Len(s) - (m + 1) + 1 /\ m + 1 + i - 1 = m + i
      BY <2>2, <2>3, <2>5
    <3>. QED
      BY <2>4, <3>1
  <2>. QED
    BY <2>2, <2>4, <2>5, <2>6 DEF t
<1>. QED
  BY <1>1, <1>2, <1>3

(* A replay is in order, a gap at most in front of it and as new as the    *)
(* process; what is not in it is behind the tab or has the gap.            *)
ReplayedFrom(q, n) ==
    /\ \A i \in 1 .. Len(q) :
          /\ q[i].id <= sequence
          /\ q[i].gap => i = 1 /\ q[i].id = sequence
          /\ ~q[i].gap => q[i].id > n
    /\ \A i \in 1 .. Len(q) : \A j \in 1 .. i - 1 :
          ~q[i].gap /\ ~q[j].gap => q[j].id < q[i].id
    /\ \A e \in n + 1 .. sequence :
          \E i \in 1 .. Len(q) : q[i] = Event(e) \/ (q[i].gap /\ q[i].id >= e)

LEMMA ReplayProperties ==
    ASSUME TypeOK, RingInv
    PROVE  /\ Replay \in Seq(Entries) /\ Len(Replay) <= ClientSize
           /\ ReplayedFrom(Replay, lastId)
<1>. DEFINE s == After(lastId)
<1>1. /\ sequence \in Nat /\ Len(ring) \in Nat /\ lastId \in Nat
      /\ ClientSize \in Nat \ {0}
      /\ \A i \in 1 .. Len(ring) : ring[i] = sequence - Len(ring) + i
      /\ sequence <= MaxSequence /\ MaxSequence \in Nat
  BY Numbers, EventsAssumption DEF RingInv, TypeOK
<1>2. PICK k \in 0 .. Len(ring) :
         /\ Len(s) = Len(ring) - k
         /\ \A i \in 1 .. Len(s) : s[i] = ring[k + i]
         /\ \A i \in 1 .. Len(ring) : ring[i] > lastId <=> i > k
  BY <1>1, AfterProperties
<1>3. s \in Seq(Ids) /\ Len(s) \in Nat
  BY <1>1, AfterProperties, LenProperties
<1>4. Replay = IF RingLost \/ Len(s) > ClientSize
               THEN <<Gap(sequence)>> \o AsEvents(Newest(s)) ELSE AsEvents(s)
  BY DEF Replay
<1>. HIDE DEF s
<1>5. ASSUME NEW i \in 1 .. Len(s)
      PROVE  s[i] > lastId /\ s[i] = sequence - Len(ring) + k + i /\ s[i] <= sequence
  <2>1. k + i \in 1 .. Len(ring) /\ k + i > k
    BY <1>1, <1>2
  <2>2. s[i] = ring[k + i] /\ ring[k + i] = sequence - Len(ring) + (k + i)
    BY <1>1, <1>2, <2>1
  <2>. QED
    BY <1>1, <1>2, <2>1, <2>2
<1>6. CASE RingLost \/ Len(s) > ClientSize
  <2>. DEFINE t == Newest(s)
              q == <<Gap(sequence)>> \o AsEvents(t)
  <2>1. Replay = q
    BY <1>4, <1>6
  <2>2. /\ t \in Seq(Ids) /\ Len(t) < ClientSize /\ Len(t) \in Nat
        /\ \E m \in Nat : /\ Len(t) = Len(s) - m
                          /\ \A i \in 1 .. Len(t) : t[i] = s[m + i]
    BY <1>1, <1>3, NewestProperties, LenProperties
  <2>3. sequence \in Ids
    <3>1. sequence > 0
      <4>1. CASE RingLost
        <5>1. ring # <<>> /\ ring \in Seq(Ids)
          BY <4>1 DEF RingLost, TypeOK
        <5>2. Len(ring) > 0
          BY <1>1, <5>1, EmptySeq
        <5>. QED
          BY <1>1, <5>2 DEF RingInv
      <4>2. CASE Len(s) > ClientSize
        BY <1>1, <1>2, <4>2 DEF RingInv
      <4>. QED
        BY <1>6, <4>1, <4>2
    <3>. QED
      BY <1>1, <3>1 DEF Ids
  <2>4. Gap(sequence) \in Entries /\ Gap(sequence).gap /\ Gap(sequence).id = sequence
    BY <2>3 DEF Gap, Entries
  <2>5. /\ q \in Seq(Entries) /\ Len(q) = Len(t) + 1 /\ q[1] = Gap(sequence)
        /\ \A i \in 2 .. Len(q) : q[i] = Event(t[i - 1])
    <3>. DEFINE g == <<Gap(sequence)>>
                a == AsEvents(t)
    <3>1. /\ a \in Seq(Entries) /\ Len(a) = Len(t)
          /\ \A i \in 1 .. Len(t) : a[i] = Event(t[i])
      BY <2>2, AsEventsProperties
    <3>2. g \in Seq(Entries) /\ Len(g) = 1 /\ g[1] = Gap(sequence)
      BY <2>4
    <3>. HIDE DEF a, g, t
    <3>3. /\ g \o a \in Seq(Entries) /\ Len(g \o a) = 1 + Len(t)
          /\ \A i \in 1 .. 1 + Len(t) : (g \o a)[i] = IF i <= 1 THEN g[i] ELSE a[i - 1]
      <4>1. /\ g \o a \in Seq(Entries) /\ Len(g \o a) = Len(g) + Len(a)
            /\ \A i \in 1 .. Len(g) + Len(a) :
                  (g \o a)[i] = IF i <= Len(g) THEN g[i] ELSE a[i - Len(g)]
        <5>1. g \in Seq(Entries) /\ a \in Seq(Entries)
          BY <3>1, <3>2
        <5>. QED
          BY <5>1, ConcatProperties
      <4>2. ASSUME NEW i \in 1 .. 1 + Len(t)
            PROVE  (g \o a)[i] = IF i <= 1 THEN g[i] ELSE a[i - 1]
        <5>1. Len(g) = 1 /\ i \in 1 .. Len(g) + Len(a)
          BY <3>1, <3>2
        <5>2. (g \o a)[i] = IF i <= Len(g) THEN g[i] ELSE a[i - Len(g)]
          BY <4>1, <5>1
        <5>. QED
          BY <5>1, <5>2
      <4>. QED
        BY <3>1, <3>2, <4>1, <4>2
    <3>4. \A i \in 2 .. Len(t) + 1 : (g \o a)[i] = Event(t[i - 1])
      <4>1. \A i \in 2 .. Len(t) + 1 :
               i \in 1 .. 1 + Len(t) /\ ~(i <= 1) /\ i - 1 \in 1 .. Len(t)
        BY <2>2
      <4>. QED
        BY <3>1, <3>3, <4>1
    <3>5. (g \o a)[1] = Gap(sequence) /\ Len(g \o a) = Len(t) + 1
      BY <2>2, <3>2, <3>3
    <3>. QED
      BY <3>3, <3>4, <3>5 DEF g, a
  <2>. HIDE DEF t, q
  <2>6. PICK m \in Nat : /\ Len(t) = Len(s) - m
                         /\ \A i \in 1 .. Len(t) : t[i] = s[m + i]
    BY <2>2
  <2>7. ASSUME NEW i \in 2 .. Len(q)
        PROVE  /\ q[i] = Event(t[i - 1]) /\ t[i - 1] > lastId /\ t[i - 1] <= sequence
               /\ t[i - 1] = sequence - Len(ring) + k + m + i - 1
    <3>1. i - 1 \in 1 .. Len(t) /\ m + (i - 1) \in 1 .. Len(s)
      BY SMTT(30), <1>3, <2>2, <2>5, <2>6
    <3>2. t[i - 1] = s[m + (i - 1)]
      BY <2>6, <3>1
    <3>3. s[m + (i - 1)] = sequence - Len(ring) + k + (m + (i - 1))
      BY <1>5, <3>1
    <3>. QED
      BY <1>1, <1>2, <1>5, <2>5, <2>6, <3>1, <3>2, <3>3
  <2>8. /\ q[1].gap /\ q[1].id = sequence
        /\ \A i \in 2 .. Len(q) : ~q[i].gap /\ q[i].id = t[i - 1]
    <3>1. \A n : Event(n).gap = FALSE /\ Event(n).id = n
      BY DEF Event
    <3>2. \A i \in 2 .. Len(q) : q[i] = Event(t[i - 1])
      BY <2>5
    <3>. QED
      BY <2>4, <2>5, <3>1, <3>2
  <2>9. \A i \in 1 .. Len(q) : i # 1 => i \in 2 .. Len(q)
    BY <2>2, <2>5
  <2>10. \A i \in 1 .. Len(q) :
            /\ q[i].id <= sequence
            /\ q[i].gap => i = 1 /\ q[i].id = sequence
            /\ ~q[i].gap => q[i].id > lastId
    <3>1. ASSUME NEW i \in 2 .. Len(q)
          PROVE  q[i].id <= sequence /\ ~q[i].gap /\ q[i].id > lastId
      BY <2>7, <2>8
    <3>. QED
      BY <1>1, <2>8, <2>9, <3>1
  <2>11. ASSUME NEW i \in 1 .. Len(q), NEW j \in 1 .. i - 1, ~q[i].gap, ~q[j].gap
         PROVE  q[j].id < q[i].id
    <3>1. i \in 2 .. Len(q) /\ j \in 2 .. Len(q) /\ j < i
      BY <2>2, <2>5, <2>8, <2>11
    <3>2. /\ q[i].id = sequence - Len(ring) + k + m + i - 1
          /\ q[j].id = sequence - Len(ring) + k + m + j - 1
      BY <2>7, <2>8, <3>1
    <3>. QED
      BY <1>1, <1>2, <2>6, <3>1, <3>2
  <2>12. \A e \in lastId + 1 .. sequence :
            \E i \in 1 .. Len(q) : q[i] = Event(e) \/ (q[i].gap /\ q[i].id >= e)
    <3>1. 1 \in 1 .. Len(q)
      BY <2>2, <2>5
    <3>. QED
      BY <1>1, <2>8, <3>1
  <2>. QED
    BY <1>1, <2>1, <2>2, <2>5, <2>10, <2>11, <2>12 DEF ReplayedFrom
<1>7. CASE ~RingLost /\ Len(s) <= ClientSize
  <2>. DEFINE q == AsEvents(s)
  <2>1. Replay = q
    BY <1>1, <1>3, <1>4, <1>7
  <2>2. /\ q \in Seq(Entries) /\ Len(q) = Len(s)
        /\ \A i \in 1 .. Len(s) : q[i] = Event(s[i])
    BY <1>3, AsEventsProperties
  <2>. HIDE DEF q
  <2>3. \A i \in 1 .. Len(q) : ~q[i].gap /\ q[i].id = s[i]
    <3>1. \A n : Event(n).gap = FALSE /\ Event(n).id = n
      BY DEF Event
    <3>. QED
      BY <2>2, <3>1
  <2>4. ASSUME NEW i \in 1 .. Len(q), NEW j \in 1 .. i - 1
        PROVE  q[j].id < q[i].id
    <3>1. i \in 1 .. Len(s) /\ j \in 1 .. Len(s) /\ j < i
      BY <1>3, <2>2
    <3>. QED
      BY <1>1, <1>2, <1>5, <2>2, <2>3, <3>1
  <2>5. ASSUME NEW e \in lastId + 1 .. sequence
        PROVE  \E i \in 1 .. Len(q) : q[i] = Event(e)
    <3>. DEFINE x == e - sequence + Len(ring)
    <3>1. ring # <<>> /\ lastId >= sequence - Len(ring)
      <4>1. sequence > 0
        BY <1>1, <2>5
      <4>2. ring # <<>>
        BY <4>1 DEF RingInv
      <4>3. ring \in Seq(Ids)
        BY DEF TypeOK
      <4>4. Len(ring) > 0 /\ Head(ring) = ring[1]
        BY <1>1, <4>2, <4>3, EmptySeq, HeadTailProperties
      <4>5. Head(ring) = sequence - Len(ring) + 1
        BY <1>1, <4>4
      <4>. QED
        BY <1>1, <1>7, <4>2, <4>5 DEF RingLost
    <3>2. x \in 1 .. Len(ring) /\ sequence - Len(ring) + x = e /\ e > lastId
      BY <1>1, <2>5, <3>1
    <3>. HIDE DEF x
    <3>3. ring[x] = e
      BY <1>1, <3>2
    <3>4. x > k
      BY <1>2, <3>2, <3>3
    <3>5. x - k \in 1 .. Len(s) /\ k + (x - k) = x
      BY <1>1, <1>2, <3>2, <3>4
    <3>6. s[x - k] = ring[k + (x - k)]
      BY <1>2, <3>5
    <3>7. q[x - k] = Event(e)
      BY <2>2, <3>3, <3>5, <3>6
    <3>. QED
      BY <2>2, <3>5, <3>7
  <2>. QED
    BY <1>5, <1>7, <2>1, <2>2, <2>3, <2>4, <2>5 DEF ReplayedFrom
<1>. QED
  BY <1>1, <1>3, <1>6, <1>7

(* An event goes behind what waits; or a gap in its place, when what has   *)
(* waited longest has to go for it.                                        *)
LEMMA PutProperties ==
    ASSUME TypeOK, NEW n \in Ids
    PROVE  /\ Put(n) \in Seq(Entries) /\ Len(Put(n)) \in 1 .. ClientSize
           /\ \E d \in {0, 1} :
                 /\ Len(Put(n)) = Len(queue) + 1 - d
                 /\ \A i \in 1 .. Len(Put(n)) - 1 : Put(n)[i] = queue[i + d]
                 /\ Put(n)[Len(Put(n))] = IF d = 0 THEN Event(n) ELSE Gap(n)
<1>1. /\ queue \in Seq(Entries) /\ Len(queue) \in Nat /\ Len(queue) <= ClientSize
      /\ ClientSize \in Nat \ {0} /\ Event(n) \in Entries /\ Gap(n) \in Entries
  BY Numbers DEF TypeOK, Event, Gap, Entries
<1>. DEFINE q == Put(n)
<1>2. CASE Len(queue) < ClientSize
  <2>1. q = Append(queue, Event(n))
    BY <1>2 DEF Put
  <2>. HIDE DEF q
  <2>2. /\ q \in Seq(Entries) /\ Len(q) = Len(queue) + 1
        /\ \A i \in 1 .. Len(queue) : q[i] = queue[i]
        /\ q[Len(queue) + 1] = Event(n)
    BY <1>1, <2>1, AppendProperties
  <2>3. /\ 0 \in {0, 1} /\ Len(q) = Len(queue) + 1 - 0
        /\ \A i \in 1 .. Len(q) - 1 : q[i] = queue[i + 0]
        /\ q[Len(q)] = Event(n)
    BY <1>1, <2>2
  <2>. QED
    BY <1>1, <1>2, <2>2, <2>3 DEF q
<1>3. CASE Len(queue) >= ClientSize
  <2>. DEFINE t == Tail(queue)
  <2>1. q = Append(t, Gap(n)) /\ queue # <<>> /\ Len(queue) = ClientSize
    BY <1>1, <1>3 DEF Put
  <2>2. /\ t \in Seq(Entries) /\ Len(t) = Len(queue) - 1
        /\ \A i \in 1 .. Len(t) : t[i] = queue[i + 1]
    BY <1>1, <2>1, HeadTailProperties
  <2>. HIDE DEF q, t
  <2>3. /\ q \in Seq(Entries) /\ Len(q) = Len(t) + 1
        /\ \A i \in 1 .. Len(t) : q[i] = t[i]
        /\ q[Len(t) + 1] = Gap(n)
    BY <1>1, <2>1, <2>2, AppendProperties
  <2>4. /\ 1 \in {0, 1} /\ Len(q) = Len(queue) + 1 - 1
        /\ \A i \in 1 .. Len(q) - 1 : q[i] = queue[i + 1]
        /\ q[Len(q)] = Gap(n)
    BY <1>1, <2>2, <2>3
  <2>. QED
    BY <1>1, <1>3, <2>1, <2>3, <2>4 DEF q
<1>. QED
  BY <1>1, <1>2, <1>3
-----------------------------------------------------------------------------
LEMMA PublishStep ==
    ASSUME EventsInv, Publish
    PROVE  EventsInv'
<1>. DEFINE new == sequence + 1
            q   == Put(new)
<1>1. /\ TypeOK /\ RingInv /\ QueueInv /\ MissedNotSilently /\ new \in Ids
      /\ sequence \in Nat /\ sequence' = new /\ ring' = Ringed(new)
      /\ queue' = IF connected THEN q ELSE queue
      /\ UNCHANGED <<connected, lastId, since, seen, warned, restarts>>
  BY Numbers, EventsAssumption DEF EventsInv, Publish, Ids, TypeOK
<1>2. /\ q \in Seq(Entries) /\ Len(q) \in 1 .. ClientSize
      /\ \E d \in {0, 1} :
            /\ Len(q) = Len(queue) + 1 - d
            /\ \A i \in 1 .. Len(q) - 1 : q[i] = queue[i + d]
            /\ q[Len(q)] = IF d = 0 THEN Event(new) ELSE Gap(new)
  BY <1>1, PutProperties
<1>3. /\ ring' \in Seq(Ids) /\ Len(ring') \in 1 .. ReplaySize
      /\ Len(ring') <= new /\ ReplaySize \in Nat
      /\ \A i \in 1 .. Len(ring') : ring'[i] = new - Len(ring') + i
  BY <1>1, RingedProperties, Numbers DEF Publish
<1>4. \A n : /\ Event(n).gap = FALSE /\ Event(n).id = n
             /\ Gap(n).gap = TRUE /\ Gap(n).id = n
  BY DEF Event, Gap
<1>5. /\ Len(queue) \in Nat /\ lastId \in Nat /\ since \in Nat /\ warned \in Nat
      /\ ClientSize \in Nat \ {0} /\ warned <= sequence
      /\ \A n \in seen : n \in Nat \ {0} /\ n <= sequence
      /\ \A i \in 1 .. Len(queue) : queue[i].gap \in BOOLEAN /\ queue[i].id \in Nat \ {0}
  BY <1>1, Numbers DEF TypeOK
<1>. HIDE DEF new, q
<1>6. TypeOK'
  <2>1. sequence' \in 0 .. MaxSequence /\ seen \subseteq 1 .. new /\ warned \in 0 .. new
    BY <1>1, <1>5, EventsAssumption DEF new, Ids
  <2>2. queue' \in Seq(Entries) /\ Len(queue') <= ClientSize
    BY <1>1, <1>2, <1>5 DEF TypeOK
  <2>. QED
    BY <1>1, <1>3, <2>1, <2>2 DEF TypeOK
<1>7. RingInv'
  <2>1. ring' # <<>>
    BY <1>3, EmptySeq
  <2>. QED
    BY <1>1, <1>3, <2>1 DEF RingInv
<1>8. CASE ~connected
  <2>1. QueueInv'
    BY <1>1, <1>5, <1>8 DEF QueueInv, Behind, new
  <2>. QED
    BY <1>1, <1>6, <1>7, <1>8, <2>1 DEF EventsInv, MissedNotSilently
<1>9. CASE connected
  <2>1. PICK d \in {0, 1} :
           /\ Len(q) = Len(queue) + 1 - d
           /\ \A i \in 1 .. Len(q) - 1 : q[i] = queue[i + d]
           /\ q[Len(q)] = IF d = 0 THEN Event(new) ELSE Gap(new)
    BY <1>2
  <2>2. ASSUME NEW i \in 1 .. Len(q), i # Len(q)
        PROVE  i + d \in 1 .. Len(queue) /\ q[i] = queue[i + d]
    <3>1. i \in 1 .. Len(q) - 1
      BY <1>2, <1>5, <2>2
    <3>2. i + d \in 1 .. Len(queue)
      BY <1>5, <2>1, <3>1
    <3>. QED
      BY <2>1, <3>1, <3>2
  <2>3. \A i \in 1 .. Len(queue) :
           /\ queue[i].id <= sequence
           /\ queue[i].gap => warned <= queue[i].id
           /\ \A n \in seen : Behind(Event(n), queue[i])
           /\ \A j \in 1 .. i - 1 : Behind(queue[j], queue[i])
    BY <1>1 DEF QueueInv
  <2>4. /\ q[Len(q)].id = new /\ (q[Len(q)].gap => d = 1)
        /\ (d = 1 => q[Len(q)].gap)
    BY <1>4, <2>1
  <2>5. ASSUME NEW i \in 1 .. Len(q)
        PROVE  /\ q[i].id <= new
               /\ q[i].gap => warned <= q[i].id
               /\ \A n \in seen : Behind(Event(n), q[i])
    <3>1. CASE i = Len(q)
      <4>1. q[i].id = new
        BY <2>4, <3>1
      <4>2. \A n \in seen : n \in Nat /\ n <= sequence
        BY <1>5
      <4>3. \A n \in seen : n < new
        BY <1>1, <4>2 DEF new
      <4>4. new \in Nat /\ warned <= new
        BY <1>1, <1>5 DEF new
      <4>. QED
        BY <1>4, <4>1, <4>2, <4>3, <4>4 DEF Behind
    <3>2. CASE i # Len(q)
      BY <1>1, <1>5, <2>2, <2>3, <3>2 DEF new
    <3>. QED
      BY <3>1, <3>2
  <2>6. ASSUME NEW i \in 1 .. Len(q), NEW j \in 1 .. i - 1
        PROVE  Behind(q[j], q[i])
    <3>1. j \in 1 .. Len(q) /\ j # Len(q)
      BY <1>2, <1>5
    <3>2. j + d \in 1 .. Len(queue) /\ q[j] = queue[j + d]
      BY <2>2, <3>1
    <3>3. CASE i = Len(q)
      <4>1. q[i].id = new /\ q[j].id <= sequence /\ q[j].id \in Nat
        BY <1>5, <2>3, <2>4, <3>2, <3>3
      <4>. QED
        BY <1>1, <4>1 DEF Behind, new
    <3>4. CASE i # Len(q)
      <4>1. i + d \in 1 .. Len(queue) /\ q[i] = queue[i + d] /\ j + d \in 1 .. (i + d) - 1
        BY <2>1, <2>2, <3>4
      <4>. QED
        BY <2>3, <3>2, <4>1
    <3>. QED
      BY <3>3, <3>4
  <2>7. queue' = q
    BY <1>1, <1>9
  <2>8. QueueInv'
    <3>1. \A n \in seen : n <= lastId
      BY <1>1 DEF QueueInv
    <3>. QED
      BY <1>1, <2>5, <2>6, <2>7, <3>1 DEF QueueInv
  <2>9. ASSUME NEW n \in since + 1 .. new, n \notin seen, ~(warned >= n)
        PROVE  \E i \in 1 .. Len(q) : q[i] = Event(n) \/ (q[i].gap /\ q[i].id >= n)
    <3>1. Len(q) \in 1 .. Len(q)
      BY <1>2, <1>5
    <3>2. CASE d = 1
      <4>1. q[Len(q)].gap /\ q[Len(q)].id >= n
        BY <1>1, <1>5, <2>4, <3>2 DEF new
      <4>. QED
        BY <3>1, <4>1
    <3>3. CASE d = 0 /\ n = new
      BY <2>1, <3>1, <3>3
    <3>4. CASE d = 0 /\ n # new
      <4>1. n \in Owed
        BY <1>1, <1>5, <3>4 DEF Owed, new
      <4>2. PICK k \in 1 .. Len(queue) :
               queue[k] = Event(n) \/ (queue[k].gap /\ queue[k].id >= n)
        BY <1>1, <1>9, <2>9, <4>1 DEF MissedNotSilently
      <4>3. k \in 1 .. Len(q) /\ k \in 1 .. Len(q) - 1 /\ k + 0 = k
        BY <1>5, <2>1, <3>4
      <4>4. q[k] = queue[k + 0]
        BY <2>1, <3>4, <4>3
      <4>. QED
        BY <4>2, <4>3, <4>4
    <3>. QED
      BY <3>2, <3>3, <3>4
  <2>10. MissedNotSilently'
    BY <1>1, <2>7, <2>9 DEF MissedNotSilently, Owed
  <2>. QED
    BY <1>6, <1>7, <2>8, <2>10 DEF EventsInv
<1>. QED
  BY <1>8, <1>9

LEMMA SubscribeStep ==
    ASSUME EventsInv, Subscribe
    PROVE  EventsInv'
<1>1. /\ TypeOK /\ RingInv /\ QueueInv
      /\ connected' = TRUE /\ warned' = 0
      /\ queue' = IF lastId = 0 THEN <<>> ELSE Replay
      /\ since' = IF lastId \in 1 .. sequence THEN lastId ELSE sequence
      /\ UNCHANGED <<sequence, ring, lastId, seen, restarts>>
  BY DEF EventsInv, Subscribe, server
<1>2. /\ Replay \in Seq(Entries) /\ Len(Replay) <= ClientSize
      /\ ReplayedFrom(Replay, lastId)
  BY <1>1, ReplayProperties
<1>3. /\ sequence \in Nat /\ lastId \in Nat /\ ClientSize \in Nat \ {0}
      /\ \A n \in seen : n \in Nat \ {0} /\ n <= sequence
  BY <1>1, Numbers
<1>4. /\ <<>> \in Seq(Entries) /\ Len(<<>>) = 0
  BY EmptySeq, LenProperties
<1>5. TypeOK'
  <2>1. queue' \in Seq(Entries) /\ Len(queue') <= ClientSize
    BY <1>1, <1>2, <1>3, <1>4
  <2>2. since' \in 0 .. MaxSequence /\ warned' \in 0 .. sequence'
    BY <1>1, <1>3, EventsAssumption DEF TypeOK
  <2>. QED
    BY <1>1, <2>1, <2>2 DEF TypeOK
<1>6. RingInv'
  BY <1>1 DEF RingInv
<1>7. CASE lastId = 0
  <2>1. queue' = <<>> /\ since' = sequence
    BY <1>1, <1>7
  <2>2. QueueInv'
    <3>1. \A n \in seen : n <= lastId
      BY <1>1 DEF QueueInv
    <3>. QED
      BY <1>1, <1>4, <2>1, <3>1 DEF QueueInv
  <2>3. MissedNotSilently'
    BY <1>1, <1>3, <2>1 DEF MissedNotSilently, Owed
  <2>. QED
    BY <1>5, <1>6, <2>2, <2>3 DEF EventsInv
<1>8. CASE lastId # 0
  <2>. DEFINE q == Replay
  <2>1. queue' = q /\ q \in Seq(Entries) /\ Len(q) \in Nat
    BY <1>1, <1>2, <1>8, LenProperties
  <2>2. \A i \in 1 .. Len(q) : q[i].gap \in BOOLEAN /\ q[i].id \in Nat \ {0}
    <3>1. \A i \in 1 .. Len(q) : q[i] \in Entries
      BY <2>1, ElementOfSeq
    <3>. QED
      BY <3>1, EventsAssumption DEF Entries, Ids
  <2>3. /\ \A i \in 1 .. Len(q) :
              /\ q[i].id <= sequence
              /\ q[i].gap => i = 1 /\ q[i].id = sequence
              /\ ~q[i].gap => q[i].id > lastId
        /\ \A i \in 1 .. Len(q) : \A j \in 1 .. i - 1 :
              ~q[i].gap /\ ~q[j].gap => q[j].id < q[i].id
        /\ \A e \in lastId + 1 .. sequence :
              \E i \in 1 .. Len(q) : q[i] = Event(e) \/ (q[i].gap /\ q[i].id >= e)
    BY <1>2 DEF ReplayedFrom
  <2>. HIDE DEF q
  <2>4. \A n : Event(n).gap = FALSE /\ Event(n).id = n
    BY DEF Event
  <2>5. \A n \in seen : n <= lastId
    BY <1>1 DEF QueueInv
  <2>6. ASSUME NEW i \in 1 .. Len(q)
        PROVE  /\ q[i].gap => 0 <= q[i].id
               /\ \A n \in seen : Behind(Event(n), q[i])
    BY <1>3, <2>2, <2>3, <2>4, <2>5 DEF Behind
  <2>7. ASSUME NEW i \in 1 .. Len(q), NEW j \in 1 .. i - 1
        PROVE  Behind(q[j], q[i])
    <3>1. j \in 1 .. Len(q) /\ i # 1
      BY <2>1
    <3>. QED
      BY <2>2, <2>3, <3>1 DEF Behind
  <2>8. QueueInv'
    BY <1>1, <2>1, <2>3, <2>5, <2>6, <2>7 DEF QueueInv
  <2>9. MissedNotSilently'
    <3>1. CASE lastId \in 1 .. sequence
      BY <1>1, <2>1, <2>3, <3>1 DEF MissedNotSilently, Owed
    <3>2. CASE lastId \notin 1 .. sequence
      BY <1>1, <1>3, <3>2 DEF MissedNotSilently, Owed
    <3>. QED
      BY <3>1, <3>2
  <2>. QED
    BY <1>5, <1>6, <2>8, <2>9 DEF EventsInv
<1>. QED
  BY <1>7, <1>8

LEMMA DeliverStep ==
    ASSUME EventsInv, Deliver
    PROVE  EventsInv'
<1>. DEFINE e    == Head(queue)
            rest == Tail(queue)
<1>1. /\ TypeOK /\ RingInv /\ QueueInv /\ MissedNotSilently
      /\ connected /\ queue # <<>> /\ queue' = rest /\ lastId' = e.id
      /\ \/ e.gap /\ warned' = e.id /\ UNCHANGED seen
         \/ ~e.gap /\ seen' = seen \cup {e.id} /\ UNCHANGED warned
      /\ UNCHANGED <<sequence, ring, connected, since, restarts>>
  BY DEF EventsInv, Deliver, server
<1>2. /\ Len(queue) \in Nat \ {0} /\ rest \in Seq(Entries)
      /\ Len(rest) = Len(queue) - 1 /\ e = queue[1] /\ 1 \in 1 .. Len(queue)
      /\ \A i \in 1 .. Len(rest) : rest[i] = queue[i + 1]
  BY <1>1, HeadTailProperties, LenProperties, EmptySeq DEF TypeOK
<1>3. /\ sequence \in Nat /\ lastId \in Nat /\ ClientSize \in Nat \ {0}
      /\ warned \in Nat /\ since \in Nat
      /\ \A n \in seen : n \in Nat \ {0} /\ n <= sequence
      /\ \A i \in 1 .. Len(queue) :
            queue[i] \in Entries /\ queue[i].gap \in BOOLEAN /\ queue[i].id \in Nat \ {0}
  BY <1>1, Numbers
<1>4. \A n : Event(n).gap = FALSE /\ Event(n).id = n
  BY DEF Event
<1>5. \A i \in 1 .. Len(queue) :
         /\ queue[i].id <= sequence
         /\ queue[i].gap => warned <= queue[i].id
         /\ \A n \in seen : Behind(Event(n), queue[i])
         /\ \A j \in 1 .. i - 1 : Behind(queue[j], queue[i])
  BY <1>1 DEF QueueInv
<1>6. /\ e \in Entries /\ e.gap \in BOOLEAN /\ e.id \in Nat \ {0} /\ e.id <= sequence
      /\ (e.gap => warned <= e.id)
  BY <1>2, <1>3, <1>5
<1>. HIDE DEF e, rest
<1>7. ASSUME NEW i \in 1 .. Len(rest)
      PROVE  i + 1 \in 1 .. Len(queue) /\ rest[i] = queue[i + 1] /\ 1 \in 1 .. (i + 1) - 1
  BY <1>2
<1>8. TypeOK'
  <2>1. Len(rest) <= ClientSize
    BY <1>1, <1>2, <1>3 DEF TypeOK
  <2>2. seen' \subseteq 1 .. sequence /\ warned' \in 0 .. sequence
    <3>1. /\ e.id \in 1 .. sequence /\ e.id \in 0 .. sequence
          /\ seen \subseteq 1 .. sequence /\ warned \in 0 .. sequence
      BY <1>1, <1>3, <1>6 DEF TypeOK
    <3>. QED
      BY <1>1, <3>1
  <2>3. lastId' \in {0} \cup Ids
    BY <1>1, <1>6 DEF Entries
  <2>. QED
    BY <1>1, <1>2, <2>1, <2>2, <2>3 DEF TypeOK
<1>9. RingInv'
  BY <1>1 DEF RingInv
<1>10. ASSUME NEW i \in 1 .. Len(rest)
       PROVE  /\ rest[i].id <= sequence
              /\ rest[i].gap => warned' <= rest[i].id
              /\ \A n \in seen' : Behind(Event(n), rest[i])
  <2>1. Behind(e, queue[i + 1])
    BY <1>2, <1>5, <1>7
  <2>2. e.gap => (rest[i].gap => e.id <= rest[i].id)
    BY <1>7, <2>1 DEF Behind
  <2>3. ~e.gap => Behind(Event(e.id), rest[i])
    BY <1>4, <1>7, <2>1 DEF Behind
  <2>. QED
    BY <1>1, <1>5, <1>7, <2>2, <2>3
<1>11. ASSUME NEW i \in 1 .. Len(rest), NEW j \in 1 .. i - 1
       PROVE  Behind(rest[j], rest[i])
  <2>1. j \in 1 .. Len(rest) /\ j + 1 \in 1 .. (i + 1) - 1
    BY <1>2
  <2>. QED
    BY <1>5, <1>7, <2>1
<1>12. ASSUME NEW n \in seen'
       PROVE  n <= lastId'
  <2>1. CASE n \in seen
    BY <1>1, <1>2, <1>3, <1>4, <1>5, <1>6, <2>1 DEF Behind
  <2>2. CASE n = e.id
    BY <1>1, <1>6, <2>2
  <2>. QED
    BY <1>1, <1>12, <2>1, <2>2
<1>13. QueueInv'
  BY <1>1, <1>10, <1>11, <1>12 DEF QueueInv
<1>14. ASSUME NEW n \in Owed, n \notin seen', ~(warned' >= n)
       PROVE  \E i \in 1 .. Len(rest) :
                 rest[i] = Event(n) \/ (rest[i].gap /\ rest[i].id >= n)
  <2>1. n \in Nat /\ n \notin seen /\ ~(warned >= n)
    BY <1>1, <1>3, <1>6, <1>14 DEF Owed
  <2>2. PICK k \in 1 .. Len(queue) :
           queue[k] = Event(n) \/ (queue[k].gap /\ queue[k].id >= n)
    BY <1>1, <1>14, <2>1 DEF MissedNotSilently
  <2>3. k # 1
    BY <1>1, <1>2, <1>4, <1>14, <2>2
  <2>4. k - 1 \in 1 .. Len(rest) /\ (k - 1) + 1 = k
    BY <1>2, <2>3
  <2>5. rest[k - 1] = queue[(k - 1) + 1]
    BY <1>7, <2>4
  <2>. QED
    BY <2>2, <2>4, <2>5
<1>15. MissedNotSilently'
  BY <1>1, <1>14 DEF MissedNotSilently, Owed
<1>. QED
  BY <1>8, <1>9, <1>13, <1>15 DEF EventsInv

LEMMA EventsStep ==
    ASSUME EventsInv, [Next]_vars
    PROVE  EventsInv'
<1>1. CASE Publish
  BY <1>1, PublishStep
<1>2. CASE Subscribe
  BY <1>2, SubscribeStep
<1>3. CASE Deliver
  BY <1>3, DeliverStep
<1>4. CASE Disconnect \/ Reload \/ Restart
  <2>1. <<>> \in Seq(Entries) /\ <<>> \in Seq(Ids) /\ Len(<<>>) = 0
    BY EmptySeq, LenProperties
  <2>2. /\ queue' = <<>> /\ connected' = FALSE
        /\ \/ UNCHANGED <<sequence, ring, lastId, since, seen, warned, restarts>>
           \/ /\ UNCHANGED <<sequence, ring, restarts>>
              /\ lastId' = 0 /\ since' = sequence /\ seen' = {} /\ warned' = 0
           \/ /\ restarts' = restarts + 1 /\ restarts < MaxRestarts
              /\ sequence' = 0 /\ ring' = <<>> /\ UNCHANGED lastId
              /\ since' = 0 /\ seen' = {} /\ warned' = 0
    BY <1>4 DEF Disconnect, Reload, Restart, server
  <2>3. TypeOK'
    <3>1. /\ TypeOK /\ sequence \in Nat /\ ReplaySize \in Nat /\ ClientSize \in Nat
          /\ MaxSequence \in Nat /\ MaxRestarts \in Nat
      BY Numbers, EventsAssumption DEF EventsInv
    <3>2. connected' \in BOOLEAN /\ queue' \in Seq(Entries) /\ Len(queue') <= ClientSize
      <4>1. queue' = <<>> /\ connected' = FALSE
        BY <2>2
      <4>2. queue' \in Seq(Entries) /\ Len(queue') = 0
        BY <2>1, <4>1
      <4>3. connected' \in BOOLEAN
        BY <4>1
      <4>4. Len(queue') <= ClientSize
        BY <3>1, <4>2
      <4>. QED
        BY <4>2, <4>3, <4>4
    <3>3. /\ ring' \in Seq(Ids) /\ Len(ring') <= ReplaySize
          /\ sequence' \in 0 .. MaxSequence /\ lastId' \in {0} \cup Ids
      <4>1. /\ ring' \in {ring, <<>>} /\ sequence' \in {sequence, 0}
            /\ lastId' \in {lastId, 0}
        BY <2>2
      <4>2. ring' \in Seq(Ids) /\ Len(ring') <= ReplaySize
        <5>1. CASE ring' = <<>>
          <6>1. ring' \in Seq(Ids) /\ Len(ring') = 0
            BY <2>1, <5>1
          <6>. QED
            BY <3>1, <6>1
        <5>2. CASE ring' = ring
          BY <3>1, <5>2 DEF TypeOK
        <5>. QED
          BY <4>1, <5>1, <5>2
      <4>. QED
        BY <3>1, <4>1, <4>2 DEF TypeOK
    <3>4. /\ since' \in 0 .. MaxSequence /\ warned' \in 0 .. sequence'
          /\ restarts' \in 0 .. MaxRestarts
      BY <2>2, <3>1 DEF TypeOK
    <3>5. seen' \subseteq 1 .. sequence'
      BY <2>2, <3>1 DEF TypeOK
    <3>. QED
      BY <3>2, <3>3, <3>4, <3>5 DEF TypeOK
  <2>4. RingInv'
    BY <2>1, <2>2 DEF EventsInv, RingInv
  <2>5. QueueInv'
    BY <2>1, <2>2 DEF EventsInv, QueueInv
  <2>. QED
    BY <2>2, <2>3, <2>4, <2>5 DEF EventsInv, MissedNotSilently
<1>5. CASE UNCHANGED vars
  BY <1>5 DEF vars, server, EventsInv, TypeOK, RingInv, QueueInv,
     MissedNotSilently, Owed
<1>. QED
  BY <1>1, <1>2, <1>3, <1>4, <1>5 DEF Next

LEMMA InitEvents ==
    ASSUME Init
    PROVE  EventsInv
<1>1. <<>> \in Seq(Entries) /\ <<>> \in Seq(Ids) /\ Len(<<>>) = 0
  BY EmptySeq, LenProperties
<1>2. TypeOK
  <2>1. /\ ring \in Seq(Ids) /\ Len(ring) <= ReplaySize
        /\ queue \in Seq(Entries) /\ Len(queue) <= ClientSize
    BY <1>1, EventsAssumption DEF Init
  <2>. QED
    <3>1. seen \subseteq 1 .. sequence /\ warned \in 0 .. sequence
      BY DEF Init
    <3>2. /\ sequence \in 0 .. MaxSequence /\ since \in 0 .. MaxSequence
          /\ restarts \in 0 .. MaxRestarts
      BY EventsAssumption DEF Init
    <3>3. connected \in BOOLEAN /\ lastId \in {0} \cup Ids
      BY DEF Init
    <3>. QED
      BY <2>1, <3>1, <3>2, <3>3 DEF TypeOK
<1>. QED
  BY <1>1, <1>2 DEF Init, EventsInv, RingInv, QueueInv, MissedNotSilently
-----------------------------------------------------------------------------
(* Over any number of reconnections, reloads and restarts the ring, the    *)
(* queue and the tab stay in step.                                         *)
THEOREM Stream == Spec => []EventsInv
BY InitEvents, EventsStep, PTL DEF Spec

(* The process and the tab keep to their types, and the queue and the ring *)
(* to their capacities.                                                    *)
THEOREM TypeCorrect == Spec => []TypeOK
<1>1. EventsInv => TypeOK
  BY DEF EventsInv
<1>. QED
  BY Stream, <1>1, PTL

(* Whatever the capacities: while a connection lasts, an event it owes has *)
(* arrived or waits, or has a gap that has arrived or waits.               *)
THEOREM NothingMissed == Spec => []MissedNotSilently
<1>1. EventsInv => MissedNotSilently
  BY DEF EventsInv
<1>. QED
  BY Stream, <1>1, PTL

(* Of a process no event comes twice or before one published earlier, over *)
(* every reconnection.                                                     *)
THEOREM ArriveInOrder == Spec => []InOrder
<1>1. \A n : Event(n).gap = FALSE /\ Event(n).id = n
  BY DEF Event
<1>2. EventsInv => InOrder
  BY <1>1 DEF EventsInv, QueueInv, Behind, InOrder
<1>. QED
  BY Stream, <1>2, PTL
=============================================================================
