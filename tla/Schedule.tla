------------------------------ MODULE Schedule ------------------------------
(***************************************************************************)
(* The pure part of activation planning: how one complete usage read is    *)
(* turned into the next activation (domain/scheduling.py), and the two     *)
(* filters ApplicationServices.plan puts behind it (services.py).          *)
(*                                                                         *)
(* Times are natural numbers of one unit: the code holds resets in seconds *)
(* and everything else in milliseconds and converts exactly before it      *)
(* compares.  0 stands for a missing time, as None and 0 are both false in *)
(* the code's tests.  A percentage is an integer; a missing percentage is  *)
(* -1, which like None is neither 0 nor at the limit.                      *)
(***************************************************************************)
EXTENDS Integers

CONSTANTS Tolerance,  (* resets this close name the same window: 60 s      *)
          Day         (* durations from here on are no short window: 1440 m *)

ASSUME ScheduleAssumption ==
    /\ Tolerance \in Nat
    /\ Day \in Nat \ {0}
-----------------------------------------------------------------------------
(* A window key: what the attempt is unique for, within one account.       *)
KeyKinds == {"none", "initial", "estimated", "reported", "manual"}
Key == [kind : KeyKinds, at : Nat, span : Nat]

NoKey                == [kind |-> "none",      at |-> 0, span |-> 0]
InitialKey           == [kind |-> "initial",   at |-> 0, span |-> 0]
EstimatedKey(last, duration) ==
                        [kind |-> "estimated", at |-> last, span |-> duration]
ReportedKey(reset)   == [kind |-> "reported",  at |-> reset, span |-> 0]
ManualKey(now)       == [kind |-> "manual",    at |-> now \div Day, span |-> 0]

(* runAt = 0: the decision names a window but schedules nothing for it.    *)
Confidences == {"CONFIRMED", "ESTIMATED", "UNKNOWN"}
Decision == [key : Key, runAt : Nat, basis : Nat, confidence : Confidences]

Nothing(confidence) ==
    [key |-> NoKey, runAt |-> 0, basis |-> 0, confidence |-> confidence]

Near(r1, r2) == r1 - r2 <= Tolerance /\ r2 - r1 <= Tolerance

Exhausted(used) == used >= 100

(***************************************************************************)
(* The evidence a decision is taken from: eligibility of the account, the  *)
(* short window (present, used, duration, reset), the weekly percentage,   *)
(* the clock, the keys of every attempt the account ever had, whether an   *)
(* attempt is unresolved, the last proven activation, how many of the last *)
(* two reads agree on the duration, and the delay (safety plus jitter).    *)
(***************************************************************************)
ExpectedReset(e) ==
    IF e.last # 0 /\ e.short.present THEN e.last + e.short.duration ELSE 0

(* The idle reset moves with each read: it lies past the expected one.     *)
IdleResetMoves(e) ==
    /\ e.estimates
    /\ e.short.present
    /\ e.short.used = 0
    /\ e.short.reset # 0
    /\ ExpectedReset(e) # 0
    /\ e.short.reset > ExpectedReset(e) + Tolerance
    /\ e.observations >= 2

ResetAhead(e) == e.short.present /\ e.short.reset # 0 /\ e.short.reset > e.now

(* No reset to go by: fall back on the observed duration.                  *)
DurationKnown(e) ==
    /\ e.estimates
    /\ e.short.present
    /\ e.short.duration > 0
    /\ e.short.duration < Day
    /\ e.last # 0
    /\ e.observations >= 2

RunUnlessUsed(key, keys, time) == IF key \in keys THEN 0 ELSE time

Initial(e) ==
    [key        |-> InitialKey,
     runAt      |-> RunUnlessUsed(InitialKey, e.keys, e.now),
     basis      |-> 0,
     confidence |-> "CONFIRMED"]

Estimate(e) ==
    LET key == EstimatedKey(e.last, e.short.duration)
    IN  [key        |-> key,
         runAt      |-> RunUnlessUsed(key, e.keys,
                                      e.last + e.short.duration + e.delay),
         basis      |-> 0,
         confidence |-> "ESTIMATED"]

Reported(e) ==
    LET key == ReportedKey(e.short.reset)
    IN  [key        |-> key,
         runAt      |-> RunUnlessUsed(key, e.keys, e.short.reset + e.delay),
         basis      |-> IF key \in e.keys THEN 0 ELSE e.short.reset,
         confidence |-> "CONFIRMED"]

DecideSchedule(e) ==
    IF ~e.eligible \/ e.unresolved
    THEN Nothing("UNKNOWN")
    ELSE IF Exhausted(e.weekly) \/ (e.short.present /\ Exhausted(e.short.used))
    THEN Nothing("CONFIRMED")
    ELSE IF e.short.present /\ e.short.used = 0 /\ e.last = 0
    THEN Initial(e)
    ELSE IF IdleResetMoves(e)
    THEN Estimate(e)
    ELSE IF ResetAhead(e)
    THEN Reported(e)
    ELSE IF DurationKnown(e)
    THEN Estimate(e)
    ELSE Nothing("UNKNOWN")

AdmissibleExactly(d, keys, bases) ==   (* mutant: no tolerance             *)
    d.key # NoKey /\ d.key \notin keys /\ d.runAt # 0

(* plan() drops a decision whose window already has an attempt, whatever   *)
(* became of it, and one whose reset is within the tolerance of the reset  *)
(* any earlier attempt was based on.                                       *)
Admissible(d, keys, bases) ==
    /\ d.key # NoKey
    /\ d.key \notin keys
    /\ d.runAt # 0
    /\ d.basis = 0 \/ \A b \in bases : ~Near(d.basis, b)
=============================================================================
