------------------------- MODULE ActivationPromise -------------------------
(***************************************************************************)
(* What an operator may rely on about the activation attempts of an        *)
(* account, with nothing of schedules, tasks, locks, crashes or restarts:  *)
(* an attempt is submitted at most once, and not while another is in       *)
(* doubt; what is recorded of it is true of its turn; a record that is     *)
(* final stays.  Several attempts may move in a step: a completion         *)
(* withdraws plans, a restart settles whatever it finds.                   *)
(***************************************************************************)
CONSTANT Attempts

VARIABLES record,   (* what the service says of each attempt               *)
          turn      (* what is the case upstream                           *)

Init ==
    /\ record = [a \in Attempts |-> "none"]
    /\ turn = [a \in Attempts |-> "none"]

Goes(a, from, to) == record[a] = from /\ record'[a] = to

Propose(a)  == Goes(a, "none", "open")
Withdraw(a) == Goes(a, "open", "withdrawn") /\ turn[a] = "none"
Succeed(a)  == (Goes(a, "open", "succeeded") \/ Goes(a, "doubtful", "succeeded"))
               /\ turn[a] = "completed"
Fail(a)     == \/ Goes(a, "open", "failed") /\ turn[a] \in {"none", "refused", "failed"}
               \/ Goes(a, "doubtful", "failed") /\ turn[a] = "failed"
Doubt(a)    == Goes(a, "open", "doubtful")
Review(a)   == Goes(a, "doubtful", "reviewed")

Record(a) ==
    \/ Propose(a) \/ Withdraw(a) \/ Succeed(a) \/ Fail(a) \/ Doubt(a) \/ Review(a)
    \/ record'[a] = record[a]

Submit(a) ==
    /\ turn[a] = "none" /\ turn'[a] = "running"
    /\ record[a] = "open" /\ record'[a] = "open"
    /\ \A b \in Attempts \ {a} : record[b] # "doubtful"

Upstream(a) ==
    \/ Submit(a)
    \/ turn[a] = "running" /\ turn'[a] \in {"completed", "failed", "unsafe", "refused"}
    \/ turn'[a] = turn[a]

(* An attempt the promise does not cover: from then on nothing is said.    *)
Excused(a) == record[a] # "none" /\ record'[a] = "excused"

Next == \A a \in Attempts : Excused(a) \/ (Record(a) /\ Upstream(a))

Spec == Init /\ [][Next]_<<record, turn>>
=============================================================================
