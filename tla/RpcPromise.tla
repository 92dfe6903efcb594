----------------------------- MODULE RpcPromise -----------------------------
(***************************************************************************)
(* What the callers of AppServerClient may rely on, with nothing of how it *)
(* works: a request gets no answer but one Codex gave to it, and gets at   *)
(* most one result; notifications arrive in order, none twice; their       *)
(* stream ends without an error only if somebody has closed the client;    *)
(* once the process is gone, every request ends and so does the stream.    *)
(***************************************************************************)
EXTENDS Naturals

CONSTANTS Requests, Answers, Notes

VARIABLES outcome,  (* of each request                                     *)
          said,     (* what Codex has answered                             *)
          gone,     (* whether the process has ended                       *)
          closing,  (* whether close() has been called                     *)
          heard,    (* the last notification delivered                     *)
          stream    (* of notifications: it ends, or its reader leaves it, *)
                    (* perhaps with an error                               *)

vars == <<outcome, said, gone, closing, heard, stream>>

Init ==
    /\ outcome \in [Requests -> {"none", "asked"}]
    /\ said = {} /\ gone = FALSE /\ closing = FALSE
    /\ heard = 0 /\ stream = "waiting"

Ask(r) ==
    /\ outcome[r] = "none"
    /\ \E o \in {"asked", "failed"} : outcome' = [outcome EXCEPT ![r] = o]
    /\ UNCHANGED <<said, gone, closing, heard, stream>>

Reply(r) ==
    /\ outcome[r] = "asked"
    /\ \E k \in Answers : <<r, k>> \in said /\ outcome' = [outcome EXCEPT ![r] = k]
    /\ UNCHANGED <<said, gone, closing, heard, stream>>

Fail(r) ==
    /\ outcome[r] = "asked"
    /\ outcome' = [outcome EXCEPT ![r] = "failed"]
    /\ UNCHANGED <<said, gone, closing, heard, stream>>

(* Codex answers what it was asked, be it too late.                        *)
Say(r, k) ==
    /\ ~gone /\ outcome[r] # "none"
    /\ said' = said \cup {<<r, k>>}
    /\ UNCHANGED <<outcome, gone, closing, heard, stream>>

Exit ==
    /\ gone' = TRUE
    /\ UNCHANGED <<outcome, said, closing, heard, stream>>

(* Notifications may be lost, but not overtake each other.                 *)
Hear(n) ==
    /\ stream = "waiting" /\ n > heard
    /\ heard' = n
    /\ UNCHANGED <<outcome, said, gone, closing, stream>>

Stop ==
    /\ stream = "waiting"
    /\ \/ stream' = "ended" /\ closing
       \/ stream' = "left"
    /\ UNCHANGED <<outcome, said, gone, closing, heard>>

Close ==
    /\ closing' = TRUE
    /\ UNCHANGED <<outcome, said, gone, heard, stream>>

Next ==
    \/ \E r \in Requests : Ask(r) \/ Reply(r) \/ Fail(r)
    \/ \E r \in Requests, k \in Answers : Say(r, k)
    \/ \E n \in Notes : Hear(n)
    \/ Exit \/ Close \/ Stop

Safe == Init /\ [][Next]_vars

Spec ==
    /\ Safe
    /\ \A r \in Requests : WF_vars(gone /\ (Reply(r) \/ Fail(r)))
    /\ WF_vars(gone /\ Stop)
=============================================================================
