------------------------------ MODULE MCLogin -------------------------------
(***************************************************************************)
(* What the documentation says of the runtimes and the code does not do.   *)
(***************************************************************************)
EXTENDS Login

(* What README.md says of a failed checkpoint: the tree is kept, not        *)
(* deleted (line 94), once its credential could not be captured.           *)
Evidence == {held} \cup (IF call.pc = "keep" THEN {call.tree} ELSE {})
EvidenceKept ==
    [][\A t \in Evidence \ {None} : file[t] # Gone => file'[t] # Gone]_vars
=============================================================================
