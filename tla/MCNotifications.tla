-------------------------- MODULE MCNotifications --------------------------
(***************************************************************************)
(* Notifications on small instances: a short retry table.                  *)
(***************************************************************************)
EXTENDS Notifications

(* Two attempts, the second one time unit after the first, instead of      *)
(* eight over two days.                                                    *)
TwoTries == <<1, 1>>
=============================================================================
