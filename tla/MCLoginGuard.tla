---------------------------- MODULE MCLoginGuard ----------------------------
(* An instance of LoginGuard for TLC. *)
EXTENDS LoginGuard, TLC

CONSTANTS web1, web2, local

\* One client sends everything, the other only logs in, as web1.
MCSends == 1 :> Command @@ 2 :> {m \in LoginCommand : m.name = web1}
=============================================================================
