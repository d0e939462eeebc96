----------------------------- MODULE MCDashboard -----------------------------
(* Instances of Dashboard for TLC. *)
EXTENDS Dashboard, TLC

CONSTANTS h1, app, t1

OneHost == {h1}
OneFlakelet == {app}
OneTab == {t1}
EveryPage == {"flakelets", "hosts", "jobs", app}

(* A member of a group that may deploy, and somebody whom no rule names. *)
Both == ("admin" :> {"mail", "group"}) @@ ("guest" :> {"mail2"})
GroupRule ==
    { [principals |-> {"group", "ci"}, targets |-> {[hosts |-> {h1}, flakelets |-> {app}]}] }

(* status: whatever is not well, and the hosts that are connected. *)
NotWell == { "status" :> {"degraded", "updating", "failed", "connected"} }
=============================================================================
