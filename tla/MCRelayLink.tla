----------------------------- MODULE MCRelayLink -----------------------------
(* Model-checking instances of RelayLink. *)
EXTENDS RelayLink

CONSTANTS i1, d1, q1, c1, c2

OneId == {i1}
TwoConns == {c1, c2}
OneDeploy == {d1}
OneWatch == {q1}
NoWatch == {}

AllOnOne == [w \in Waves |-> {i1}]

\* push opens the job once its deploy stream is gone, or while it still is there.
WatchLater == [w \in Waves |-> IF w = q1 THEN {d1} ELSE {}]
AnyTime == [w \in Waves |-> {}]
=============================================================================
