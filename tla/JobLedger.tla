------------------------------ MODULE JobLedger ------------------------------
(***************************************************************************)
(* What the agent's job table promises about every id, whatever runs,      *)
(* restarts and retention do in between: a job is accepted, begins, is     *)
(* finished with one result and is eventually forgotten, in this order.    *)
(* Its Run (the journal cursor and the generation before) is fixed when    *)
(* it begins, its result when it finishes.  Jobs that share a run begin    *)
(* with the same Run and finish with the same result.                      *)
(***************************************************************************)
CONSTANTS Jobs, None

VARIABLE ledger   \* by id, an entry

Entry(state, run, result) == [state |-> state, run |-> run, result |-> result]

Blank == Entry("absent", None, None)

Init == ledger = [i \in Jobs |-> Blank]

\* The ids a step touches.
Touched == {i \in Jobs : ledger'[i] # ledger[i]}

Accept ==
    \A i \in Touched :
        /\ ledger[i] = Blank
        /\ ledger'[i] = Entry("pending", None, None)

\* A change that bypassed the relays enters the ledger finished.
Record ==
    \A i \in Touched :
        /\ ledger[i] = Blank
        /\ ledger'[i] = Entry("done", None, ledger'[i].result)

Begin ==
    \A i, j \in Touched :
        /\ ledger[i].state = "pending"
        /\ ledger'[i] = Entry("running", ledger'[j].run, ledger[i].result)

Finish ==
    \A i, j \in Touched :
        /\ ledger[i].state = "running"
        /\ ledger'[i] = Entry("done", ledger[i].run, ledger'[j].result)

Forget ==
    \A i \in Touched :
        /\ ledger[i].state = "done"
        /\ ledger'[i] = Blank

Next == Accept \/ Record \/ Begin \/ Finish \/ Forget

Spec == Init /\ [][Next]_ledger
=============================================================================
