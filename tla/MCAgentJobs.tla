----------------------------- MODULE MCAgentJobs -----------------------------
(* Model-checking instances of AgentJobs. *)
EXTENDS AgentJobs, TLC

CONSTANTS i1, i2, i3, f1, f2

IdsTwo == {i1, i2}
IdsThree == {i1, i2, i3}
FlakeletsOne == {f1}
FlakeletsTwo == {f1, f2}

\* Ids are interchangeable, and so are flakelets.
Symmetry == Permutations(Ids) \cup Permutations(Flakelets)

\* Where nothing switches a generation nobody reads the by-file.
WithoutByFile ==
    <<jobs, slots, described, tasks, closing, disk, phase, clock, crashes, accepts, ran,
      [f \in Flakelets |-> [host[f] EXCEPT !.byFile = None]]>>

NoFaults == {}
LaunchFault == {"launch"}
EveryFault == AllFaults
=============================================================================
