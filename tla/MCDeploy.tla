------------------------------ MODULE MCDeploy ------------------------------
(* Model-checking instances of Deploy. *)
EXTENDS Deploy, TLC

CONSTANTS r1, r2, h1, h2, h3, h4

TwoRelays == {r1, r2}
FourHosts == {h1, h2, h3, h4}
ThreeHosts == {h1, h2, h3}
TwoHosts == {h1, h2}

\* push tries the relays in any order, so they are interchangeable.
Symmetry == Permutations(Relays)

Exact(h) == [pattern |-> FALSE, hosts |-> {h}]
Everywhere == [pattern |-> TRUE, hosts |-> Hosts]

\* One host after the other; one host first, then the rest; all at once, with a
\* host named twice; a host that is not allowed.
AllRequests ==
    {<< <<Exact(h1)>>, <<Exact(h2)>> >>,
     << <<Exact(h1)>>, <<Everywhere>> >>,
     << <<Everywhere, Exact(h1)>> >>,
     << <<Exact(h1)>>, <<Exact(h4)>> >>}

InTwoWaves == {<< <<Exact(h1)>>, <<Exact(h2)>> >>}
=============================================================================
