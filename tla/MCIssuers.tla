----------------------------- MODULE MCIssuers -----------------------------
(* Instances of Issuers for TLC. *)
EXTENDS Issuers, TLC

CONSTANTS r1, r2

TwoReqs == {r1, r2}

Symmetry == Permutations(TwoReqs)

OneName == <<"ci">>
BothAudiences == [n \in {"ci"} |-> {"relay", "login"}]

Replace == << <<1>>, <<2>> >>

Token(key, kid, aud, nbf, exp) ==
    [iss |-> TRUE, key |-> key, kid |-> kid, aud |-> aud, nbf |-> nbf, exp |-> exp]

(* One of each key, one that names no key and expires, one of a stranger. *)
Few ==
    { Token(1, TRUE, "relay", 0, 9), Token(2, FALSE, "relay", 1, 3),
      [Token(1, TRUE, "relay", 0, 9) EXCEPT !.iss = FALSE],
      Token(2, TRUE, "login", 0, 9) }
=============================================================================
