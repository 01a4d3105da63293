--------------------------- MODULE MCSessionRenewal ---------------------------
(* Instances of SessionRenewal for TLC; the requests are interchangeable.    *)
EXTENDS SessionRenewal, TLC

RequestSymmetry == Permutations(Requests)

\* Two tabs where everything that may fail does: with rotation, and without it on
\* an allowlist that may be unreadable.
Deployments ==
    {[rotation |-> TRUE, faults |-> TRUE, unreadable |-> FALSE, tabs |-> 2],
     [rotation |-> FALSE, faults |-> TRUE, unreadable |-> TRUE, tabs |-> 2]}
=============================================================================
