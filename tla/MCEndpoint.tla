----------------------------- MODULE MCEndpoint -----------------------------
(* Instances of Endpoint for TLC. *)
EXTENDS Endpoint, TLC

\* Offers are interchangeable, and so are calls of Dial and of AcceptConn.
Symmetry == Permutations(In) \cup Permutations(Out) \cup Permutations(Accepters)
=============================================================================
