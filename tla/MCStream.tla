------------------------------ MODULE MCStream ------------------------------
(* Instances of Stream, and of the codec of its frames, for TLC. *)
EXTENDS Wire, TLC

\* Calls of one kind are interchangeable: no definition tells them apart.
Symmetry == Permutations(Readers) \cup Permutations(Writers) \cup
            Permutations(Pingers) \cup Permutations(Closers)

\* Payloads around the sizes at which the codec decides: nothing, a close code, a
\* nonce, and one byte less and more.
MCPayloads == {[i \in 1 .. n |-> i] : n \in {0, 1, 2, 7, 8, 9, 10}}

\* A character of each width.
MCRunes == {<<65>>, <<195, 169>>, <<226, 130, 172>>, <<240, 159, 152, 128>>}
=============================================================================
