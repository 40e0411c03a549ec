------------------------------ MODULE MCSession ------------------------------
(* Instances of Session for TLC. *)
EXTENDS Session

Setting(found, attempts, keepAlive) ==
  [found |-> found, reconnect |-> TRUE, attempts |-> attempts, keepAlive |-> keepAlive,
   generations |-> attempts]

\* Only the offerer ever has to wait for the peer's description: the candidates
\* that can come too early are the answerer's.
Early == [x \in Ends |-> IF x = Answerer THEN {1, 2, End} ELSE {}]

NoCandidates == [x \in Ends |-> {}]

\* Candidates that come early and too many; and two restarts under way at once,
\* so that one restart, or the answer to it, overtakes the other.
MCSettings == {Setting(Early, 1, TRUE), Setting(NoCandidates, 2, FALSE)}

\* For the questions that candidates and keepalive do not bear on.
MCPlain == {Setting(NoCandidates, 1, FALSE)}
=============================================================================
