----------------------------- MODULE ByteStream -----------------------------
(***************************************************************************)
(* What one direction of a connection promises its reader: the bytes that  *)
(* arrive, in order, each once, and then the end.  The end comes after the *)
(* last byte that arrived, unless the stream was cut from this side, and   *)
(* nothing is delivered after it.                                          *)
(***************************************************************************)
EXTENDS Integers, Sequences

VARIABLES
  arrived,    \* how many bytes have come from the peer
  delivered,  \* the intervals of them that were handed out
  cut,        \* this side has ended the stream
  ended       \* there will be no more bytes

vars == <<arrived, delivered, cut, ended>>

Count(d) == IF d = <<>> THEN 0 ELSE d[Len(d)].hi

Init ==
  /\ arrived = 0
  /\ delivered = <<>>
  /\ cut = FALSE
  /\ ended = FALSE

Arrive ==
  /\ ~ended
  /\ arrived' \in Nat /\ arrived' > arrived
  /\ UNCHANGED <<delivered, cut, ended>>

\* The end may be decided with the last bytes that are handed out.
Complete(d) == cut \/ Count(d) = arrived

Deliver ==
  /\ ~ended
  /\ Len(delivered') = Len(delivered) + 1
  /\ delivered' = Append(delivered, delivered'[Len(delivered')])
  /\ delivered'[Len(delivered')].lo = Count(delivered) + 1
  /\ delivered'[Len(delivered')].hi \in Count(delivered) + 1 .. arrived
  /\ ended' \in BOOLEAN
  /\ ended' => Complete(delivered')
  /\ UNCHANGED <<arrived, cut>>

Cut ==
  /\ ~cut
  /\ cut' = TRUE
  /\ UNCHANGED <<arrived, delivered, ended>>

Finish ==
  /\ ~ended
  /\ Complete(delivered)
  /\ ended' = TRUE
  /\ UNCHANGED <<arrived, delivered, cut>>

Next == Arrive \/ Deliver \/ Cut \/ Finish

Spec == Init /\ [][Next]_vars
=============================================================================
