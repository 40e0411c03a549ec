-------------------------------- MODULE MCSse --------------------------------
(* Instances of Sse for TLC. *)
EXTENDS Sse

=============================================================================
