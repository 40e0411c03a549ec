-------------------------------- MODULE MCMux --------------------------------
(* Instances of Mux for TLC. *)
EXTENDS Mux

CONSTANTS p1, p2

\* Open is called for the peers of cs, and the troubles of ks happen at most once.
Scenario(cs, ks) == [calls |-> cs, limit |-> [k \in Kinds |-> IF k \in ks THEN 1 ELSE 0]]

\* One peer: pairs of troubles that can meet.
OnePeer ==
  {Scenario(<<p1>>, ks) :
     ks \in {{"cut", "take"}, {"cut", "post"}, {"cut", "again"}, {"drop", "take"}, {"drop", "grace"},
             {"close", "cut"}, {"close", "drop"}, {"close", "post"}, {"down", "post"}}}

\* One peer, whose second connection is opened when the first is closed.
Reopened == {Scenario(<<p1, p1>>, ks) : ks \in {{"grace"}, {"take"}}}

\* Two peers on one stream.
Shared == {Scenario(<<p1, p2>>, {"deny"})}

MCScenarios == OnePeer \cup Reopened \cup Shared
=============================================================================
