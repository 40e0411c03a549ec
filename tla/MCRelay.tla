------------------------------- MODULE MCRelay -------------------------------
(* Instances of Relay for TLC. *)
EXTENDS Relay

Name(who, expiry, suffix) == [who |-> who, expiry |-> expiry, suffix |-> suffix]

Static  == Name("alice", FALSE, "")
Issued  == Name("alice", TRUE, "")
OnPlan  == Name("bob", TRUE, "paid")
MCNames == {Static, Issued, OnPlan}

Plan(rate, max) == [rate |-> rate, burst |-> 0, delay |-> 0, max |-> max]

\* A server for static users and ephemeral ones, who share IDs.
Plain == [minPort |-> 0, maxPort |-> 0, plans |-> ("paid" :> Plan(1, 2)),
          default |-> Plan(2, 1), users |-> (Static :> ""), planFor |-> <<>>,
          secret |-> TRUE, tcp |-> TRUE, wildcard |-> FALSE, relayIP |-> "none"]

MCConfigs ==
  {Plain,
   [Plain EXCEPT !.tcp = FALSE],
   [Plain EXCEPT !.tcp = FALSE, !.wildcard = TRUE],
   [Plain EXCEPT !.tcp = FALSE, !.relayIP = "unspecified"],
   [Plain EXCEPT !.minPort = 2, !.maxPort = 1],
   [Plain EXCEPT !.secret = FALSE, !.users = (Static :> "paid")],
   [Plain EXCEPT !.default = Plan(0, 0), !.planFor = [i \in MCNames \cup {Strip(n) : n \in MCNames} |-> "none"]]}

\* Many requests without traffic, or one request and traffic.
MCLoads == {[requests |-> 4, packets |-> 0], [requests |-> 1, packets |-> 4]}
=============================================================================
