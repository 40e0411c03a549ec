----------------------------- MODULE RelayProofs -----------------------------
(***************************************************************************)
(* What TLAPS proves of Relay, for any configurations, names and handlers, *)
(* any number of relay sockets and any load.                               *)
(***************************************************************************)
EXTENDS Relay, FiniteSetTheorems, FunctionTheorems, TLAPS

(* Types.  The record of a relay socket is described in full; TypeOK is    *)
(* about the parts of it that the rest depends on.                         *)

Plans == [rate : Int, burst : Int, delay : Int, max : Int]

Flows == [{"in", "out"} -> [Times -> Nat]]

SocketStates == {"none", "new", "live", "deleting", "gone"}

RelaySockets ==
  [pc : SocketStates, id : IDs \cup {<<>>}, inbound : Limiters, outbound : Limiters,
   held : {<<>>} \cup [size : 1 .. MinBurst, due : Int], passed : {<<>>} \cup Flows]

HandlerStates == [pc : {"idle", "quota", "socket", "created", "counting"},
                  name : Names \cup {<<>>}, alloc : Allocs \cup {0}]

Types ==
  /\ cfg \in Configs
  /\ server \in [pc : {"check", "udp", "bound", "address", "tcp", "server", "serving", "failed", "closed"},
                 open : SUBSET {"udp", "tcp"}]
  /\ hand \in [Handlers -> HandlerStates]
  /\ alloc \in [Allocs -> RelaySockets]
  /\ \A a \in Allocs : alloc[a].pc \in {"new", "live"} => alloc[a].passed \in Flows
  /\ \A a \in Allocs : alloc[a].pc \in {"new", "live", "deleting"} => alloc[a].id \in IDs
  /\ count \in [active : Nat, user : [IDs -> [active : Nat, rejected : Nat]]]
  /\ now \in Times
  /\ load \in [requests : Nat, packets : Nat]

\* The listeners that Start holds at each of its steps.
Listeners ==
  /\ server.pc \in {"check", "udp", "failed", "closed"} => server.open = {}
  /\ server.pc \in {"bound", "address", "tcp"} => server.open = {"udp"}

(* Requests.  The handler that has made a socket is the only one to know   *)
(* it until the socket is counted, and the user that the quota was checked *)
(* for is the user that the socket is counted for.                         *)

Busy(h)   == hand[h].pc \in {"socket", "created", "counting"}
Making(h) == hand[h].pc \in {"created", "counting"}

Authenticated ==
  \A h \in Handlers : hand[h].pc # "idle" =>
    hand[h].name \in Names /\ AuthHandler(hand[h].name) # {}

SocketMade ==
  \A h \in Handlers : Making(h) =>
    /\ hand[h].alloc \in Allocs
    /\ alloc[hand[h].alloc].pc = "new"
    /\ alloc[hand[h].alloc].id = userIDOf(hand[h].name)

SocketOwned ==
  /\ \A h, k \in Handlers : Making(h) /\ Making(k) /\ hand[h].alloc = hand[k].alloc => h = k
  /\ \A a \in Allocs : alloc[a].pc = "new" => \E h \in Handlers : Making(h) /\ hand[h].alloc = a

\* The UDP listener has one handler for all.
OneByOne ==
  ~cfg.tcp => \A h, k \in Handlers : hand[h].pc # "idle" /\ hand[k].pc # "idle" => h = k

Requests == Authenticated /\ SocketMade /\ SocketOwned /\ OneByOne

(* Counters.  A user's counter is the number of its sockets that are       *)
(* counted and not yet discounted; the server's is changed one step before *)
(* the user's.                                                             *)

Counted(id) == {a \in Allocs : alloc[a].pc \in {"live", "deleting"} /\ alloc[a].id = id}
Live        == {a \in Allocs : alloc[a].pc = "live"}
Counting    == {h \in Handlers : hand[h].pc = "counting"}

Counters ==
  /\ count.active = Cardinality(Live) + Cardinality(Counting)
  /\ \A id \in IDs : count.user[id].active = Cardinality(Counted(id))

\* The requests of a user that have passed the check of the quota and are not
\* counted yet; each may become one socket more.
Passed(id) == {h \in Handlers : Busy(h) /\ userIDOf(hand[h].name) = id}

Beyond == IF cfg.tcp THEN Cardinality(Handlers) - 1 ELSE 0

Quotas ==
  \A id \in IDs : plan(id).max > 0 =>
    Cardinality(Counted(id)) + Cardinality(Passed(id)) <= plan(id).max + Beyond

RelayInv == Types /\ Listeners /\ Requests /\ Counters /\ Quotas

-----------------------------------------------------------------------------
(* Facts about the configuration and about the bucket.                     *)

LEMMA PlanType ==
  ASSUME cfg \in Configs, NEW id
  PROVE  plan(id) \in Plans
  BY RelayAssumption DEF plan, Plans

LEMMA MinType ==
  ASSUME NEW a \in Int, NEW b \in Int
  PROVE  Min({a, b}) \in Int
<1>1. \E x \in {a, b} : \A y \in {a, b} : x <= y
  OBVIOUS
<1>2. QED
  BY <1>1 DEF Min

LEMMA MaxType ==
  ASSUME NEW a \in Int, NEW b \in Int
  PROVE  Max({a, b}) \in Int
<1>1. \E x \in {a, b} : \A y \in {a, b} : x >= y
  OBVIOUS
<1>2. QED
  BY <1>1 DEF Max

LEMMA BurstType ==
  ASSUME NEW p \in Plans
  PROVE  burstFor(p) \in Int
<1>1. p.burst \in Int /\ p.rate \in Int /\ MinBurst \in Int /\ p.rate \div 10 \in Int
  BY RelayAssumption DEF Plans
<1>2. QED
  BY <1>1, MaxType DEF burstFor

LEMMA TokensType ==
  ASSUME NEW p \in Plans, NEW l \in Limiters, now \in Times
  PROVE  Tokens(l, p) \in Int
<1>1. l.tokens \in Int /\ l.last \in Int /\ now \in Int /\ p.rate \in Int
  BY RelayAssumption DEF Limiters, Times, Plans
<1>2. p.rate * (now - l.last) \in Int
  BY <1>1
<1>3. QED
  BY <1>1, <1>2, BurstType, MinType DEF Tokens

\* A relay socket of a user is counted for the user that the quota was checked
\* for.
LEMMA SameUser ==
  ASSUME NEW n \in Names, AuthHandler(n) # {}
  PROVE  AuthHandler(n) = {userIDOf(n)} /\ userIDOf(n) \in IDs
  BY DEF AuthHandler, userIDOf, IDs

LEMMA PlanFixed ==
  ASSUME cfg' = cfg
  PROVE  Beyond' = Beyond /\ \A id \in IDs : plan(id)' = plan(id)
  BY DEF Beyond, plan, planName

LEMMA AllocsFinite ==
  /\ IsFiniteSet(Allocs)
  /\ \A S \in SUBSET Allocs : IsFiniteSet(S) /\ Cardinality(S) \in Nat
  /\ \A S \in SUBSET Handlers : IsFiniteSet(S) /\ Cardinality(S) \in Nat
<1>1. IsFiniteSet(Allocs)
  BY RelayAssumption, FS_Interval DEF Allocs
<1>2. \A S \in SUBSET Allocs : IsFiniteSet(S)
  BY <1>1, FS_Subset
<1>3. \A S \in SUBSET Handlers : IsFiniteSet(S)
  BY RelayAssumption, FS_Subset
<1>4. QED
  BY <1>1, <1>2, <1>3, FS_CardinalityType

LEMMA BeyondType == Beyond \in Nat
<1>1. Cardinality(Handlers) \in Nat /\ Cardinality(Handlers) # 0
  BY RelayAssumption, FS_CardinalityType, FS_EmptySet
<1>2. QED
  BY <1>1 DEF Beyond

-----------------------------------------------------------------------------
(* Steps that leave the handlers, the counters and the state of every      *)
(* relay socket alone: Start, Close, traffic and the clock.                *)

LEMMA KeepsRest ==
  ASSUME Requests, Counters, Quotas, cfg' = cfg, hand' = hand, count' = count,
         \A a \in Allocs : alloc'[a].pc = alloc[a].pc /\ alloc'[a].id = alloc[a].id
  PROVE  Requests' /\ Counters' /\ Quotas'
<1>1. Requests'
  <2>1. Authenticated' /\ OneByOne'
    BY DEF Requests, Authenticated, OneByOne, AuthHandler
  <2>2. SocketMade'
    BY DEF Requests, SocketMade, Making, userIDOf
  <2>3. SocketOwned'
    BY DEF Requests, SocketOwned, Making
  <2>4. QED
    BY <2>1, <2>2, <2>3 DEF Requests
<1>2. Live' = Live /\ Counting' = Counting
  BY DEF Live, Counting
<1>3. ASSUME NEW id \in IDs PROVE Counted(id)' = Counted(id) /\ Passed(id)' = Passed(id)
  BY DEF Counted, Passed, Busy, userIDOf
<1>4. Counters'
  BY <1>2, <1>3 DEF Counters
<1>5. Quotas'
  BY <1>3, PlanFixed DEF Quotas
<1>6. QED
  BY <1>1, <1>4, <1>5

LEMMA ServerStep ==
  ASSUME RelayInv, Start \/ Close
  PROVE  RelayInv'
<1>1. UNCHANGED <<cfg, hand, alloc, count, now, load>>
  BY DEF Start, Close, CheckConfig, ListenUDP, LocalAddr, RelayAddress, ListenTCP, NewServer, StartTo
<1>2. Requests' /\ Counters' /\ Quotas'
  BY <1>1, KeepsRest DEF RelayInv
<1>3. server.open \subseteq {"udp", "tcp"} /\ Listeners
  BY DEF RelayInv, Types
<1>4. PICK pc \in {"udp", "bound", "address", "tcp", "server", "serving", "failed", "closed"},
           open \in SUBSET {"udp", "tcp"} :
        /\ server' = [pc |-> pc, open |-> open]
        /\ pc \in {"udp", "failed", "closed"} => open = {}
        /\ pc \in {"bound", "address", "tcp"} => open = {"udp"}
  <2>1. CASE CheckConfig \/ ListenUDP \/ Close
    BY <2>1 DEF CheckConfig, ListenUDP, Close, StartTo
  <2>2. CASE LocalAddr \/ RelayAddress
    BY <1>3, <2>2 DEF LocalAddr, RelayAddress, StartTo, Listeners
  <2>3. CASE ListenTCP
    BY <1>3, <2>3 DEF ListenTCP, StartTo, Listeners
  <2>4. CASE NewServer
    BY <1>3, <2>4 DEF NewServer, StartTo
  <2>5. QED
    BY <2>1, <2>2, <2>3, <2>4 DEF Start
<1>5. Listeners'
  BY <1>4 DEF Listeners
<1>6. Types'
  BY <1>1, <1>4 DEF RelayInv, Types
<1>7. QED
  BY <1>2, <1>5, <1>6 DEF RelayInv

\* What a packet makes of the socket it passes.
LEMMA PassesType ==
  ASSUME now \in Times, NEW r \in RelaySockets, r.passed \in Flows,
         NEW d \in {"in", "out"}, NEW n \in 1 .. MinBurst
  PROVE  /\ Passes(r, d, n) \in RelaySockets /\ Passes(r, d, n).passed \in Flows
         /\ Passes(r, d, n).pc = r.pc /\ Passes(r, d, n).id = r.id
<1>1. n \in Nat
  BY RelayAssumption
<1>2. PICK f \in [Times -> Nat] :
        f = [t \in Times |-> r.passed[d][t] + IF t <= now THEN n ELSE 0]
  <2>1. \A t \in Times : r.passed[d][t] \in Nat
    BY DEF Flows
  <2>2. \A t \in Times : r.passed[d][t] + (IF t <= now THEN n ELSE 0) \in Nat
    BY <1>1, <2>1
  <2>3. QED
    BY <2>2
<1>3. [r.passed EXCEPT ![d] = f] \in Flows
  BY DEF Flows
<1>4. Passes(r, d, n) = [r EXCEPT !.passed = [r.passed EXCEPT ![d] = f]]
  BY <1>2 DEF Passes, RelaySockets
<1>5. QED
  BY <1>3, <1>4 DEF RelaySockets

LEMMA TakenType ==
  ASSUME now \in Times, NEW l \in Limiters, NEW p \in Plans, NEW n \in 1 .. MinBurst
  PROVE  Taken(l, p, n) \in Limiters
<1>1. Tokens(l, p) - n \in Int
  BY TokensType, RelayAssumption
<1>2. QED
  BY <1>1 DEF Taken, Limiters

\* A step that puts record r, of the same state and user, in the place of a live
\* socket's.
LEMMA TrafficKeeps ==
  ASSUME RelayInv, NEW a \in Allocs, alloc[a].pc = "live", NEW r \in RelaySockets,
         r.pc = alloc[a].pc, r.id = alloc[a].id, r.passed \in Flows,
         alloc' = [alloc EXCEPT ![a] = r], load' \in [requests : Nat, packets : Nat],
         UNCHANGED <<cfg, server, hand, count, now>>
  PROVE  RelayInv'
<1>1. /\ alloc' \in [Allocs -> RelaySockets]
      /\ \A b \in Allocs : alloc'[b].pc = alloc[b].pc /\ alloc'[b].id = alloc[b].id
      /\ \A b \in Allocs : alloc'[b].passed \in Flows \/ alloc'[b].passed = alloc[b].passed
  BY DEF RelayInv, Types
<1>2. Types'
  BY <1>1 DEF RelayInv, Types
<1>3. Requests' /\ Counters' /\ Quotas'
  BY <1>1, KeepsRest DEF RelayInv
<1>4. QED
  BY <1>2, <1>3 DEF RelayInv, Listeners

LEMMA LoadStep ==
  ASSUME Types, load.packets > 0, load' = [load EXCEPT !.packets = @ - 1]
  PROVE  load' \in [requests : Nat, packets : Nat]
  BY DEF Types

LEMMA WriteToStep ==
  ASSUME RelayInv, NEW a \in Allocs, WriteTo(a)
  PROVE  RelayInv'
<1> DEFINE p == plan(alloc[a].id)
<1>1. PICK n \in 1 .. MinBurst :
        /\ Packet(a, n)
        /\ alloc' = [alloc EXCEPT ![a] =
                IF p.rate <= 0 THEN Passes(alloc[a], "out", n)
                ELSE IF Tokens(alloc[a].outbound, p) < n THEN alloc[a]
                ELSE Passes([alloc[a] EXCEPT !.outbound = Taken(alloc[a].outbound, p, n)], "out", n)]
  BY DEF WriteTo
<1>2. /\ UNCHANGED <<cfg, server, hand, count, now>> /\ load' \in [requests : Nat, packets : Nat]
      /\ alloc[a].pc = "live" /\ alloc[a] \in RelaySockets /\ alloc[a].passed \in Flows
      /\ now \in Times /\ p \in Plans /\ alloc[a].outbound \in Limiters
  BY <1>1, LoadStep, PlanType DEF WriteTo, Packet, RelayInv, Types, RelaySockets
<1> HIDE DEF p
<1> DEFINE o == [alloc[a] EXCEPT !.outbound = Taken(alloc[a].outbound, p, n)]
<1>3. Taken(alloc[a].outbound, p, n) \in Limiters
  BY <1>2, TakenType
<1>4. o \in RelaySockets /\ o.pc = "live" /\ o.id = alloc[a].id /\ o.passed \in Flows
  BY <1>2, <1>3 DEF RelaySockets
<1>5. \E r \in RelaySockets : /\ r.pc = "live" /\ r.id = alloc[a].id /\ r.passed \in Flows
                              /\ alloc' = [alloc EXCEPT ![a] = r]
  <2>1. CASE alloc' = [alloc EXCEPT ![a] = Passes(alloc[a], "out", n)]
    BY <1>2, <2>1, PassesType
  <2>2. CASE alloc' = [alloc EXCEPT ![a] = alloc[a]]
    BY <1>2, <2>2
  <2>3. CASE alloc' = [alloc EXCEPT ![a] = Passes(o, "out", n)]
    <3> HIDE DEF o
    <3>1. QED
      BY <1>2, <1>4, <2>3, PassesType
  <2>4. QED
    <3>1. CASE p.rate <= 0
      BY <1>1, <2>1, <3>1
    <3>2. CASE ~(p.rate <= 0) /\ Tokens(alloc[a].outbound, p) < n
      BY <1>1, <2>2, <3>2
    <3>3. CASE ~(p.rate <= 0) /\ ~(Tokens(alloc[a].outbound, p) < n)
      BY <1>1, <2>3, <3>3
    <3>4. QED
      BY <3>1, <3>2, <3>3
<1>6. QED
  BY <1>2, <1>5, TrafficKeeps

LEMMA ReadFromStep ==
  ASSUME RelayInv, NEW a \in Allocs, ReadFrom(a)
  PROVE  RelayInv'
<1> DEFINE p == plan(alloc[a].id)
           Wait(n) == Delay(alloc[a].inbound, p, n)
<1>1. PICK n \in 1 .. MinBurst :
        /\ Packet(a, n)
        /\ alloc' = [alloc EXCEPT ![a] =
                IF p.rate <= 0 THEN Passes(alloc[a], "in", n)
                ELSE IF n > burstFor(p) \/ Wait(n) > maxDelayFor(p.delay) THEN alloc[a]
                ELSE IF Wait(n) > 0
                THEN [alloc[a] EXCEPT !.inbound = Taken(alloc[a].inbound, p, n),
                                      !.held = [size |-> n, due |-> now + Wait(n)]]
                ELSE Passes([alloc[a] EXCEPT !.inbound = Taken(alloc[a].inbound, p, n)], "in", n)]
  BY DEF ReadFrom
<1>2. /\ UNCHANGED <<cfg, server, hand, count, now>> /\ load' \in [requests : Nat, packets : Nat]
      /\ alloc[a].pc = "live" /\ alloc[a] \in RelaySockets /\ alloc[a].passed \in Flows
      /\ now \in Times /\ p \in Plans /\ alloc[a].inbound \in Limiters
  BY <1>1, LoadStep, PlanType DEF ReadFrom, Packet, RelayInv, Types, RelaySockets
<1> HIDE DEF p
<1>3. Taken(alloc[a].inbound, p, n) \in Limiters
  BY <1>2, TakenType
<1>4. ~(p.rate <= 0) => now + Wait(n) \in Int
  <2> DEFINE debt == n - Tokens(alloc[a].inbound, p)
  <2>1. debt \in Int /\ p.rate \in Int /\ now \in Int
    BY <1>2, TokensType, RelayAssumption DEF Plans, Times
  <2> HIDE DEF debt
  <2>2. ~(p.rate <= 0) => (debt + p.rate - 1) \div p.rate \in Int
    BY <2>1
  <2>3. Wait(n) = IF debt <= 0 THEN 0 ELSE (debt + p.rate - 1) \div p.rate
    BY DEF Delay, debt
  <2> HIDE DEF Wait
  <2>4. QED
    BY <2>1, <2>2, <2>3
<1> DEFINE o == [alloc[a] EXCEPT !.inbound = Taken(alloc[a].inbound, p, n)]
           w == [alloc[a] EXCEPT !.inbound = Taken(alloc[a].inbound, p, n),
                                 !.held = [size |-> n, due |-> now + Wait(n)]]
<1> HIDE DEF Wait
<1>5. o \in RelaySockets /\ o.pc = "live" /\ o.id = alloc[a].id /\ o.passed \in Flows
  BY <1>2, <1>3 DEF RelaySockets
<1>6. ~(p.rate <= 0) =>
        w \in RelaySockets /\ w.pc = "live" /\ w.id = alloc[a].id /\ w.passed \in Flows
  <2> HAVE ~(p.rate <= 0)
  <2>1. w = [o EXCEPT !.held = [size |-> n, due |-> now + Wait(n)]]
    BY <1>2 DEF RelaySockets
  <2>2. [size |-> n, due |-> now + Wait(n)] \in {<<>>} \cup [size : 1 .. MinBurst, due : Int]
    BY <1>4
  <2> HIDE DEF o
  <2>3. QED
    BY <1>5, <2>1, <2>2 DEF RelaySockets
<1>7. \E r \in RelaySockets : /\ r.pc = "live" /\ r.id = alloc[a].id /\ r.passed \in Flows
                              /\ alloc' = [alloc EXCEPT ![a] = r]
  <2>1. CASE alloc' = [alloc EXCEPT ![a] = Passes(alloc[a], "in", n)]
    BY <1>2, <2>1, PassesType
  <2>2. CASE alloc' = [alloc EXCEPT ![a] = alloc[a]]
    BY <1>2, <2>2
  <2>3. CASE ~(p.rate <= 0) /\ alloc' = [alloc EXCEPT ![a] = w]
    <3> HIDE DEF w
    <3>1. QED
      BY <1>6, <2>3
  <2>4. CASE alloc' = [alloc EXCEPT ![a] = Passes(o, "in", n)]
    <3> HIDE DEF o
    <3>1. QED
      BY <1>2, <1>5, <2>4, PassesType
  <2>5. QED
    <3>1. CASE p.rate <= 0
      BY <1>1, <2>1, <3>1
    <3>2. CASE ~(p.rate <= 0) /\ (n > burstFor(p) \/ Wait(n) > maxDelayFor(p.delay))
      BY <1>1, <2>2, <3>2
    <3>3. CASE ~(p.rate <= 0) /\ ~(n > burstFor(p) \/ Wait(n) > maxDelayFor(p.delay)) /\ Wait(n) > 0
      BY <1>1, <2>3, <3>3
    <3>4. CASE ~(p.rate <= 0) /\ ~(n > burstFor(p) \/ Wait(n) > maxDelayFor(p.delay)) /\ ~(Wait(n) > 0)
      BY <1>1, <2>4, <3>4
    <3>5. QED
      BY <3>1, <3>2, <3>3, <3>4
<1>8. QED
  BY <1>2, <1>7, TrafficKeeps

LEMMA ReleaseStep ==
  ASSUME RelayInv, NEW a \in Allocs, Release(a)
  PROVE  RelayInv'
<1> DEFINE o == [alloc[a] EXCEPT !.held = <<>>]
           r == Passes(o, "in", alloc[a].held.size)
<1>1. /\ UNCHANGED <<cfg, server, hand, count, now, load>>
      /\ alloc[a].pc = "live" /\ alloc[a] \in RelaySockets /\ alloc[a].passed \in Flows
      /\ now \in Times /\ load \in [requests : Nat, packets : Nat]
      /\ alloc' = [alloc EXCEPT ![a] = r]
  BY DEF Release, RelayInv, Types
<1>2. alloc[a].held.size \in 1 .. MinBurst
  BY <1>1 DEF Release, RelaySockets
<1>3. o \in RelaySockets /\ o.pc = "live" /\ o.id = alloc[a].id /\ o.passed \in Flows
  BY <1>1 DEF RelaySockets
<1> HIDE DEF o
<1>4. r \in RelaySockets /\ r.pc = "live" /\ r.id = alloc[a].id /\ r.passed \in Flows
  BY <1>1, <1>2, <1>3, PassesType
<1> HIDE DEF r
<1>5. QED
  BY <1>1, <1>4, TrafficKeeps

LEMMA TickStep ==
  ASSUME RelayInv, Tick
  PROVE  RelayInv'
<1>1. UNCHANGED <<cfg, server, hand, alloc, count, load>> /\ now' = now + 1 /\ now < MaxTime
  BY DEF Tick
<1>2. now' \in Times
  BY <1>1, RelayAssumption DEF Times, RelayInv, Types
<1>3. Requests' /\ Counters' /\ Quotas'
  BY <1>1, KeepsRest DEF RelayInv
<1>4. QED
  BY <1>1, <1>2, <1>3 DEF RelayInv, Types, Listeners

-----------------------------------------------------------------------------
(* Handlers.                                                               *)

LEMMA HandlerFacts ==
  ASSUME Types
  PROVE  /\ hand \in [Handlers -> HandlerStates] /\ Unoccupied \in HandlerStates
         /\ Unoccupied.pc = "idle"
  BY DEF Types, Unoccupied, HandlerStates

\* A handler that stops, or that goes from state to state without a socket.  The
\* requests that passed the check may become fewer.
LEMMA HandlerMoves ==
  ASSUME RelayInv, NEW h \in Handlers, ~Making(h), NEW q \in HandlerStates,
         q.pc \in {"idle", "quota", "socket"}, hand' = [hand EXCEPT ![h] = q],
         q.pc # "idle" => q.name \in Names /\ AuthHandler(q.name) # {},
         q.pc # "idle" /\ ~cfg.tcp => \A k \in Handlers \ {h} : hand[k].pc = "idle",
         UNCHANGED <<cfg, alloc>>,
         count'.active = count.active,
         \A id \in IDs : count'.user[id].active = count.user[id].active
  PROVE  Requests' /\ Counters'
<1>1. hand'[h] = q /\ \A k \in Handlers : k # h => hand'[k] = hand[k]
  BY DEF RelayInv, Types
<1>2. \A k \in Handlers : Making(k)' <=> k # h /\ Making(k)
  BY <1>1 DEF Making
<1>3. Authenticated'
  BY <1>1 DEF RelayInv, Requests, Authenticated, AuthHandler
<1>4. SocketMade'
  BY <1>1, <1>2 DEF RelayInv, Requests, SocketMade, userIDOf
<1>5. SocketOwned'
  BY <1>1, <1>2 DEF RelayInv, Requests, SocketOwned
<1>6. OneByOne'
  BY <1>1 DEF RelayInv, Requests, OneByOne
<1>7. Live' = Live /\ Counting' = Counting /\ \A id \in IDs : Counted(id)' = Counted(id)
  BY <1>1 DEF Live, Counting, Counted, Making
<1>8. Counters'
  BY <1>7 DEF RelayInv, Counters
<1>9. QED
  BY <1>3, <1>4, <1>5, <1>6, <1>8 DEF Requests

\* Fewer sockets counted or requests passed keep the quotas.
LEMMA QuotasKept ==
  ASSUME RelayInv, cfg' = cfg,
         \A id \in IDs : Counted(id)' \subseteq Counted(id) /\ Passed(id)' \subseteq Passed(id)
  PROVE  Quotas'
<1> SUFFICES ASSUME NEW id \in IDs, plan(id).max > 0
             PROVE  Cardinality(Counted(id)') + Cardinality(Passed(id)') <= plan(id).max + Beyond
  BY PlanFixed DEF Quotas
<1>1. Counted(id) \in SUBSET Allocs /\ Passed(id) \in SUBSET Handlers
  BY DEF Counted, Passed
<1>2. /\ Cardinality(Counted(id)') <= Cardinality(Counted(id))
      /\ Cardinality(Passed(id)') <= Cardinality(Passed(id))
  BY <1>1, AllocsFinite, FS_Subset
<1>3. /\ Cardinality(Counted(id)) \in Nat /\ Cardinality(Passed(id)) \in Nat
      /\ Cardinality(Counted(id)') \in Nat /\ Cardinality(Passed(id)') \in Nat
  BY <1>1, AllocsFinite
<1>4. Cardinality(Counted(id)) + Cardinality(Passed(id)) <= plan(id).max + Beyond
  BY DEF RelayInv, Quotas
<1>5. plan(id).max \in Int /\ Beyond \in Nat
  BY PlanType, BeyondType DEF RelayInv, Types, Plans
<1>6. QED
  BY <1>2, <1>3, <1>4, <1>5

LEMMA RequestStep ==
  ASSUME RelayInv, NEW h \in Handlers, Request(h)
  PROVE  RelayInv'
<1>1. PICK n \in Names :
        HandlerAt(h, "idle", IF AuthHandler(n) = {} THEN Unoccupied
                             ELSE [pc |-> "quota", name |-> n, alloc |-> 0])
  BY DEF Request
<1> DEFINE q == IF AuthHandler(n) = {} THEN Unoccupied
                ELSE [pc |-> "quota", name |-> n, alloc |-> 0]
<1>2. /\ hand[h].pc = "idle" /\ hand' = [hand EXCEPT ![h] = q] /\ q \in HandlerStates
      /\ q.pc \in {"idle", "quota"}
      /\ q.pc # "idle" => q.name \in Names /\ AuthHandler(q.name) # {}
  BY <1>1, HandlerFacts DEF HandlerAt, RelayInv, HandlerStates
<1> HIDE DEF q
<1>3. /\ UNCHANGED <<cfg, server, alloc, count, now>>
      /\ load' \in [requests : Nat, packets : Nat]
      /\ ~cfg.tcp => \A k \in Handlers \ {h} : hand[k].pc = "idle"
  BY DEF Request, RelayInv, Types
<1>4. Requests' /\ Counters'
  BY <1>2, <1>3, HandlerMoves DEF Making
<1>5. Types'
  BY <1>2, <1>3 DEF RelayInv, Types
<1>6. hand'[h] = q /\ \A k \in Handlers : k # h => hand'[k] = hand[k]
  BY <1>2, HandlerFacts DEF RelayInv
<1>7. \A id \in IDs : Counted(id)' \subseteq Counted(id) /\ Passed(id)' \subseteq Passed(id)
  BY <1>2, <1>3, <1>6 DEF Counted, Passed, Busy, userIDOf
<1>8. Quotas'
  BY <1>3, <1>7, QuotasKept
<1>9. QED
  BY <1>3, <1>4, <1>5, <1>8 DEF RelayInv, Listeners

LEMMA QuotaRefused ==
  ASSUME RelayInv, NEW h \in Handlers, HandlerAt(h, "quota", Unoccupied),
         count' = [count EXCEPT !.user[userIDOf(hand[h].name)].rejected = @ + 1],
         UNCHANGED <<cfg, server, alloc, now, load>>
  PROVE  RelayInv'
<1>1. hand[h].pc = "quota" /\ hand' = [hand EXCEPT ![h] = Unoccupied]
  BY DEF HandlerAt
<1>2. hand'[h] = Unoccupied /\ \A k \in Handlers : k # h => hand'[k] = hand[k]
  BY <1>1, HandlerFacts DEF RelayInv
<1>3. /\ count' \in [active : Nat, user : [IDs -> [active : Nat, rejected : Nat]]]
      /\ count'.active = count.active
      /\ \A id \in IDs : count'.user[id].active = count.user[id].active
  BY SMTT(30) DEF RelayInv, Types
<1>4. Requests' /\ Counters'
  BY <1>1, <1>3, HandlerFacts, HandlerMoves DEF Making, RelayInv
<1>5. Types'
  BY <1>1, <1>3, HandlerFacts DEF RelayInv, Types
<1>6. \A id \in IDs : Counted(id)' \subseteq Counted(id) /\ Passed(id)' \subseteq Passed(id)
  BY <1>1, <1>2, HandlerFacts DEF Counted, Passed, Busy, userIDOf, RelayInv
<1>7. Quotas'
  BY <1>6, QuotasKept
<1>8. QED
  BY <1>4, <1>5, <1>7 DEF RelayInv, Listeners

\* The request that passes the check is the one that may exceed the quota.  What
\* is counted is below the quota, and at most every handler has passed; without
\* TCP, only this one.
LEMMA QuotaPassed ==
  ASSUME RelayInv, NEW h \in Handlers, HandlerAt(h, "quota", [hand[h] EXCEPT !.pc = "socket"]),
         WithinQuota(userIDOf(hand[h].name)),
         UNCHANGED <<cfg, server, alloc, now, load, count>>
  PROVE  RelayInv'
<1> DEFINE q == [hand[h] EXCEPT !.pc = "socket"]
<1>1. hand[h].pc = "quota" /\ hand' = [hand EXCEPT ![h] = q]
  BY DEF HandlerAt
<1>2. /\ q \in HandlerStates /\ q.pc = "socket" /\ q.name = hand[h].name
      /\ hand'[h] = q /\ \A k \in Handlers : k # h => hand'[k] = hand[k]
  BY <1>1, HandlerFacts DEF RelayInv, HandlerStates
<1>3. hand[h].name \in Names /\ AuthHandler(hand[h].name) # {}
  BY <1>1 DEF RelayInv, Requests, Authenticated
<1>4. ~cfg.tcp => \A k \in Handlers \ {h} : hand[k].pc = "idle"
  BY <1>1 DEF RelayInv, Requests, OneByOne
<1> HIDE DEF q
<1>5. Requests' /\ Counters'
  BY <1>1, <1>2, <1>3, <1>4, HandlerMoves DEF Making
<1>6. Types'
  BY <1>1, <1>2 DEF RelayInv, Types
<1>7. \A id \in IDs : Counted(id)' = Counted(id)
  BY DEF Counted
<1>8. Quotas'
  <2> SUFFICES ASSUME NEW id \in IDs, plan(id).max > 0
               PROVE  Cardinality(Counted(id)) + Cardinality(Passed(id)') <= plan(id).max + Beyond
    BY <1>7, PlanFixed DEF Quotas
  <2>0. plan(id).max \in Int /\ Beyond \in Nat
    BY PlanType, BeyondType DEF RelayInv, Types, Plans
  <2>1. Counted(id) \in SUBSET Allocs /\ Passed(id) \in SUBSET Handlers
        /\ Passed(id)' \in SUBSET Handlers
    BY DEF Counted, Passed
  <2>2. /\ Cardinality(Counted(id)) \in Nat /\ Cardinality(Passed(id)) \in Nat
        /\ Cardinality(Passed(id)') \in Nat
    BY <2>1, AllocsFinite
  <2>3. CASE id # userIDOf(hand[h].name)
    <3>1. Passed(id)' = Passed(id)
      BY <1>1, <1>2, <2>3 DEF Passed, Busy, userIDOf
    <3>2. QED
      BY <3>1 DEF RelayInv, Quotas
  <2>4. CASE id = userIDOf(hand[h].name)
    <3>1. Cardinality(Counted(id)) < plan(id).max
      BY <2>0, <2>2, <2>4 DEF WithinQuota, RelayInv, Counters
    <3>2. Cardinality(Passed(id)') <= Beyond + 1
      <4>1. CASE cfg.tcp
        <5>1. Cardinality(Passed(id)') <= Cardinality(Handlers) /\ Cardinality(Handlers) \in Nat
          BY <2>1, RelayAssumption, FS_Subset, FS_CardinalityType
        <5>2. QED
          BY <2>2, <4>1, <5>1 DEF Beyond
      <4>2. CASE ~cfg.tcp
        <5>1. Passed(id)' \subseteq {h}
          BY <1>2, <1>4, <4>2 DEF Passed, Busy
        <5>2. Cardinality({h}) = 1 /\ IsFiniteSet({h})
          BY FS_Singleton
        <5>3. Cardinality(Passed(id)') <= 1
          BY <5>1, <5>2, FS_Subset
        <5>4. QED
          BY <2>0, <2>2, <5>3
      <4>3. QED
        BY <4>1, <4>2
    <3>3. QED
      BY <2>0, <2>2, <3>1, <3>2
  <2>5. QED
    BY <2>3, <2>4
<1>9. QED
  BY <1>5, <1>6, <1>8 DEF RelayInv, Listeners

LEMMA QuotaStep ==
  ASSUME RelayInv, NEW h \in Handlers, Quota(h)
  PROVE  RelayInv'
  BY QuotaPassed, QuotaRefused DEF Quota

LEMMA NoSocketStep ==
  ASSUME RelayInv, NEW h \in Handlers, HandlerAt(h, "socket", Unoccupied),
         UNCHANGED <<cfg, server, alloc, count, now, load>>
  PROVE  RelayInv'
<1>1. hand[h].pc = "socket" /\ hand' = [hand EXCEPT ![h] = Unoccupied]
  BY DEF HandlerAt
<1>2. hand'[h] = Unoccupied /\ \A k \in Handlers : k # h => hand'[k] = hand[k]
  BY <1>1, HandlerFacts DEF RelayInv
<1>3. Requests' /\ Counters'
  BY <1>1, HandlerFacts, HandlerMoves DEF Making, RelayInv
<1>4. Types'
  BY <1>1, HandlerFacts DEF RelayInv, Types
<1>5. \A id \in IDs : Counted(id)' \subseteq Counted(id) /\ Passed(id)' \subseteq Passed(id)
  BY <1>1, <1>2, HandlerFacts DEF Counted, Passed, Busy, userIDOf, RelayInv
<1>6. Quotas'
  BY <1>5, QuotasKept
<1>7. QED
  BY <1>3, <1>4, <1>6 DEF RelayInv, Listeners

\* The new socket is the handler's alone.
LEMMA SocketStep ==
  ASSUME RelayInv, NEW h \in Handlers, NEW a \in Allocs,
         HandlerAt(h, "socket", [hand[h] EXCEPT !.pc = "created", !.alloc = a]),
         alloc[a].pc = "none", NEW r \in RelaySockets, r.pc = "new",
         r.id \in AuthHandler(hand[h].name), r.passed \in Flows,
         alloc' = [alloc EXCEPT ![a] = r], UNCHANGED <<cfg, server, count, now, load>>
  PROVE  RelayInv'
<1> DEFINE q == [hand[h] EXCEPT !.pc = "created", !.alloc = a]
<1>1. hand[h].pc = "socket" /\ hand' = [hand EXCEPT ![h] = q]
  BY DEF HandlerAt
<1>2. /\ q \in HandlerStates /\ q.pc = "created" /\ q.name = hand[h].name /\ q.alloc = a
      /\ hand'[h] = q /\ \A k \in Handlers : k # h => hand'[k] = hand[k]
  BY <1>1, HandlerFacts DEF RelayInv, HandlerStates
<1> HIDE DEF q
<1>3. hand[h].name \in Names /\ r.id = userIDOf(hand[h].name) /\ r.id \in IDs
  BY <1>1, SameUser DEF RelayInv, Requests, Authenticated
<1>4. alloc'[a] = r /\ \A b \in Allocs : b # a => alloc'[b] = alloc[b]
  BY DEF RelayInv, Types
<1>5. Types'
  BY <1>1, <1>2, <1>3, <1>4 DEF RelayInv, Types
<1>6. \A k \in Handlers : Making(k)' <=> k = h \/ Making(k)
  BY <1>2 DEF Making
<1>7. \A k \in Handlers : Making(k) => k # h /\ hand[k].alloc # a /\ hand[k].alloc \in Allocs
  BY <1>1 DEF Making, RelayInv, Requests, SocketMade
<1>8. Requests'
  <2>1. Authenticated'
    BY <1>1, <1>2 DEF RelayInv, Requests, Authenticated, AuthHandler
  <2>2. SocketMade'
    <3>1. SocketMade
      BY DEF RelayInv, Requests
    <3> SUFFICES ASSUME NEW k \in Handlers, Making(k)'
                 PROVE  /\ hand'[k].alloc \in Allocs
                        /\ alloc'[hand'[k].alloc].pc = "new"
                        /\ alloc'[hand'[k].alloc].id = userIDOf(hand'[k].name)
      BY DEF SocketMade, userIDOf
    <3>2. CASE k = h
      BY <1>2, <1>3, <1>4, <3>2
    <3>3. CASE k # h
      <4>1. hand'[k] = hand[k] /\ Making(k) /\ hand[k].alloc \in Allocs /\ hand[k].alloc # a
        BY <1>2, <1>6, <1>7, <3>3
      <4>2. alloc'[hand[k].alloc] = alloc[hand[k].alloc]
        BY <1>4, <4>1
      <4>3. QED
        BY <3>1, <4>1, <4>2 DEF SocketMade
    <3>4. QED
      BY <3>2, <3>3
  <2>3. SocketOwned'
    BY <1>2, <1>4, <1>6, <1>7 DEF RelayInv, Requests, SocketOwned
  <2>4. OneByOne'
    BY <1>1, <1>2 DEF RelayInv, Requests, OneByOne
  <2>5. QED
    BY <2>1, <2>2, <2>3, <2>4 DEF Requests
<1>9. Live' = Live /\ Counting' = Counting /\ \A id \in IDs : Counted(id)' = Counted(id)
  BY <1>1, <1>2, <1>4 DEF Live, Counting, Counted
<1>10. \A id \in IDs : Passed(id)' = Passed(id)
  BY <1>1, <1>2 DEF Passed, Busy, userIDOf
<1>11. Counters' /\ Quotas'
  BY <1>9, <1>10, QuotasKept DEF RelayInv, Counters
<1>12. QED
  BY <1>5, <1>8, <1>11 DEF RelayInv, Listeners

LEMMA AllocatePacketConnStep ==
  ASSUME RelayInv, NEW h \in Handlers, AllocatePacketConn(h)
  PROVE  RelayInv'
<1>0. UNCHANGED <<cfg, server, count, now, load>> /\ now \in Times /\ cfg \in Configs
  BY DEF AllocatePacketConn, RelayInv, Types
<1>1. CASE HandlerAt(h, "socket", Unoccupied) /\ UNCHANGED alloc
  BY <1>0, <1>1, NoSocketStep
<1>2. ASSUME NEW a \in Allocs,
             HandlerAt(h, "socket", [hand[h] EXCEPT !.pc = "created", !.alloc = a]),
             alloc[a].pc = "none", NEW id \in AuthHandler(hand[h].name),
             LET full == [tokens |-> burstFor(plan(id)), last |-> now]
             IN  alloc' = [alloc EXCEPT ![a] =
                     [pc |-> "new", id |-> id, inbound |-> full, outbound |-> full, held |-> <<>>,
                      passed |-> [d \in {"in", "out"} |-> [t \in Times |-> 0]]]]
      PROVE  RelayInv'
  <2> DEFINE full == [tokens |-> burstFor(plan(id)), last |-> now]
             flow == [d \in {"in", "out"} |-> [t \in Times |-> 0]]
             r == [pc |-> "new", id |-> id, inbound |-> full, outbound |-> full, held |-> <<>>,
                   passed |-> flow]
  <2>1. full \in Limiters
    BY <1>0, PlanType, BurstType DEF Limiters
  <2>2. flow \in Flows
    BY DEF Flows
  <2>3. hand[h].name \in Names /\ AuthHandler(hand[h].name) # {}
    BY <1>2 DEF RelayInv, Requests, Authenticated, HandlerAt
  <2>4. id \in IDs
    BY <2>3, SameUser
  <2>5. alloc' = [alloc EXCEPT ![a] = r]
    BY <1>2
  <2> HIDE DEF full, flow
  <2>6. r \in RelaySockets /\ r.pc = "new" /\ r.id = id /\ r.passed \in Flows
    BY <2>1, <2>2, <2>4 DEF RelaySockets, SocketStates
  <2> HIDE DEF r
  <2>7. QED
    BY <1>0, <1>2, <2>5, <2>6, SocketStep
<1>3. QED
  BY <1>1, <1>2 DEF AllocatePacketConn

LEMMA CreatedStep ==
  ASSUME RelayInv, NEW h \in Handlers, Created(h)
  PROVE  RelayInv'
<1> DEFINE q == [hand[h] EXCEPT !.pc = "counting"]
<1>1. /\ hand[h].pc = "created" /\ hand' = [hand EXCEPT ![h] = q]
      /\ count' = [count EXCEPT !.active = @ + 1]
      /\ UNCHANGED <<cfg, server, alloc, now, load>>
  BY DEF Created, HandlerAt
<1>2. /\ q \in HandlerStates /\ q.pc = "counting" /\ q.name = hand[h].name
      /\ q.alloc = hand[h].alloc
      /\ hand'[h] = q /\ \A k \in Handlers : k # h => hand'[k] = hand[k]
  BY <1>1, HandlerFacts DEF RelayInv, HandlerStates
<1> HIDE DEF q
<1>3. /\ count' \in [active : Nat, user : [IDs -> [active : Nat, rejected : Nat]]]
      /\ count'.active = count.active + 1 /\ count'.user = count.user
  BY <1>1 DEF RelayInv, Types
<1>4. Types'
  BY <1>1, <1>2, <1>3 DEF RelayInv, Types
<1>5. \A k \in Handlers : /\ Making(k)' <=> Making(k)
                          /\ hand'[k].name = hand[k].name /\ hand'[k].alloc = hand[k].alloc
                          /\ hand'[k].pc # "idle" <=> hand[k].pc # "idle"
                          /\ Busy(k)' <=> Busy(k)
  BY <1>1, <1>2 DEF Making, Busy
<1>6. Requests'
  <2>1. Authenticated' /\ OneByOne'
    BY <1>1, <1>5 DEF RelayInv, Requests, Authenticated, OneByOne, AuthHandler
  <2>2. SocketMade'
    BY <1>1, <1>5 DEF RelayInv, Requests, SocketMade, userIDOf
  <2>3. SocketOwned'
    BY <1>1, <1>5 DEF RelayInv, Requests, SocketOwned
  <2>4. QED
    BY <2>1, <2>2, <2>3 DEF Requests
<1>7. Live' = Live /\ \A id \in IDs : Counted(id)' = Counted(id)
  BY <1>1 DEF Live, Counted
<1>8. \A id \in IDs : Passed(id)' = Passed(id)
  BY <1>1, <1>5 DEF Passed, userIDOf
<1>9. Counters'
  <2>1. Counting' = Counting \cup {h} /\ h \notin Counting /\ Counting \in SUBSET Handlers
    BY <1>1, <1>2 DEF Counting
  <2>2. Cardinality(Counting') = Cardinality(Counting) + 1
    BY <2>1, AllocsFinite, FS_AddElement
  <2>3. Live \in SUBSET Allocs
    BY DEF Live
  <2>4. QED
    BY <1>3, <1>7, <2>1, <2>2, <2>3, AllocsFinite DEF RelayInv, Counters
<1>10. Quotas'
  BY <1>1, <1>7, <1>8, QuotasKept
<1>11. QED
  BY <1>1, <1>4, <1>6, <1>9, <1>10 DEF RelayInv, Listeners

\* The socket is counted in the step in which its request ends.
LEMMA CreatedForUserStep ==
  ASSUME RelayInv, NEW h \in Handlers, CreatedForUser(h)
  PROVE  RelayInv'
<1>0. PICK a \in Allocs, u \in IDs :
        /\ a = hand[h].alloc /\ u = alloc[a].id
        /\ alloc[a].pc = "new" /\ u = userIDOf(hand[h].name) /\ Making(h)
  <2>1. Making(h)
    BY DEF CreatedForUser, HandlerAt, Making
  <2>2. QED
    BY <2>1 DEF RelayInv, Requests, SocketMade, Types
<1>1. /\ hand[h].pc = "counting" /\ hand' = [hand EXCEPT ![h] = Unoccupied]
      /\ count' = [count EXCEPT !.user[u].active = @ + 1]
      /\ alloc' = [alloc EXCEPT ![a].pc = "live"]
      /\ UNCHANGED <<cfg, server, now, load>>
  BY <1>0 DEF CreatedForUser, HandlerAt
<1>2. hand'[h] = Unoccupied /\ \A k \in Handlers : k # h => hand'[k] = hand[k]
  BY <1>1, HandlerFacts DEF RelayInv
<1>3. Making(h) /\ a \in Allocs /\ alloc[a].pc = "new" /\ u = userIDOf(hand[h].name) /\ u \in IDs
  BY <1>0
<1>4. /\ alloc' \in [Allocs -> RelaySockets]
      /\ alloc'[a].pc = "live" /\ alloc'[a].id = u /\ alloc'[a].passed = alloc[a].passed
      /\ \A b \in Allocs : b # a => alloc'[b] = alloc[b]
  <2> DEFINE r == [alloc[a] EXCEPT !.pc = "live"]
  <2>1. alloc \in [Allocs -> RelaySockets] /\ alloc[a] \in RelaySockets
    BY DEF RelayInv, Types
  <2>2. r \in RelaySockets /\ r.pc = "live" /\ r.id = alloc[a].id /\ r.passed = alloc[a].passed
    BY <2>1 DEF RelaySockets, SocketStates
  <2>3. alloc' = [alloc EXCEPT ![a] = r]
    BY <1>1, <2>1
  <2> HIDE DEF r
  <2>4. QED
    BY <1>0, <2>1, <2>2, <2>3
<1>5. /\ count' \in [active : Nat, user : [IDs -> [active : Nat, rejected : Nat]]]
      /\ count'.active = count.active
      /\ count'.user[u].active = count.user[u].active + 1
      /\ \A id \in IDs : id # u => count'.user[id].active = count.user[id].active
  BY <1>1, <1>3, SMTT(30) DEF RelayInv, Types
<1>6. Types'
  <2>1. /\ cfg' = cfg /\ server' = server /\ now' = now /\ load' = load
        /\ hand' \in [Handlers -> HandlerStates]
    BY <1>1, HandlerFacts DEF RelayInv
  <2>2. \A b \in Allocs : alloc'[b].pc \in {"new", "live"} => alloc'[b].passed \in Flows
    BY <1>3, <1>4 DEF RelayInv, Types
  <2>3. \A b \in Allocs : alloc'[b].pc \in {"new", "live", "deleting"} => alloc'[b].id \in IDs
    BY <1>3, <1>4 DEF RelayInv, Types
  <2>4. QED
    BY <1>4, <1>5, <2>1, <2>2, <2>3 DEF RelayInv, Types
<1>7. \A k \in Handlers : /\ Making(k)' <=> k # h /\ Making(k)
                          /\ Making(k) /\ k # h => hand[k].alloc # a
  BY <1>0, <1>2, <1>3, HandlerFacts DEF Making, RelayInv, Requests, SocketOwned
<1>8. Requests'
  <2>1. Authenticated' /\ OneByOne'
    BY <1>1, <1>2, HandlerFacts DEF RelayInv, Requests, Authenticated, OneByOne, AuthHandler
  <2>2. SocketMade'
    <3>1. SocketMade
      BY DEF RelayInv, Requests
    <3> SUFFICES ASSUME NEW k \in Handlers, Making(k)'
                 PROVE  /\ hand'[k].alloc \in Allocs
                        /\ alloc'[hand'[k].alloc].pc = "new"
                        /\ alloc'[hand'[k].alloc].id = userIDOf(hand'[k].name)
      BY <1>1 DEF SocketMade, userIDOf
    <3>2. hand'[k] = hand[k] /\ Making(k) /\ hand[k].alloc \in Allocs /\ hand[k].alloc # a
      BY <1>2, <1>7, <3>1 DEF SocketMade
    <3>3. alloc'[hand[k].alloc] = alloc[hand[k].alloc]
      BY <1>4, <3>2
    <3>4. QED
      BY <3>1, <3>2, <3>3 DEF SocketMade
  <2>3. SocketOwned'
    <3>1. SocketOwned
      BY DEF RelayInv, Requests
    <3>2. ASSUME NEW b \in Allocs, alloc'[b].pc = "new"
          PROVE  \E k \in Handlers : Making(k)' /\ hand'[k].alloc = b
      <4>1. b # a /\ alloc[b].pc = "new"
        BY <1>4, <3>2
      <4>2. PICK k \in Handlers : Making(k) /\ hand[k].alloc = b
        BY <3>1, <4>1 DEF SocketOwned
      <4>3. k # h
        BY <1>0, <4>1, <4>2
      <4>4. QED
        BY <1>2, <1>7, <4>2, <4>3
    <3>3. \A k, l \in Handlers : Making(k)' /\ Making(l)' /\ hand'[k].alloc = hand'[l].alloc => k = l
      BY <1>2, <1>7, <3>1 DEF SocketOwned
    <3>4. QED
      BY <3>2, <3>3 DEF SocketOwned
  <2>4. QED
    BY <2>1, <2>2, <2>3 DEF Requests
<1>9. /\ Live \in SUBSET Allocs /\ Counting \in SUBSET Handlers
      /\ \A id \in IDs : Counted(id) \in SUBSET Allocs /\ Passed(id) \in SUBSET Handlers
  BY DEF Live, Counting, Counted, Passed
<1>10. Live' = Live \cup {a} /\ a \notin Live /\ Counting' = Counting \ {h} /\ h \in Counting
  BY <1>1, <1>2, <1>3, <1>4, HandlerFacts DEF Live, Counting, RelayInv
<1>11. /\ Counted(u)' = Counted(u) \cup {a} /\ a \notin Counted(u)
       /\ Passed(u)' = Passed(u) \ {h} /\ h \in Passed(u)
  BY <1>1, <1>2, <1>3, <1>4, HandlerFacts DEF Counted, Passed, Busy, userIDOf, RelayInv
<1>12. \A id \in IDs : id # u => Counted(id)' = Counted(id) /\ Passed(id)' = Passed(id)
  BY <1>1, <1>2, <1>3, <1>4, HandlerFacts DEF Counted, Passed, Busy, userIDOf, RelayInv
<1>13. /\ Cardinality(Live') = Cardinality(Live) + 1
       /\ Cardinality(Counting') = Cardinality(Counting) - 1
       /\ Cardinality(Counted(u)') = Cardinality(Counted(u)) + 1
       /\ Cardinality(Passed(u)') = Cardinality(Passed(u)) - 1
       /\ Cardinality(Live) \in Nat /\ Cardinality(Counting) \in Nat
       /\ Cardinality(Counted(u)) \in Nat /\ Cardinality(Passed(u)) \in Nat
  <2>1. IsFiniteSet(Live) /\ IsFiniteSet(Counting) /\ IsFiniteSet(Counted(u)) /\ IsFiniteSet(Passed(u))
    BY <1>9, AllocsFinite
  <2>2. Cardinality(Live') = Cardinality(Live) + 1
    BY <1>10, <2>1, FS_AddElement
  <2>3. Cardinality(Counting') = Cardinality(Counting) - 1
    BY <1>10, <2>1, FS_RemoveElement
  <2>4. Cardinality(Counted(u)') = Cardinality(Counted(u)) + 1
    BY <1>11, <2>1, FS_AddElement
  <2>5. Cardinality(Passed(u)') = Cardinality(Passed(u)) - 1
    BY <1>11, <2>1, FS_RemoveElement
  <2>6. QED
    BY <2>1, <2>2, <2>3, <2>4, <2>5, FS_CardinalityType
<1>14. Counters'
  <2>1. count'.active = Cardinality(Live') + Cardinality(Counting')
    BY <1>5, <1>13 DEF RelayInv, Counters
  <2>2. \A id \in IDs : count'.user[id].active = Cardinality(Counted(id)')
    BY <1>5, <1>12, <1>13 DEF RelayInv, Counters
  <2>3. QED
    BY <2>1, <2>2 DEF Counters
<1>15. Quotas'
  <2> SUFFICES ASSUME NEW id \in IDs, plan(id).max > 0
               PROVE  Cardinality(Counted(id)') + Cardinality(Passed(id)') <= plan(id).max + Beyond
    BY <1>1, PlanFixed DEF Quotas
  <2>1. Cardinality(Counted(id)) + Cardinality(Passed(id)) <= plan(id).max + Beyond
    BY DEF RelayInv, Quotas
  <2>2. CASE id = u
    <3>1. Cardinality(Counted(id)') + Cardinality(Passed(id)')
            = Cardinality(Counted(id)) + Cardinality(Passed(id))
      BY <1>13, <2>2
    <3>2. QED
      BY <2>1, <3>1
  <2>3. CASE id # u
    BY <1>12, <2>1, <2>3
  <2>4. QED
    BY <2>2, <2>3
<1>16. QED
  BY <1>1, <1>6, <1>8, <1>14, <1>15 DEF RelayInv, Listeners

-----------------------------------------------------------------------------
(* The end of an allocation.                                               *)

\* No handler is making a socket that was counted.
LEMMA EndKeepsRequests ==
  ASSUME RelayInv, NEW a \in Allocs, alloc[a].pc \in {"live", "deleting"},
         alloc'[a].pc \in {"deleting", "gone"},
         \A b \in Allocs : b # a => alloc'[b] = alloc[b], UNCHANGED <<cfg, hand>>
  PROVE  Requests'
<1>1. \A k \in Handlers : Making(k) => hand[k].alloc # a
  BY DEF RelayInv, Requests, SocketMade
<1>2. Authenticated' /\ OneByOne'
  BY DEF RelayInv, Requests, Authenticated, OneByOne, AuthHandler
<1>3. SocketMade'
  BY <1>1 DEF RelayInv, Requests, SocketMade, Making, userIDOf
<1>4. SocketOwned'
  BY DEF RelayInv, Requests, SocketOwned, Making
<1>5. QED
  BY <1>2, <1>3, <1>4 DEF Requests

LEMMA NoAllocType ==
  /\ NoAlloc \in RelaySockets
  /\ \A i \in IDs : [NoAlloc EXCEPT !.pc = "deleting", !.id = i] \in RelaySockets
  /\ \A i \in IDs : [NoAlloc EXCEPT !.pc = "deleting", !.id = i].pc = "deleting"
  /\ \A i \in IDs : [NoAlloc EXCEPT !.pc = "deleting", !.id = i].id = i
  /\ [NoAlloc EXCEPT !.pc = "gone"] \in RelaySockets
  /\ [NoAlloc EXCEPT !.pc = "gone"].pc = "gone"
  /\ NoAlloc.pc = "none"
<1>1. [tokens |-> 0, last |-> 0] \in Limiters
  BY RelayAssumption DEF Limiters, Times
<1>2. NoAlloc \in RelaySockets
  BY <1>1 DEF NoAlloc, RelaySockets, SocketStates
<1>3. QED
  BY <1>2 DEF RelaySockets, SocketStates, NoAlloc

LEMMA DeletedStep ==
  ASSUME RelayInv, NEW a \in Allocs, Deleted(a)
  PROVE  RelayInv'
<1> DEFINE r == [NoAlloc EXCEPT !.pc = "deleting", !.id = alloc[a].id]
<1>1. /\ alloc[a].pc = "live" /\ alloc' = [alloc EXCEPT ![a] = r]
      /\ count' = [count EXCEPT !.active = @ - 1]
      /\ UNCHANGED <<cfg, server, hand, now, load>>
  BY DEF Deleted
<1>2. alloc[a].id \in IDs
  BY <1>1 DEF RelayInv, Types
<1>3. r \in RelaySockets /\ r.pc = "deleting" /\ r.id = alloc[a].id
  BY <1>2, NoAllocType
<1> HIDE DEF r
<1>4. alloc'[a] = r /\ \A b \in Allocs : b # a => alloc'[b] = alloc[b]
  BY <1>1 DEF RelayInv, Types
<1>5. Requests'
  BY <1>1, <1>3, <1>4, EndKeepsRequests
<1>6. Live' = Live \ {a} /\ a \in Live /\ Live \in SUBSET Allocs /\ Counting' = Counting
      /\ Counting \in SUBSET Handlers
  BY <1>1, <1>3, <1>4 DEF Live, Counting
<1>7. /\ Cardinality(Live') = Cardinality(Live) - 1 /\ Cardinality(Live') \in Nat
      /\ Cardinality(Live) \in Nat /\ Cardinality(Counting) \in Nat
  BY <1>6, AllocsFinite, FS_RemoveElement
<1>8. \A id \in IDs : Counted(id)' = Counted(id) /\ Passed(id)' = Passed(id)
  BY <1>1, <1>3, <1>4 DEF Counted, Passed, Busy, userIDOf
<1>9. count.active - 1 \in Nat
  BY <1>7 DEF RelayInv, Counters
<1>10. /\ count' \in [active : Nat, user : [IDs -> [active : Nat, rejected : Nat]]]
       /\ count'.active = count.active - 1 /\ count'.user = count.user
  BY <1>1, <1>9 DEF RelayInv, Types
<1>11. Types'
  BY <1>1, <1>2, <1>3, <1>4, <1>10 DEF RelayInv, Types
<1>12. Counters'
  BY <1>6, <1>7, <1>8, <1>10 DEF RelayInv, Counters
<1>13. Quotas'
  BY <1>1, <1>8, QuotasKept
<1>14. QED
  BY <1>1, <1>5, <1>11, <1>12, <1>13 DEF RelayInv, Listeners

LEMMA DeletedForUserStep ==
  ASSUME RelayInv, NEW a \in Allocs, DeletedForUser(a)
  PROVE  RelayInv'
<1> DEFINE r == [NoAlloc EXCEPT !.pc = "gone"]
<1>0. PICK u \in IDs : u = alloc[a].id
  BY DEF DeletedForUser, RelayInv, Types
<1>1. /\ alloc[a].pc = "deleting" /\ alloc' = [alloc EXCEPT ![a] = r]
      /\ count' = [count EXCEPT !.user[u].active = @ - 1]
      /\ UNCHANGED <<cfg, server, hand, now, load>>
  BY <1>0 DEF DeletedForUser
<1>3. r \in RelaySockets /\ r.pc = "gone"
  BY NoAllocType
<1> HIDE DEF r
<1>4. alloc'[a] = r /\ \A b \in Allocs : b # a => alloc'[b] = alloc[b]
  BY <1>1 DEF RelayInv, Types
<1>5. Requests'
  BY <1>1, <1>3, <1>4, EndKeepsRequests
<1>6. Live' = Live /\ Counting' = Counting
  BY <1>1, <1>3, <1>4 DEF Live, Counting
<1>7. /\ Counted(u)' = Counted(u) \ {a} /\ a \in Counted(u) /\ Counted(u) \in SUBSET Allocs
  BY <1>0, <1>1, <1>3, <1>4 DEF Counted
<1>8. /\ Cardinality(Counted(u)') = Cardinality(Counted(u)) - 1
      /\ Cardinality(Counted(u)') \in Nat /\ Cardinality(Counted(u)) \in Nat
  BY <1>7, AllocsFinite, FS_RemoveElement
<1>9. \A id \in IDs : id # u => Counted(id)' = Counted(id)
  BY <1>0, <1>1, <1>3, <1>4 DEF Counted
<1>10. \A id \in IDs : Passed(id)' = Passed(id)
  BY <1>1 DEF Passed, Busy, userIDOf
<1>11. count.user[u].active - 1 \in Nat
  BY <1>8 DEF RelayInv, Counters
<1>12. /\ count' \in [active : Nat, user : [IDs -> [active : Nat, rejected : Nat]]]
       /\ count'.active = count.active
       /\ count'.user[u].active = count.user[u].active - 1
       /\ \A id \in IDs : id # u => count'.user[id].active = count.user[id].active
  BY <1>1, <1>11 DEF RelayInv, Types
<1>13. Types'
  <2>1. /\ cfg' = cfg /\ server' = server /\ now' = now /\ load' = load /\ hand' = hand
    BY <1>1
  <2>2. alloc' \in [Allocs -> RelaySockets]
    BY <1>1, <1>3 DEF RelayInv, Types
  <2>3. /\ \A b \in Allocs : alloc'[b].pc \in {"new", "live"} => alloc'[b].passed \in Flows
        /\ \A b \in Allocs : alloc'[b].pc \in {"new", "live", "deleting"} => alloc'[b].id \in IDs
    BY <1>3, <1>4 DEF RelayInv, Types
  <2>4. QED
    BY <1>12, <2>1, <2>2, <2>3 DEF RelayInv, Types
<1>14. Counters'
  <2>1. \A id \in IDs : count'.user[id].active = Cardinality(Counted(id)')
    BY <1>8, <1>9, <1>12 DEF RelayInv, Counters
  <2>2. QED
    BY <1>6, <1>12, <2>1 DEF RelayInv, Counters
<1>15. Quotas'
  <2>1. \A id \in IDs : Counted(id)' \subseteq Counted(id) /\ Passed(id)' \subseteq Passed(id)
    BY <1>7, <1>9, <1>10
  <2>2. QED
    BY <1>1, <2>1, QuotasKept
<1>16. QED
  BY <1>1, <1>5, <1>13, <1>14, <1>15 DEF RelayInv, Listeners

-----------------------------------------------------------------------------
(* The theorems.                                                           *)

LEMMA RelayInit ==
  ASSUME Init
  PROVE  RelayInv
<1>1. /\ hand = [h \in Handlers |-> Unoccupied] /\ alloc = [a \in Allocs |-> NoAlloc]
      /\ \A h \in Handlers : hand[h].pc = "idle"
      /\ \A a \in Allocs : alloc[a] = NoAlloc /\ alloc[a].pc = "none"
  BY NoAllocType DEF Init, Unoccupied
<1>2. hand \in [Handlers -> HandlerStates]
  BY <1>1 DEF Unoccupied, HandlerStates
<1>3. alloc \in [Allocs -> RelaySockets]
  BY <1>1, NoAllocType
<1>4. Types
  BY <1>1, <1>2, <1>3, RelayAssumption DEF Types, Init, Times
<1>5. Listeners
  BY DEF Init, Listeners
<1>6. Requests
  BY <1>1 DEF Requests, Authenticated, SocketMade, SocketOwned, OneByOne, Making
<1>7. /\ Live = {} /\ Counting = {}
      /\ \A id \in IDs : Counted(id) = {} /\ Passed(id) = {}
  BY <1>1 DEF Live, Counting, Counted, Passed, Busy
<1>8. Cardinality({}) = 0
  BY FS_EmptySet
<1>9. Counters
  <2>1. count.active = 0 /\ \A id \in IDs : count.user[id].active = 0
    BY DEF Init
  <2>2. Cardinality(Live) = 0 /\ Cardinality(Counting) = 0
        /\ \A id \in IDs : Cardinality(Counted(id)) = 0
    BY <1>7, <1>8
  <2>3. QED
    BY <2>1, <2>2 DEF Counters
<1>10. Quotas
  <2> SUFFICES ASSUME NEW id \in IDs, plan(id).max > 0
               PROVE  0 + 0 <= plan(id).max + Beyond
    BY <1>7, <1>8 DEF Quotas
  <2>1. plan(id).max \in Int /\ Beyond \in Nat
    BY <1>4, PlanType, BeyondType DEF Types, Plans
  <2>2. QED
    BY <2>1
<1>11. QED
  BY <1>4, <1>5, <1>6, <1>9, <1>10 DEF RelayInv

LEMMA RelayStep ==
  ASSUME RelayInv, [Next]_vars
  PROVE  RelayInv'
<1>1. CASE UNCHANGED vars
  <2>1. UNCHANGED <<cfg, server, hand, alloc, count, now, load>>
    BY <1>1 DEF vars
  <2>2. Requests' /\ Counters' /\ Quotas'
    BY <2>1, KeepsRest DEF RelayInv
  <2>3. QED
    BY <2>1, <2>2 DEF RelayInv, Types, Listeners
<1>2. CASE Start \/ Close
  BY <1>2, ServerStep
<1>3. ASSUME NEW h \in Handlers,
             \/ Request(h) \/ Quota(h) \/ AllocatePacketConn(h)
             \/ Created(h) \/ CreatedForUser(h)
      PROVE  RelayInv'
  BY <1>3, RequestStep, QuotaStep, AllocatePacketConnStep, CreatedStep, CreatedForUserStep
<1>4. ASSUME NEW a \in Allocs,
             Deleted(a) \/ DeletedForUser(a) \/ WriteTo(a) \/ ReadFrom(a) \/ Release(a)
      PROVE  RelayInv'
  BY <1>4, DeletedStep, DeletedForUserStep, WriteToStep, ReadFromStep, ReleaseStep
<1>5. CASE Tick
  BY <1>5, TickStep
<1>6. QED
  BY <1>1, <1>2, <1>3, <1>4, <1>5 DEF Next

LEMMA RelayInvariant == Spec => []RelayInv
  BY RelayInit, RelayStep, PTL DEF Spec

\* The variables keep their types, and neither counter of the allocations goes
\* below zero (OnAllocationCreated, OnAllocationDeleted).
THEOREM TypeCorrect == Spec => []TypeOK
<1>1. RelayInv => TypeOK
  BY DEF RelayInv, Types, TypeOK, RelaySockets, SocketStates, HandlerStates
<1>2. QED
  BY <1>1, RelayInvariant, PTL

\* Start gives back what it has bound on every error path, and Close leaves
\* nothing open.
THEOREM ListenersGivenBack == Spec => []NoListenerLeft
<1>1. RelayInv => NoListenerLeft
  BY DEF RelayInv, Listeners, NoListenerLeft
<1>2. QED
  BY <1>1, RelayInvariant, PTL

\* A socket that is not counted yet belongs to a request that has passed the
\* check of its user's quota.
LEMMA SocketsBounded ==
  ASSUME RelayInv, NEW id \in IDs
  PROVE  Cardinality(Sockets(id)) + Cardinality(Admitted(id))
           <= Cardinality(Counted(id)) + Cardinality(Passed(id))
<1> DEFINE fresh  == {a \in Allocs : alloc[a].pc = "new" /\ alloc[a].id = id}
           making == {h \in Handlers : Making(h) /\ userIDOf(hand[h].name) = id}
           owner  == [a \in fresh |-> CHOOSE h \in Handlers : Making(h) /\ hand[h].alloc = a]
<1>1. \A a \in fresh : owner[a] \in Handlers /\ Making(owner[a]) /\ hand[owner[a]].alloc = a
  BY DEF RelayInv, Requests, SocketOwned
<1>2. \A a \in fresh : owner[a] \in making
  BY <1>1 DEF RelayInv, Requests, SocketMade
<1>3. owner \in Injection(fresh, making)
  <2>1. owner \in [fresh -> making]
    BY <1>2
  <2>2. \A a, b \in fresh : owner[a] = owner[b] => a = b
    BY <1>1
  <2>3. QED
    BY <2>1, <2>2, Fun_IsInj
<1>4. IsFiniteSet(fresh) /\ IsFiniteSet(making) /\ Cardinality(fresh) \in Nat /\ Cardinality(making) \in Nat
  BY AllocsFinite
<1>5. Cardinality(fresh) <= Cardinality(making)
  BY <1>3, <1>4, FS_Injection
<1>6. Sockets(id) = Counted(id) \cup fresh /\ Counted(id) \cap fresh = {}
  BY DEF Sockets, Counted
<1>7. IsFiniteSet(Counted(id)) /\ IsFiniteSet(Admitted(id)) /\ IsFiniteSet(Passed(id))
      /\ Cardinality(Counted(id)) \in Nat /\ Cardinality(Admitted(id)) \in Nat
  BY AllocsFinite DEF Counted, Admitted, Passed
<1>8. Cardinality(Sockets(id)) = Cardinality(Counted(id)) + Cardinality(fresh)
  <2>1. Cardinality(Counted(id) \cup fresh)
          = Cardinality(Counted(id)) + Cardinality(fresh) - Cardinality(Counted(id) \cap fresh)
    BY <1>4, <1>7, FS_Union
  <2>2. Cardinality(Counted(id) \cap fresh) = 0
    BY <1>6, FS_EmptySet
  <2> HIDE DEF fresh
  <2>3. QED
    BY <1>4, <1>6, <1>7, <2>1, <2>2
<1>9. \A h \in Handlers : hand[h].pc = "socket" =>
        (id \in AuthHandler(hand[h].name) <=> userIDOf(hand[h].name) = id)
  BY SameUser DEF RelayInv, Requests, Authenticated
<1>10. Passed(id) = Admitted(id) \cup making /\ Admitted(id) \cap making = {}
  BY <1>9 DEF Passed, Admitted, Busy, Making
<1>11. Cardinality(Passed(id)) = Cardinality(Admitted(id)) + Cardinality(making)
  <2>1. Cardinality(Admitted(id) \cup making)
          = Cardinality(Admitted(id)) + Cardinality(making) - Cardinality(Admitted(id) \cap making)
    BY <1>4, <1>7, FS_Union
  <2>2. Cardinality(Admitted(id) \cap making) = 0
    BY <1>10, FS_EmptySet
  <2> HIDE DEF making
  <2>3. QED
    BY <1>4, <1>7, <1>10, <2>1, <2>2
<1>12. QED
  BY <1>4, <1>5, <1>7, <1>8, <1>11

\* The quota of a user's plan is exceeded by at most one socket for every other
\* handler, and not at all without TCP, whatever the handlers of its requests do
\* between the check (the quota handler) and the count (OnAllocationCreated).
THEOREM QuotaHolds == Spec => []QuotaBounded
<1>1. ASSUME RelayInv PROVE QuotaBounded
  <2> SUFFICES ASSUME NEW id \in IDs, plan(id).max > 0
               PROVE  Cardinality(Sockets(id)) + Cardinality(Admitted(id)) <= plan(id).max + Beyond
    BY DEF QuotaBounded, Beyond
  <2>1. Cardinality(Counted(id)) + Cardinality(Passed(id)) <= plan(id).max + Beyond
    BY <1>1 DEF RelayInv, Quotas
  <2>2. /\ Cardinality(Counted(id)) \in Nat /\ Cardinality(Passed(id)) \in Nat
        /\ Cardinality(Sockets(id)) \in Nat /\ Cardinality(Admitted(id)) \in Nat
    BY AllocsFinite DEF Counted, Passed, Sockets, Admitted
  <2>3. plan(id).max \in Int /\ Beyond \in Nat
    BY <1>1, PlanType, BeyondType DEF RelayInv, Types, Plans
  <2>4. QED
    BY <1>1, <2>1, <2>2, <2>3, SocketsBounded
<1>2. QED
  BY <1>1, RelayInvariant, PTL

\* No request is refused on account of sockets that are gone: the counter of the
\* user is never more than the sockets that the user holds.
THEOREM RefusedWhenFull == Spec => RefusedOnlyWhenFull
<1> DEFINE A == \A id \in IDs : count'.user[id].rejected > count.user[id].rejected
                                  => Cardinality(Sockets(id)) >= plan(id).max
<1>1. ASSUME RelayInv, [Next]_vars PROVE [A]_vars
  <2>0. \A i \in IDs : count.user[i].rejected \in Nat
    BY <1>1 DEF RelayInv, Types
  <2>1. ASSUME \A i \in IDs : count'.user[i].rejected = count.user[i].rejected PROVE A
    BY <2>0, <2>1
  <2>2. ASSUME NEW h \in Handlers, ~WithinQuota(userIDOf(hand[h].name)),
               hand[h].pc = "quota",
               count' = [count EXCEPT !.user[userIDOf(hand[h].name)].rejected = @ + 1]
        PROVE  A
    <3> SUFFICES ASSUME NEW id \in IDs, count'.user[id].rejected > count.user[id].rejected
                 PROVE  Cardinality(Sockets(id)) >= plan(id).max
      OBVIOUS
    <3>1. id = userIDOf(hand[h].name)
      BY <1>1, <2>0, <2>2 DEF RelayInv, Types
    <3>2. plan(id).max \in Int
      BY <1>1, PlanType DEF RelayInv, Types, Plans
    <3>3. /\ Counted(id) \subseteq Sockets(id) /\ IsFiniteSet(Sockets(id))
          /\ Cardinality(Counted(id)) \in Nat /\ Cardinality(Sockets(id)) \in Nat
      BY AllocsFinite DEF Counted, Sockets
    <3>4. Cardinality(Counted(id)) <= Cardinality(Sockets(id))
      BY <3>3, FS_Subset
    <3>5. count.user[id].active = Cardinality(Counted(id))
      BY <1>1 DEF RelayInv, Counters
    <3>6. QED
      BY <2>2, <3>1, <3>2, <3>3, <3>4, <3>5 DEF WithinQuota
  <2>3. ASSUME UNCHANGED count PROVE A
    BY <2>1, <2>3
  <2>4. ASSUME NEW h \in Handlers, Quota(h) PROVE A
    BY <2>2, <2>3, <2>4 DEF Quota, HandlerAt
  <2>5. ASSUME NEW h \in Handlers, Created(h) \/ CreatedForUser(h) PROVE A
    <3>1. \A i \in IDs : count'.user[i].rejected = count.user[i].rejected
      BY <1>1, <2>5 DEF Created, CreatedForUser, RelayInv, Types
    <3>2. QED
      BY <2>1, <3>1
  <2>6. ASSUME NEW a \in Allocs, Deleted(a) \/ DeletedForUser(a) PROVE A
    <3>1. \A i \in IDs : count'.user[i].rejected = count.user[i].rejected
      BY <1>1, <2>6 DEF Deleted, DeletedForUser, RelayInv, Types
    <3>2. QED
      BY <2>1, <3>1
  <2>7. QED
    BY <1>1, <2>3, <2>4, <2>5, <2>6 DEF Next, Start, Close, CheckConfig, ListenUDP, LocalAddr, RelayAddress,
       ListenTCP, NewServer, StartTo, Request, AllocatePacketConn, WriteTo, ReadFrom, Release, Tick
<1>2. QED
  BY <1>1, RelayInvariant, PTL DEF Spec, RefusedOnlyWhenFull
-----------------------------------------------------------------------------
(* The budget of a relay socket.  What has passed since a tick, with what  *)
(* the bucket holds and what it owes to a packet that waits, never gains   *)
(* more than the rate.                                                     *)

\* What limiter l of plan p holds at time m.
Level(l, p, m) == Min({burstFor(p), l.tokens + p.rate * (m - l.last)})

\* The packet that waits has been paid for and has not passed.
Owed(r) == IF r.held = <<>> THEN 0 ELSE r.held.size

OutBudget(f, T, p, m) ==
  /\ \A t \in 0 .. m : f[t] + T <= burstFor(p) + p.rate * (m - t)
  /\ T >= 0

InBudget(f, w, T, p, m) ==
  /\ \A t \in 0 .. m : f[t] + w + T <= burstFor(p) + p.rate * (m - t) + MinBurst
  /\ T + w >= 0

\* The debt of a bucket is that of a packet that waits, and is paid back when the
\* packet is due.
Paid(r, T, p, m) == T >= 0 \/ (r.held # <<>> /\ T + p.rate * (r.held.due - m) >= 0)

Nothing(f, m) == \A t \in Times : t > m => f[t] = 0

Budget(r, p, m) ==
  p.rate > 0 =>
    /\ Nothing(r.passed["out"], m) /\ Nothing(r.passed["in"], m)
    /\ OutBudget(r.passed["out"], Level(r.outbound, p, m), p, m)
    /\ InBudget(r.passed["in"], Owed(r), Level(r.inbound, p, m), p, m)
    /\ Paid(r, Level(r.inbound, p, m), p, m)

Budgets ==
  \A a \in Allocs : alloc[a].pc \in {"new", "live"} => Budget(alloc[a], plan(alloc[a].id), now)

LEMMA HeldApart == \A x \in [size : 1 .. MinBurst, due : Int] : x # <<>>
<1>1. DOMAIN <<>> = {} OBVIOUS
<1>2. \A x \in [size : 1 .. MinBurst, due : Int] : DOMAIN x = {"size", "due"} OBVIOUS
<1>3. QED
  BY <1>1, <1>2

LEMMA OwedType ==
  ASSUME NEW r \in RelaySockets
  PROVE  /\ Owed(r) \in Nat /\ Owed(r) <= MinBurst
         /\ r.held # <<>> => r.held.size \in 1 .. MinBurst /\ r.held.due \in Int /\ Owed(r) = r.held.size
<1>1. MinBurst \in Nat
  BY RelayAssumption
<1>2. r.held \in {<<>>} \cup [size : 1 .. MinBurst, due : Int]
  BY DEF RelaySockets
<1>3. r.held # <<>> => r.held.size \in 1 .. MinBurst /\ r.held.due \in Int
  BY <1>2
<1>4. QED
  BY <1>1, <1>3 DEF Owed

LEMMA MinOf ==
  ASSUME NEW a \in Int, NEW b \in Int
  PROVE  /\ Min({a, b}) = IF a <= b THEN a ELSE b
<1>1. Min({a, b}) \in {a, b} /\ \A y \in {a, b} : Min({a, b}) <= y
  <2>1. \E x \in {a, b} : \A y \in {a, b} : x <= y
    OBVIOUS
  <2>2. QED
    BY <2>1 DEF Min
<1>2. QED
  BY <1>1

LEMMA BurstBound ==
  ASSUME NEW p \in Plans
  PROVE  burstFor(p) \in Int /\ burstFor(p) >= MinBurst
<1>1. p.burst \in Int /\ p.rate \div 10 \in Int /\ MinBurst \in Int
  BY RelayAssumption DEF Plans
<1>2. \A a, b \in Int : Max({a, b}) >= b
  <2> SUFFICES ASSUME NEW a \in Int, NEW b \in Int PROVE Max({a, b}) >= b
    OBVIOUS
  <2>1. \E x \in {a, b} : \A y \in {a, b} : x >= y
    OBVIOUS
  <2>2. QED
    BY <2>1 DEF Max
<1>3. QED
  BY <1>1, <1>2, BurstType DEF burstFor

LEMMA Distributes == \A r, k \in Int : r * (k + 1) = r * k + r
  OBVIOUS

LEMMA LevelNow ==
  ASSUME NEW l, NEW p PROVE Tokens(l, p) = Level(l, p, now)
  BY DEF Tokens, Level

\* A tick adds the rate, unless the bucket is full.
LEMMA LevelTick ==
  ASSUME NEW l \in Limiters, NEW p \in Plans, p.rate > 0, NEW m \in Nat
  PROVE  /\ Level(l, p, m) \in Int /\ Level(l, p, m + 1) \in Int
         /\ Level(l, p, m) <= burstFor(p) /\ Level(l, p, m + 1) <= burstFor(p)
         /\ Level(l, p, m) <= Level(l, p, m + 1)
         /\ \/ Level(l, p, m + 1) = burstFor(p) /\ Level(l, p, m + 1) <= Level(l, p, m) + p.rate
            \/ Level(l, p, m + 1) = Level(l, p, m) + p.rate
<1>1. l.tokens \in Int /\ l.last \in Int /\ p.rate \in Int /\ m \in Int
  BY RelayAssumption DEF Limiters, Times, Plans
<1>2. PICK b \in Int : b = burstFor(p)
  BY BurstType
<1>3. PICK x \in Int : x = l.tokens + p.rate * (m - l.last)
  BY <1>1
<1>4. l.tokens + p.rate * ((m + 1) - l.last) = x + p.rate
  <2>1. PICK k \in Int : k = m - l.last
    BY <1>1
  <2>2. (m + 1) - l.last = k + 1
    BY <1>1, <2>1
  <2>3. p.rate * (k + 1) = p.rate * k + p.rate
    BY <1>1, Distributes
  <2>4. p.rate * k \in Int
    BY <1>1
  <2>5. QED
    BY <1>1, <1>3, <2>1, <2>2, <2>3, <2>4
<1>5. Level(l, p, m) = IF b <= x THEN b ELSE x
  BY <1>2, <1>3, MinOf DEF Level
<1>6. Level(l, p, m + 1) = IF b <= x + p.rate THEN b ELSE x + p.rate
  <2>1. x + p.rate \in Int
    BY <1>1
  <2>2. QED
    BY <1>2, <1>4, <2>1, MinOf DEF Level
<1>7. QED
  BY <1>1, <1>2, <1>3, <1>5, <1>6

\* Taking n leaves n less.
LEMMA LevelTaken ==
  ASSUME NEW l \in Limiters, NEW p \in Plans, p.rate > 0, now \in Times, NEW n \in 1 .. MinBurst
  PROVE  Level(Taken(l, p, n), p, now) = Level(l, p, now) - n
<1>1. now \in Nat /\ n \in Nat /\ p.rate \in Int
  BY RelayAssumption DEF Times, Plans
<1>2. PICK b \in Int : b = burstFor(p)
  BY BurstType
<1>3. PICK T \in Int : T = Level(l, p, now) /\ T <= b
  BY <1>1, <1>2, LevelTick
<1>4. Taken(l, p, n).tokens = T - n /\ Taken(l, p, n).last = now
  BY <1>3, LevelNow DEF Taken
<1>5. (T - n) + p.rate * (now - now) = T - n
  BY <1>1, <1>3
<1>6. T - n \in Int /\ ~(b <= T - n)
  BY <1>1, <1>2, <1>3
<1>7. Level(Taken(l, p, n), p, now) = Min({b, T - n})
  BY <1>2, <1>4, <1>5 DEF Level
<1>8. Min({b, T - n}) = T - n
  BY <1>2, <1>6, MinOf
<1>9. QED
  BY <1>3, <1>7, <1>8

LEMMA FlowFacts ==
  ASSUME NEW r \in RelaySockets, r.passed \in Flows, NEW d \in {"in", "out"}, NEW m \in Times
  PROVE  /\ m \in Nat /\ 0 .. m \subseteq Times
         /\ \A t \in Times : t \in Nat /\ r.passed[d][t] \in Nat
<1>1. MaxTime \in Nat
  BY RelayAssumption
<1>2. m \in Nat /\ 0 .. m \subseteq Times /\ Times \subseteq Nat
  BY <1>1 DEF Times
<1>3. QED
  BY <1>2 DEF Flows

\* The clock.
LEMMA BudgetTick ==
  ASSUME NEW r \in RelaySockets, r.passed \in Flows, NEW p \in Plans, NEW m \in Times,
         m + 1 \in Times, Budget(r, p, m)
  PROVE  Budget(r, p, m + 1)
<1> SUFFICES ASSUME p.rate > 0
             PROVE  /\ Nothing(r.passed["out"], m + 1) /\ Nothing(r.passed["in"], m + 1)
                    /\ OutBudget(r.passed["out"], Level(r.outbound, p, m + 1), p, m + 1)
                    /\ InBudget(r.passed["in"], Owed(r), Level(r.inbound, p, m + 1), p, m + 1)
                    /\ Paid(r, Level(r.inbound, p, m + 1), p, m + 1)
  BY DEF Budget
<1>0. /\ Nothing(r.passed["out"], m) /\ Nothing(r.passed["in"], m)
      /\ OutBudget(r.passed["out"], Level(r.outbound, p, m), p, m)
      /\ InBudget(r.passed["in"], Owed(r), Level(r.inbound, p, m), p, m)
      /\ Paid(r, Level(r.inbound, p, m), p, m)
  BY DEF Budget
<1>1. PICK b \in Int, R \in Int : b = burstFor(p) /\ b >= MinBurst /\ R = p.rate /\ R > 0
  BY BurstBound DEF Plans
<1>2. /\ m \in Nat /\ MinBurst \in Nat /\ Owed(r) \in Nat /\ Owed(r) <= MinBurst
      /\ \A t \in 0 .. m + 1 : t \in Times /\ t \in Nat
  BY RelayAssumption, FlowFacts, OwedType DEF Times
<1>3. \A d \in {"in", "out"}, t \in Times : r.passed[d][t] \in Nat
  BY FlowFacts
<1>4. r.outbound \in Limiters /\ r.inbound \in Limiters
  BY DEF RelaySockets
<1>5. PICK T \in Int, U \in Int :
        /\ T = Level(r.outbound, p, m) /\ U = Level(r.outbound, p, m + 1)
        /\ T <= b /\ T <= U /\ U <= b /\ U <= T + R
  <2>1. /\ Level(r.outbound, p, m) \in Int /\ Level(r.outbound, p, m + 1) \in Int
        /\ Level(r.outbound, p, m) <= b /\ Level(r.outbound, p, m + 1) <= b
        /\ Level(r.outbound, p, m) <= Level(r.outbound, p, m + 1)
        /\ \/ Level(r.outbound, p, m + 1) <= Level(r.outbound, p, m) + R
           \/ Level(r.outbound, p, m + 1) = Level(r.outbound, p, m) + R
    BY <1>1, <1>2, <1>4, LevelTick
  <2>2. QED
    BY <1>1, <2>1
<1>6. PICK S \in Int, V \in Int :
        /\ S = Level(r.inbound, p, m) /\ V = Level(r.inbound, p, m + 1)
        /\ S <= b /\ S <= V /\ V <= b /\ V <= S + R /\ (V = b \/ V = S + R)
  <2>1. /\ Level(r.inbound, p, m) \in Int /\ Level(r.inbound, p, m + 1) \in Int
        /\ Level(r.inbound, p, m) <= b /\ Level(r.inbound, p, m + 1) <= b
        /\ Level(r.inbound, p, m) <= Level(r.inbound, p, m + 1)
        /\ \/ Level(r.inbound, p, m + 1) = b /\ Level(r.inbound, p, m + 1) <= Level(r.inbound, p, m) + R
           \/ Level(r.inbound, p, m + 1) = Level(r.inbound, p, m) + R
    BY <1>1, <1>2, <1>4, LevelTick
  <2>2. QED
    BY <1>1, <2>1
<1>7. \A t \in 0 .. m : R * (m - t) \in Int /\ R * ((m + 1) - t) = R * (m - t) + R
  <2> SUFFICES ASSUME NEW t \in 0 .. m
               PROVE  R * (m - t) \in Int /\ R * ((m + 1) - t) = R * (m - t) + R
    OBVIOUS
  <2>1. PICK k \in Int : k = m - t
    BY <1>2
  <2>2. (m + 1) - t = k + 1
    BY <1>2, <2>1
  <2>3. R * (k + 1) = R * k + R /\ R * k \in Int
    BY Distributes
  <2>4. QED
    BY <2>1, <2>2, <2>3
<1>8. R * ((m + 1) - (m + 1)) = 0
  BY <1>2
<1>9. \A t \in 0 .. m + 1 : t \in 0 .. m \/ t = m + 1
  BY <1>2
<1>10. Nothing(r.passed["out"], m + 1) /\ Nothing(r.passed["in"], m + 1)
  BY <1>0, <1>2, FlowFacts DEF Nothing
<1>11. OutBudget(r.passed["out"], U, p, m + 1)
  <2> DEFINE f == r.passed["out"]
  <2>1. f[m + 1] = 0 /\ \A t \in Times : f[t] \in Nat
    BY <1>0, <1>2, <1>3 DEF Nothing
  <2>2. T >= 0 /\ \A t \in 0 .. m : f[t] + T <= b + R * (m - t)
    BY <1>0, <1>1, <1>5 DEF OutBudget
  <2> HIDE DEF f
  <2>3. ASSUME NEW t \in 0 .. m + 1 PROVE f[t] + U <= b + R * ((m + 1) - t)
    <3>1. CASE t \in 0 .. m
      <4>1. PICK x \in Int : x = R * (m - t)
        BY <1>7, <3>1
      <4>2. R * ((m + 1) - t) = x + R
        BY <1>7, <3>1, <4>1
      <4>3. f[t] + T <= b + x /\ f[t] \in Nat
        BY <1>2, <2>1, <2>2, <3>1, <4>1
      <4>4. QED
        BY <1>5, <4>2, <4>3
    <3>2. CASE t = m + 1
      <4>1. f[t] = 0 /\ R * ((m + 1) - t) = 0
        BY <1>8, <2>1, <3>2
      <4>2. QED
        BY <1>1, <1>5, <4>1
    <3>3. QED
      BY <1>9, <3>1, <3>2
  <2>4. QED
    BY <1>1, <1>5, <2>2, <2>3 DEF OutBudget, f
<1>12. InBudget(r.passed["in"], Owed(r), V, p, m + 1)
  <2> DEFINE f == r.passed["in"]
             w == Owed(r)
  <2>1. f[m + 1] = 0 /\ \A t \in Times : f[t] \in Nat
    BY <1>0, <1>2, <1>3 DEF Nothing
  <2>2. S + w >= 0 /\ \A t \in 0 .. m : f[t] + w + S <= b + R * (m - t) + MinBurst
    BY <1>0, <1>1, <1>6 DEF InBudget
  <2> HIDE DEF f, w
  <2>a. w \in Nat /\ w <= MinBurst
    BY <1>2 DEF w
  <2>3. ASSUME NEW t \in 0 .. m + 1 PROVE f[t] + w + V <= b + R * ((m + 1) - t) + MinBurst
    <3>1. CASE t \in 0 .. m
      <4>1. PICK x \in Int : x = R * (m - t)
        BY <1>7, <3>1
      <4>2. R * ((m + 1) - t) = x + R
        BY <1>7, <3>1, <4>1
      <4>3. f[t] + w + S <= b + x + MinBurst /\ f[t] \in Nat
        BY <1>2, <2>1, <2>2, <3>1, <4>1
      <4>4. QED
        BY <1>2, <1>6, <2>a, <4>2, <4>3
    <3>2. CASE t = m + 1
      BY <1>2, <1>6, <1>8, <2>1, <2>a, <3>2
    <3>3. QED
      BY <1>9, <3>1, <3>2
  <2>4. V + w >= 0
    BY <1>6, <2>2, <2>a
  <2>5. QED
    BY <1>1, <2>3, <2>4 DEF InBudget, f, w
<1>13. Paid(r, V, p, m + 1)
  <2>1. CASE S >= 0
    BY <1>6, <2>1 DEF Paid
  <2>2. CASE r.held # <<>> /\ S + R * (r.held.due - m) >= 0
    <3>1. r.held.due \in Int
      BY <2>2, OwedType
    <3>2. PICK k \in Int : k = r.held.due - (m + 1)
      BY <1>2, <3>1
    <3>3. r.held.due - m = k + 1
      BY <1>2, <3>1, <3>2
    <3>4. R * (k + 1) = R * k + R /\ R * k \in Int
      BY Distributes
    <3>5. S + (R * k + R) >= 0
      BY <2>2, <3>3, <3>4
    <3>6. V >= 0 \/ V + R * k >= 0
      BY <1>1, <1>2, <1>6, <3>4, <3>5
    <3>7. QED
      BY <1>1, <2>2, <3>2, <3>6 DEF Paid
  <2>3. QED
    BY <1>0, <1>1, <1>6, <2>1, <2>2 DEF Paid
<1>14. QED
  BY <1>5, <1>6, <1>10, <1>11, <1>12, <1>13

\* Passing counts for every span that has begun.
LEMMA PassesFields ==
  ASSUME now \in Times, NEW r \in RelaySockets, r.passed \in Flows,
         NEW d \in {"in", "out"}, NEW n \in 1 .. MinBurst
  PROVE  LET q == Passes(r, d, n)
         IN  /\ q.pc = r.pc /\ q.id = r.id /\ q.inbound = r.inbound /\ q.outbound = r.outbound
             /\ q.held = r.held
             /\ \A e \in {"in", "out"} : e # d => q.passed[e] = r.passed[e]
             /\ \A t \in Times : t <= now => q.passed[d][t] = r.passed[d][t] + n
             /\ \A t \in Times : t > now => q.passed[d][t] = r.passed[d][t]
<1>1. PICK f : f = [t \in Times |-> r.passed[d][t] + IF t <= now THEN n ELSE 0]
  OBVIOUS
<1>2. \A t \in Times : r.passed[d][t] \in Nat /\ t \in Nat /\ now \in Nat
  BY FlowFacts
<1>3. /\ \A t \in Times : t <= now => f[t] = r.passed[d][t] + n
      /\ \A t \in Times : t > now => f[t] = r.passed[d][t]
  BY <1>1, <1>2
<1>4. Passes(r, d, n) = [r EXCEPT !.passed = [r.passed EXCEPT ![d] = f]]
  BY <1>1 DEF Passes, RelaySockets
<1>5. QED
  BY <1>3, <1>4 DEF RelaySockets, Flows

\* A sum of which one part has gone to another is the same.
LEMMA OutShift ==
  ASSUME NEW f, NEW T, NEW g, NEW U, NEW p, NEW m, OutBudget(f, T, p, m), U >= 0,
         \A t \in 0 .. m : g[t] + U = f[t] + T
  PROVE  OutBudget(g, U, p, m)
  BY DEF OutBudget

LEMMA InShift ==
  ASSUME NEW f, NEW w, NEW S, NEW g, NEW v, NEW V, NEW p, NEW m, InBudget(f, w, S, p, m),
         V + v >= 0, \A t \in 0 .. m : g[t] + v + V = f[t] + w + S
  PROVE  InBudget(g, v, V, p, m)
  BY DEF InBudget

\* WriteTo, when the bucket holds what the packet needs.
LEMMA BudgetOut ==
  ASSUME now \in Times, NEW r \in RelaySockets, r.passed \in Flows, NEW p \in Plans, p.rate > 0,
         NEW n \in 1 .. MinBurst, Budget(r, p, now), ~(Tokens(r.outbound, p) < n)
  PROVE  Budget(Passes([r EXCEPT !.outbound = Taken(r.outbound, p, n)], "out", n), p, now)
<1>1. /\ r.outbound \in Limiters /\ n \in Nat /\ now \in Nat /\ 0 .. now \subseteq Times
      /\ \A t \in Times : t \in Nat /\ r.passed["out"][t] \in Nat
      /\ \A t \in 0 .. now : t <= now
  BY RelayAssumption, FlowFacts DEF RelaySockets
<1>2. PICK o \in RelaySockets : o = [r EXCEPT !.outbound = Taken(r.outbound, p, n)]
  BY <1>1, TakenType DEF RelaySockets
<1>3. /\ o.passed = r.passed /\ o.held = r.held /\ o.inbound = r.inbound
      /\ o.outbound = Taken(r.outbound, p, n)
  BY <1>2 DEF RelaySockets
<1>4. PICK q : q = Passes(o, "out", n)
  OBVIOUS
<1>5. /\ q.inbound = r.inbound /\ q.held = r.held /\ q.outbound = Taken(r.outbound, p, n)
      /\ q.passed["in"] = r.passed["in"]
      /\ \A t \in Times : t <= now => q.passed["out"][t] = r.passed["out"][t] + n
      /\ \A t \in Times : t > now => q.passed["out"][t] = r.passed["out"][t]
  BY <1>3, <1>4, PassesFields
<1>6. PICK T \in Int : T = Level(r.outbound, p, now) /\ T >= n
  BY <1>1, LevelTick, LevelNow
<1>7. Level(q.outbound, p, now) = T - n
  BY <1>1, <1>5, <1>6, LevelTaken
<1>8. /\ Nothing(r.passed["out"], now) /\ Nothing(r.passed["in"], now)
      /\ OutBudget(r.passed["out"], T, p, now)
      /\ InBudget(r.passed["in"], Owed(r), Level(r.inbound, p, now), p, now)
      /\ Paid(r, Level(r.inbound, p, now), p, now)
  BY <1>6 DEF Budget
<1>9. Nothing(q.passed["out"], now) /\ Nothing(q.passed["in"], now)
  BY <1>5, <1>8 DEF Nothing
<1>10. OutBudget(q.passed["out"], T - n, p, now)
  <2>1. T - n >= 0 /\ \A t \in 0 .. now : q.passed["out"][t] + (T - n) = r.passed["out"][t] + T
    BY <1>1, <1>5, <1>6
  <2>2. QED
    BY <1>8, <2>1, OutShift
<1>11. /\ InBudget(q.passed["in"], Owed(q), Level(q.inbound, p, now), p, now)
       /\ Paid(q, Level(q.inbound, p, now), p, now)
  BY <1>5, <1>8 DEF Owed, Paid
<1>12. QED
  BY <1>2, <1>4, <1>7, <1>9, <1>10, <1>11 DEF Budget

LEMMA Exchange == \A x, n, w, S, V \in Int : V + n = S + w => (x + n) + 0 + V = x + w + S
  OBVIOUS

\* What a packet that passes or a held packet that is released leaves of the
\* peer-to-client budget.
LEMMA BudgetPassed ==
  ASSUME now \in Times, NEW r \in RelaySockets, r.passed \in Flows, NEW p \in Plans, p.rate > 0,
         NEW n \in 1 .. MinBurst, Budget(r, p, now),
         NEW o \in RelaySockets, o.passed = r.passed, o.outbound = r.outbound, o.held = <<>>,
         Level(o.inbound, p, now) + n = Level(r.inbound, p, now) + Owed(r),
         Level(o.inbound, p, now) >= 0
  PROVE  Budget(Passes(o, "in", n), p, now)
<1>1. /\ n \in Nat /\ now \in Nat /\ 0 .. now \subseteq Times
      /\ \A t \in Times : t \in Nat /\ r.passed["in"][t] \in Nat
      /\ \A t \in 0 .. now : t <= now
  BY RelayAssumption, FlowFacts
<1>2. PICK q : q = Passes(o, "in", n)
  OBVIOUS
<1>3. /\ q.outbound = r.outbound /\ q.held = <<>> /\ q.inbound = o.inbound
      /\ q.passed["out"] = r.passed["out"]
      /\ \A t \in Times : t <= now => q.passed["in"][t] = r.passed["in"][t] + n
      /\ \A t \in Times : t > now => q.passed["in"][t] = r.passed["in"][t]
  BY <1>2, PassesFields
<1>4. PICK S \in Int, V \in Int : S = Level(r.inbound, p, now) /\ V = Level(o.inbound, p, now)
  BY <1>1, LevelTick DEF RelaySockets
<1>5. PICK w \in Nat : w = Owed(r) /\ V + n = S + w /\ V >= 0
  BY <1>4, OwedType
<1>6. /\ Nothing(r.passed["out"], now) /\ Nothing(r.passed["in"], now)
      /\ OutBudget(r.passed["out"], Level(r.outbound, p, now), p, now)
      /\ InBudget(r.passed["in"], w, S, p, now)
  BY <1>4, <1>5 DEF Budget
<1>7. Nothing(q.passed["out"], now) /\ Nothing(q.passed["in"], now)
  BY <1>3, <1>6 DEF Nothing
<1>8. InBudget(q.passed["in"], 0, V, p, now)
  <2>1. ASSUME NEW t \in 0 .. now PROVE q.passed["in"][t] + 0 + V = r.passed["in"][t] + w + S
    <3>1. PICK x \in Nat : x = r.passed["in"][t]
      BY <1>1
    <3>2. q.passed["in"][t] = x + n
      BY <1>1, <1>3, <3>1
    <3>3. (x + n) + 0 + V = x + w + S
      <4>1. x \in Int /\ n \in Int /\ w \in Int /\ S \in Int /\ V \in Int
        BY <1>1
      <4>2. V + n = S + w
        BY <1>5
      <4>3. QED
        BY <4>1, <4>2, Exchange
    <3>4. QED
      BY <3>1, <3>2, <3>3
  <2>2. V + 0 >= 0
    BY <1>5
  <2>3. QED
    BY <1>6, <2>1, <2>2, InShift
<1>9. Owed(q) = 0 /\ Paid(q, V, p, now)
  BY <1>3, <1>5 DEF Owed, Paid
<1>10. QED
  BY <1>2, <1>3, <1>4, <1>6, <1>7, <1>8, <1>9 DEF Budget

\* A reservation that has to wait is paid for by the time it is due, and one that
\* does not wait is paid for at once.
LEMMA DelayCovers ==
  ASSUME now \in Times, NEW l \in Limiters, NEW p \in Plans, p.rate > 0, NEW n \in 1 .. MinBurst
  PROVE  /\ Delay(l, p, n) \in Int
         /\ Delay(l, p, n) > 0 \/ n <= Level(l, p, now)
         /\ p.rate * Delay(l, p, n) \in Int /\ p.rate * Delay(l, p, n) >= n - Level(l, p, now)
<1>1. PICK R \in Nat \ {0} : R = p.rate
  BY DEF Plans
<1>2. PICK T \in Int, e \in Int : T = Level(l, p, now) /\ e = n - T /\ n \in Int
  <2>1. now \in Nat /\ n \in Int
    BY RelayAssumption DEF Times
  <2>2. QED
    BY <2>1, LevelTick
<1>3. Delay(l, p, n) = IF e <= 0 THEN 0 ELSE (e + R - 1) \div R
  BY <1>1, <1>2, LevelNow DEF Delay
<1>4. CASE e <= 0
  <2>1. R * 0 = 0
    OBVIOUS
  <2>2. QED
    BY <1>1, <1>2, <1>3, <1>4, <2>1
<1>5. CASE e > 0
  <2>1. PICK D \in Int : D = (e + R - 1) \div R
    OBVIOUS
  <2>2. R * D \in Int /\ R * D + R > e + R - 1
    <3>1. PICK x \in Int : x = e + R - 1
      OBVIOUS
    <3>2. x < R * (x \div R) + R
      OBVIOUS
    <3>3. QED
      BY <2>1, <3>1, <3>2
  <2>3. R * D >= e
    BY <2>2
  <2>4. D > 0
    <3>1. SUFFICES ASSUME D <= 0 PROVE FALSE
      OBVIOUS
    <3>2. R * D <= 0
      BY <3>1
    <3>3. QED
      BY <1>5, <2>2, <2>3, <3>2
  <2>5. QED
    BY <1>1, <1>2, <1>3, <1>5, <2>1, <2>2, <2>3, <2>4
<1>6. QED
  BY <1>4, <1>5

\* ReadFrom, when the packet waits.
LEMMA BudgetHold ==
  ASSUME now \in Times, NEW r \in RelaySockets, r.passed \in Flows, NEW p \in Plans, p.rate > 0,
         NEW n \in 1 .. MinBurst, Budget(r, p, now), r.held = <<>>
  PROVE  Budget([r EXCEPT !.inbound = Taken(r.inbound, p, n),
                          !.held = [size |-> n, due |-> now + Delay(r.inbound, p, n)]], p, now)
<1>1. /\ r.inbound \in Limiters /\ n \in Nat /\ now \in Nat /\ 0 .. now \subseteq Times
      /\ \A t \in Times : t \in Nat /\ r.passed["in"][t] \in Nat
  BY RelayAssumption, FlowFacts DEF RelaySockets
<1>2. PICK D \in Int : D = Delay(r.inbound, p, n)
  BY <1>1, DelayCovers
<1>3. PICK h \in [size : 1 .. MinBurst, due : Int] : h = [size |-> n, due |-> now + D]
  <2>1. now + D \in Int
    BY <1>1, <1>2
  <2>2. QED
    BY <2>1
<1>4. PICK q : q = [r EXCEPT !.inbound = Taken(r.inbound, p, n), !.held = h]
  OBVIOUS
<1>5. /\ q.inbound = Taken(r.inbound, p, n) /\ q.held = h /\ q.outbound = r.outbound
      /\ q.passed = r.passed
  BY <1>4 DEF RelaySockets
<1>6. h # <<>> /\ h.size = n /\ h.due = now + D
  BY <1>3, HeldApart
<1>7. PICK S \in Int : S = Level(r.inbound, p, now)
  BY <1>1, LevelTick
<1>8. Level(q.inbound, p, now) = S - n
  BY <1>1, <1>5, <1>7, LevelTaken
<1>9. /\ Nothing(r.passed["out"], now) /\ Nothing(r.passed["in"], now)
      /\ OutBudget(r.passed["out"], Level(r.outbound, p, now), p, now)
      /\ InBudget(r.passed["in"], 0, S, p, now) /\ S >= 0
  BY <1>7 DEF Budget, Owed, Paid
<1>10. Owed(q) = n
  BY <1>5, <1>6 DEF Owed
<1>11. InBudget(q.passed["in"], n, S - n, p, now)
  <2>1. ASSUME NEW t \in 0 .. now PROVE q.passed["in"][t] + n + (S - n) = r.passed["in"][t] + 0 + S
    <3>1. PICK x \in Nat : x = r.passed["in"][t]
      BY <1>1
    <3>2. x + n + (S - n) = x + 0 + S
      BY <1>1
    <3>3. QED
      BY <1>5, <3>1, <3>2
  <2>2. (S - n) + n >= 0
    BY <1>1, <1>9
  <2>3. QED
    BY <1>9, <2>1, <2>2, InShift
<1>12. Paid(q, S - n, p, now)
  <2>1. p.rate * D \in Int /\ p.rate * D >= n - S
    BY <1>1, <1>2, <1>7, DelayCovers
  <2>2. h.due - now = D
    BY <1>1, <1>6
  <2>3. (S - n) + p.rate * D >= 0
    BY <1>1, <2>1
  <2>4. QED
    BY <1>5, <1>6, <2>2, <2>3 DEF Paid
<1>13. QED
  BY <1>2, <1>3, <1>4, <1>5, <1>8, <1>9, <1>10, <1>11, <1>12 DEF Budget

\* A socket that AllocatePacketConn has made has full buckets.
LEMMA BudgetNew ==
  ASSUME now \in Times, NEW p \in Plans, NEW r,
         r.inbound = [tokens |-> burstFor(p), last |-> now],
         r.outbound = [tokens |-> burstFor(p), last |-> now], r.held = <<>>,
         r.passed = [d \in {"in", "out"} |-> [t \in Times |-> 0]]
  PROVE  Budget(r, p, now)
<1> SUFFICES ASSUME p.rate > 0
             PROVE  /\ Nothing(r.passed["out"], now) /\ Nothing(r.passed["in"], now)
                    /\ OutBudget(r.passed["out"], Level(r.outbound, p, now), p, now)
                    /\ InBudget(r.passed["in"], Owed(r), Level(r.inbound, p, now), p, now)
                    /\ Paid(r, Level(r.inbound, p, now), p, now)
  BY DEF Budget
<1>1. PICK b \in Int, R \in Nat : b = burstFor(p) /\ b >= MinBurst /\ R = p.rate
  BY BurstBound DEF Plans
<1>2. MinBurst \in Nat /\ now \in Nat /\ 0 .. now \subseteq Times
  BY RelayAssumption DEF Times
<1>3. b + R * (now - now) = b
  BY <1>1, <1>2
<1>4. Level(r.outbound, p, now) = b /\ Level(r.inbound, p, now) = b
  BY <1>1, <1>3, MinOf DEF Level
<1>5. \A d \in {"in", "out"}, t \in Times : r.passed[d][t] = 0
  OBVIOUS
<1>6. \A t \in 0 .. now : R * (now - t) \in Nat
  BY <1>1, <1>2
<1>7. Owed(r) = 0 /\ Paid(r, b, p, now)
  BY <1>1, <1>2 DEF Owed, Paid
<1>8. ASSUME NEW t \in 0 .. now
      PROVE  /\ r.passed["out"][t] + b <= b + R * (now - t)
             /\ r.passed["in"][t] + 0 + b <= b + R * (now - t) + MinBurst
  <2>1. PICK x \in Nat : x = R * (now - t)
    BY <1>6
  <2>2. 0 + b <= b + x /\ 0 + 0 + b <= b + x + MinBurst
    BY <1>1, <1>2, <2>1
  <2>3. QED
    BY <1>2, <1>5, <2>1, <2>2
<1>9. OutBudget(r.passed["out"], b, p, now) /\ InBudget(r.passed["in"], 0, b, p, now)
  BY <1>1, <1>2, <1>8 DEF OutBudget, InBudget
<1>10. QED
  BY <1>4, <1>5, <1>7, <1>9 DEF Nothing

-----------------------------------------------------------------------------
(* The budgets are kept by every step.                                     *)

LEMMA PlanSame ==
  ASSUME cfg' = cfg, NEW b
  PROVE  plan(alloc[b].id)' = plan(alloc'[b].id)
  BY DEF plan, planName

\* A step that leaves the clock alone, and puts r in the place of socket a.
LEMMA BudgetsPut ==
  ASSUME RelayInv, Budgets, NEW a \in Allocs, NEW r, alloc' = [alloc EXCEPT ![a] = r],
         UNCHANGED <<cfg, now>>,
         r.pc \in {"new", "live"} => Budget(r, plan(r.id), now)
  PROVE  Budgets'
<1>1. \A b \in Allocs : alloc'[b] = IF b = a THEN r ELSE alloc[b]
  BY DEF RelayInv, Types
<1>2. ASSUME NEW b \in Allocs, alloc'[b].pc \in {"new", "live"}
      PROVE  Budget(alloc'[b], plan(alloc'[b].id), now)
  <2>1. CASE b = a
    BY <1>1, <1>2, <2>1
  <2>2. CASE b # a
    BY <1>1, <1>2, <2>2 DEF Budgets
  <2>3. QED
    BY <2>1, <2>2
<1>3. now' = now /\ \A b \in Allocs : plan(alloc[b].id)' = plan(alloc'[b].id)
  BY PlanSame
<1>4. QED
  BY <1>2, <1>3 DEF Budgets

LEMMA LiveSocket ==
  ASSUME RelayInv, Budgets, NEW a \in Allocs, alloc[a].pc = "live"
  PROVE  /\ now \in Times /\ alloc[a] \in RelaySockets /\ alloc[a].passed \in Flows
         /\ plan(alloc[a].id) \in Plans /\ Budget(alloc[a], plan(alloc[a].id), now)
  BY PlanType DEF RelayInv, Types, Budgets

\* A plan without a rate has no budget to keep.
LEMMA NoBudget ==
  ASSUME NEW r, NEW p \in Plans, p.rate <= 0 PROVE Budget(r, p, now)
<1>1. ~(p.rate > 0)
  BY DEF Plans
<1>2. QED
  BY <1>1 DEF Budget

LEMMA WriteToBudget ==
  ASSUME RelayInv, Budgets, NEW a \in Allocs, WriteTo(a)
  PROVE  Budgets'
<1> DEFINE p == plan(alloc[a].id)
           o(n) == [alloc[a] EXCEPT !.outbound = Taken(alloc[a].outbound, p, n)]
<1>1. PICK n \in 1 .. MinBurst :
        /\ Packet(a, n)
        /\ alloc' = [alloc EXCEPT ![a] =
                IF p.rate <= 0 THEN Passes(alloc[a], "out", n)
                ELSE IF Tokens(alloc[a].outbound, p) < n THEN alloc[a]
                ELSE Passes(o(n), "out", n)]
  BY DEF WriteTo
<1>2. alloc[a].pc = "live" /\ UNCHANGED <<cfg, now>>
  BY <1>1 DEF WriteTo, Packet
<1>3. /\ now \in Times /\ alloc[a] \in RelaySockets /\ alloc[a].passed \in Flows
      /\ p \in Plans /\ Budget(alloc[a], p, now) /\ alloc[a].outbound \in Limiters
  BY <1>2, LiveSocket DEF RelaySockets
<1>4. /\ Passes(alloc[a], "out", n).id = alloc[a].id /\ Passes(o(n), "out", n).id = alloc[a].id
  <2>1. Taken(alloc[a].outbound, p, n) \in Limiters
    BY <1>3, TakenType
  <2>2. o(n) \in RelaySockets /\ o(n).passed \in Flows /\ o(n).id = alloc[a].id
    BY <1>3, <2>1 DEF RelaySockets
  <2> HIDE DEF o
  <2>3. QED
    BY <1>3, <2>2, PassesType
<1>5. CASE p.rate <= 0
  <2>1. alloc' = [alloc EXCEPT ![a] = Passes(alloc[a], "out", n)]
    BY <1>1, <1>5
  <2>2. Budget(Passes(alloc[a], "out", n), plan(Passes(alloc[a], "out", n).id), now)
    BY <1>3, <1>4, <1>5, NoBudget
  <2>3. QED
    BY <1>2, <2>1, <2>2, BudgetsPut
<1>6. CASE ~(p.rate <= 0) /\ Tokens(alloc[a].outbound, p) < n
  <2>1. alloc' = [alloc EXCEPT ![a] = alloc[a]]
    BY <1>1, <1>6
  <2>2. QED
    BY <1>2, <1>3, <2>1, BudgetsPut
<1>7. CASE ~(p.rate <= 0) /\ ~(Tokens(alloc[a].outbound, p) < n)
  <2>1. alloc' = [alloc EXCEPT ![a] = Passes(o(n), "out", n)]
    BY <1>1, <1>7
  <2>2. p.rate > 0
    BY <1>3, <1>7 DEF Plans
  <2>3. Budget(Passes(o(n), "out", n), p, now)
    BY <1>3, <1>7, <2>2, BudgetOut
  <2>4. Budget(Passes(o(n), "out", n), plan(Passes(o(n), "out", n).id), now)
    BY <1>4, <2>3
  <2>5. QED
    BY <1>2, <2>1, <2>4, BudgetsPut
<1>8. QED
  BY <1>5, <1>6, <1>7

LEMMA ReadFromBudget ==
  ASSUME RelayInv, Budgets, NEW a \in Allocs, ReadFrom(a)
  PROVE  Budgets'
<1> DEFINE p == plan(alloc[a].id)
           Wait(n) == Delay(alloc[a].inbound, p, n)
           o(n) == [alloc[a] EXCEPT !.inbound = Taken(alloc[a].inbound, p, n)]
           w(n) == [alloc[a] EXCEPT !.inbound = Taken(alloc[a].inbound, p, n),
                                    !.held = [size |-> n, due |-> now + Wait(n)]]
<1>1. PICK n \in 1 .. MinBurst :
        /\ Packet(a, n)
        /\ alloc' = [alloc EXCEPT ![a] =
                IF p.rate <= 0 THEN Passes(alloc[a], "in", n)
                ELSE IF n > burstFor(p) \/ Wait(n) > maxDelayFor(p.delay) THEN alloc[a]
                ELSE IF Wait(n) > 0 THEN w(n)
                ELSE Passes(o(n), "in", n)]
  BY DEF ReadFrom
<1>2. alloc[a].pc = "live" /\ alloc[a].held = <<>> /\ UNCHANGED <<cfg, now>>
  BY <1>1 DEF ReadFrom, Packet
<1>3. /\ now \in Times /\ alloc[a] \in RelaySockets /\ alloc[a].passed \in Flows
      /\ p \in Plans /\ Budget(alloc[a], p, now) /\ alloc[a].inbound \in Limiters
  BY <1>2, LiveSocket DEF RelaySockets
<1>4. /\ o(n) \in RelaySockets /\ o(n).passed = alloc[a].passed /\ o(n).id = alloc[a].id
      /\ o(n).outbound = alloc[a].outbound /\ o(n).inbound = Taken(alloc[a].inbound, p, n)
      /\ o(n).held = <<>> /\ w(n).id = alloc[a].id
  <2>1. Taken(alloc[a].inbound, p, n) \in Limiters
    BY <1>3, TakenType
  <2>2. QED
    BY <1>2, <1>3, <2>1 DEF RelaySockets
<1>5. /\ Passes(alloc[a], "in", n).id = alloc[a].id /\ Passes(o(n), "in", n).id = alloc[a].id
  <2> HIDE DEF o
  <2>1. QED
    BY <1>3, <1>4, PassesType
<1>6. CASE p.rate <= 0
  <2>1. alloc' = [alloc EXCEPT ![a] = Passes(alloc[a], "in", n)]
    BY <1>1, <1>6
  <2>2. Budget(Passes(alloc[a], "in", n), plan(Passes(alloc[a], "in", n).id), now)
    BY <1>3, <1>5, <1>6, NoBudget
  <2>3. QED
    BY <1>2, <2>1, <2>2, BudgetsPut
<1>7. CASE alloc' = [alloc EXCEPT ![a] = alloc[a]]
  BY <1>2, <1>3, <1>7, BudgetsPut
<1>8. CASE p.rate > 0 /\ alloc' = [alloc EXCEPT ![a] = w(n)]
  <2>1. Budget(w(n), p, now)
    BY <1>2, <1>3, <1>8, BudgetHold
  <2>2. Budget(w(n), plan(w(n).id), now)
    BY <1>4, <2>1
  <2> HIDE DEF w
  <2>3. QED
    BY <1>2, <1>8, <2>2, BudgetsPut
<1>9. CASE p.rate > 0 /\ ~(Wait(n) > 0) /\ alloc' = [alloc EXCEPT ![a] = Passes(o(n), "in", n)]
  <2>1. n \in Nat /\ now \in Nat
    BY <1>3, RelayAssumption DEF Times
  <2>2. PICK S \in Int : S = Level(alloc[a].inbound, p, now)
    BY <1>3, <1>9, <2>1, LevelTick
  <2>3. n <= S
    BY <1>3, <1>9, <2>2, DelayCovers
  <2>4. Level(o(n).inbound, p, now) = S - n
    BY <1>3, <1>4, <1>9, <2>2, LevelTaken
  <2>5. Owed(alloc[a]) = 0
    BY <1>2 DEF Owed
  <2>6. /\ Level(o(n).inbound, p, now) + n = Level(alloc[a].inbound, p, now) + Owed(alloc[a])
        /\ Level(o(n).inbound, p, now) >= 0
    BY <2>1, <2>2, <2>3, <2>4, <2>5
  <2> HIDE DEF o
  <2>7. Budget(Passes(o(n), "in", n), p, now)
    BY <1>3, <1>4, <1>9, <2>6, BudgetPassed
  <2>8. Budget(Passes(o(n), "in", n), plan(Passes(o(n), "in", n).id), now)
    BY <1>5, <2>7
  <2>9. QED
    BY <1>2, <1>9, <2>8, BudgetsPut
<1>10. QED
  <2> HIDE DEF w, o
  <2>1. p.rate <= 0 \/ p.rate > 0
    BY <1>3 DEF Plans
  <2>2. p.rate > 0 => ~(p.rate <= 0)
    BY <1>3 DEF Plans
  <2> HIDE DEF p, Wait
  <2>3. QED
    BY <1>1, <1>6, <1>7, <1>8, <1>9, <2>1, <2>2

LEMMA ReleaseBudget ==
  ASSUME RelayInv, Budgets, NEW a \in Allocs, Release(a)
  PROVE  Budgets'
<1> DEFINE p == plan(alloc[a].id)
           n == alloc[a].held.size
           o == [alloc[a] EXCEPT !.held = <<>>]
<1>1. /\ alloc[a].pc = "live" /\ alloc[a].held # <<>> /\ alloc[a].held.due <= now
      /\ UNCHANGED <<cfg, now>> /\ alloc' = [alloc EXCEPT ![a] = Passes(o, "in", n)]
  BY DEF Release
<1>2. /\ now \in Times /\ alloc[a] \in RelaySockets /\ alloc[a].passed \in Flows
      /\ p \in Plans /\ Budget(alloc[a], p, now) /\ alloc[a].inbound \in Limiters
  BY <1>1, LiveSocket DEF RelaySockets
<1>3. n \in 1 .. MinBurst /\ alloc[a].held.due \in Int /\ Owed(alloc[a]) = n
  BY <1>1, <1>2, OwedType
<1>4. /\ o \in RelaySockets /\ o.passed = alloc[a].passed /\ o.id = alloc[a].id
      /\ o.outbound = alloc[a].outbound /\ o.inbound = alloc[a].inbound /\ o.held = <<>>
  BY <1>2 DEF RelaySockets
<1> HIDE DEF o, n, p
<1>5. Passes(o, "in", n).id = alloc[a].id
  BY <1>2, <1>3, <1>4, PassesType
<1>6. Budget(Passes(o, "in", n), p, now)
  <2>1. CASE p.rate <= 0
    BY <1>2, <2>1, NoBudget
  <2>2. CASE p.rate > 0
    <3>1. n \in Nat /\ now \in Nat
      BY <1>2, <1>3, RelayAssumption DEF Times
    <3>2. PICK S \in Int : S = Level(alloc[a].inbound, p, now)
      BY <1>2, <2>2, <3>1, LevelTick
    <3>3. S >= 0
      <4>1. S >= 0 \/ S + p.rate * (alloc[a].held.due - now) >= 0
        BY <1>2, <2>2, <3>2 DEF Budget, Paid
      <4>2. PICK k \in Int : k = alloc[a].held.due - now /\ k <= 0
        BY <1>1, <1>3, <3>1
      <4>3. PICK R \in Int : R = p.rate /\ R > 0
        BY <1>2, <2>2 DEF Plans
      <4>4. R * k \in Int /\ R * k <= 0
        BY <4>2, <4>3
      <4>5. QED
        BY <3>2, <4>1, <4>2, <4>3, <4>4
    <3>4. /\ Level(o.inbound, p, now) + n = Level(alloc[a].inbound, p, now) + Owed(alloc[a])
          /\ Level(o.inbound, p, now) >= 0
      BY <1>3, <1>4, <3>2, <3>3
    <3>5. QED
      BY <1>2, <1>3, <1>4, <2>2, <3>4, BudgetPassed
  <2>3. QED
    BY <1>2, <2>1, <2>2 DEF Plans
<1>7. Budget(Passes(o, "in", n), plan(Passes(o, "in", n).id), now)
  BY <1>5, <1>6 DEF p
<1>8. QED
  BY <1>1, <1>7, BudgetsPut

LEMMA AllocateBudget ==
  ASSUME RelayInv, Budgets, NEW h \in Handlers, AllocatePacketConn(h)
  PROVE  Budgets'
<1>1. CASE UNCHANGED <<alloc, cfg, now>>
  BY <1>1 DEF Budgets, plan, planName
<1>2. ASSUME NEW a \in Allocs, NEW id \in AuthHandler(hand[h].name), UNCHANGED <<cfg, now>>,
             alloc' = [alloc EXCEPT ![a] =
               [pc |-> "new", id |-> id, inbound |-> [tokens |-> burstFor(plan(id)), last |-> now],
                outbound |-> [tokens |-> burstFor(plan(id)), last |-> now], held |-> <<>>,
                passed |-> [d \in {"in", "out"} |-> [t \in Times |-> 0]]]]
      PROVE  Budgets'
  <2>1. PICK r : r = [pc |-> "new", id |-> id,
                      inbound |-> [tokens |-> burstFor(plan(id)), last |-> now],
                      outbound |-> [tokens |-> burstFor(plan(id)), last |-> now], held |-> <<>>,
                      passed |-> [d \in {"in", "out"} |-> [t \in Times |-> 0]]]
    OBVIOUS
  <2>2. /\ r.id = id /\ r.held = <<>>
        /\ r.inbound = [tokens |-> burstFor(plan(id)), last |-> now]
        /\ r.outbound = [tokens |-> burstFor(plan(id)), last |-> now]
        /\ r.passed = [d \in {"in", "out"} |-> [t \in Times |-> 0]]
    BY <2>1
  <2>3. now \in Times /\ plan(id) \in Plans
    BY PlanType DEF RelayInv, Types
  <2>4. Budget(r, plan(r.id), now)
    BY <2>2, <2>3, BudgetNew
  <2>5. alloc' = [alloc EXCEPT ![a] = r]
    BY <1>2, <2>1
  <2>6. QED
    BY <1>2, <2>4, <2>5, BudgetsPut
<1>3. QED
  BY <1>1, <1>2 DEF AllocatePacketConn

LEMMA CreatedForUserBudget ==
  ASSUME RelayInv, Budgets, NEW h \in Handlers, CreatedForUser(h)
  PROVE  Budgets'
<1>1. PICK a \in Allocs : a = hand[h].alloc /\ alloc[a].pc = "new"
  BY DEF CreatedForUser, HandlerAt, RelayInv, Requests, SocketMade, Making
<1>2. PICK r : r = [alloc[a] EXCEPT !.pc = "live"]
  OBVIOUS
<1>3. alloc[a] \in RelaySockets /\ alloc \in [Allocs -> RelaySockets]
  BY DEF RelayInv, Types
<1>4. /\ r.id = alloc[a].id /\ r.held = alloc[a].held /\ r.inbound = alloc[a].inbound
      /\ r.outbound = alloc[a].outbound /\ r.passed = alloc[a].passed
  BY <1>2, <1>3 DEF RelaySockets
<1>5. Budget(alloc[a], plan(alloc[a].id), now)
  BY <1>1 DEF Budgets
<1>6. Budget(r, plan(r.id), now)
  BY <1>4, <1>5 DEF Budget, Owed, Paid
<1>7. alloc' = [alloc EXCEPT ![a] = r] /\ UNCHANGED <<cfg, now>>
  BY <1>1, <1>2, <1>3 DEF CreatedForUser
<1>8. QED
  BY <1>6, <1>7, BudgetsPut

LEMMA DeletedBudget ==
  ASSUME RelayInv, Budgets, NEW a \in Allocs, Deleted(a) \/ DeletedForUser(a)
  PROVE  Budgets'
<1> DEFINE d == [NoAlloc EXCEPT !.pc = "deleting", !.id = alloc[a].id]
           g == [NoAlloc EXCEPT !.pc = "gone"]
<1>1. d.pc = "deleting" /\ g.pc = "gone"
  BY DEF NoAlloc
<1>2. /\ UNCHANGED <<cfg, now>>
      /\ alloc' = [alloc EXCEPT ![a] = d] \/ alloc' = [alloc EXCEPT ![a] = g]
  BY DEF Deleted, DeletedForUser
<1> HIDE DEF d, g
<1>3. CASE alloc' = [alloc EXCEPT ![a] = d]
  BY <1>1, <1>2, <1>3, BudgetsPut
<1>4. CASE alloc' = [alloc EXCEPT ![a] = g]
  BY <1>1, <1>2, <1>4, BudgetsPut
<1>5. QED
  BY <1>2, <1>3, <1>4

LEMMA TickBudget ==
  ASSUME RelayInv, Budgets, Tick
  PROVE  Budgets'
<1>1. /\ now' = now + 1 /\ now + 1 \in Times /\ now \in Times /\ UNCHANGED <<alloc, cfg>>
  BY RelayAssumption DEF Tick, RelayInv, Types, Times
<1>2. ASSUME NEW a \in Allocs, alloc[a].pc \in {"new", "live"}
      PROVE  Budget(alloc[a], plan(alloc[a].id), now + 1)
  <2>1. /\ alloc[a] \in RelaySockets /\ alloc[a].passed \in Flows
        /\ plan(alloc[a].id) \in Plans /\ Budget(alloc[a], plan(alloc[a].id), now)
    BY <1>2, PlanType DEF RelayInv, Types, Budgets
  <2>2. QED
    BY <1>1, <2>1, BudgetTick
<1>3. \A b \in Allocs : plan(alloc[b].id)' = plan(alloc'[b].id)
  BY <1>1, PlanSame
<1>4. QED
  BY <1>1, <1>2, <1>3 DEF Budgets

LEMMA BudgetsStep ==
  ASSUME RelayInv, Budgets, [Next]_vars
  PROVE  Budgets'
<1>1. ASSUME UNCHANGED <<alloc, cfg, now>> PROVE Budgets'
  BY <1>1 DEF Budgets, plan, planName
<1>2. CASE UNCHANGED vars \/ Start \/ Close
  BY <1>1, <1>2 DEF vars, Start, Close, CheckConfig, ListenUDP, LocalAddr, RelayAddress, ListenTCP, NewServer,
     StartTo
<1>3. ASSUME NEW h \in Handlers, Request(h) \/ Quota(h) \/ Created(h) PROVE Budgets'
  BY <1>1, <1>3 DEF Request, Quota, Created
<1>4. ASSUME NEW h \in Handlers, AllocatePacketConn(h) \/ CreatedForUser(h) PROVE Budgets'
  BY <1>4, AllocateBudget, CreatedForUserBudget
<1>5. ASSUME NEW a \in Allocs,
             Deleted(a) \/ DeletedForUser(a) \/ WriteTo(a) \/ ReadFrom(a) \/ Release(a)
      PROVE  Budgets'
  BY <1>5, DeletedBudget, WriteToBudget, ReadFromBudget, ReleaseBudget
<1>6. CASE Tick
  BY <1>6, TickBudget
<1>7. QED
  BY <1>2, <1>3, <1>4, <1>5, <1>6 DEF Next

\* The traffic of a relay socket keeps within its plan (ReadFrom, WriteTo and the
\* limiters of shapedConn): in any span at most the burst and the rate over the
\* span, and peer-to-client one datagram more, whatever is dropped, held, released
\* late or cancelled, for every rate, burst and delay.
THEOREM BudgetKept == Spec => []WithinBudget
<1>1. Init => Budgets
  BY DEF Init, Budgets, NoAlloc
<1>2. RelayInv /\ Budgets => WithinBudget
  <2> SUFFICES ASSUME RelayInv, Budgets, NEW a \in Allocs, alloc[a].pc = "live",
                      plan(alloc[a].id).rate > 0, NEW t \in 0 .. now
               PROVE  LET p == plan(alloc[a].id)
                      IN  /\ alloc[a].passed["out"][t] <= burstFor(p) + p.rate * (now - t)
                          /\ alloc[a].passed["in"][t] <= burstFor(p) + p.rate * (now - t) + MinBurst
    BY DEF WithinBudget
  <2> DEFINE p == plan(alloc[a].id)
  <2>1. /\ now \in Times /\ alloc[a] \in RelaySockets /\ alloc[a].passed \in Flows
        /\ p \in Plans /\ Budget(alloc[a], p, now)
        /\ alloc[a].inbound \in Limiters /\ alloc[a].outbound \in Limiters
    BY LiveSocket DEF RelaySockets
  <2> HIDE DEF p
  <2>2. now \in Nat /\ t \in Times /\ t \in Nat /\ MinBurst \in Nat
    BY <2>1, RelayAssumption DEF Times
  <2>3. PICK x \in Nat, y \in Nat : x = alloc[a].passed["out"][t] /\ y = alloc[a].passed["in"][t]
    BY <2>1, <2>2, FlowFacts
  <2>4. PICK T \in Int, S \in Int :
          T = Level(alloc[a].outbound, p, now) /\ S = Level(alloc[a].inbound, p, now)
    BY <2>1, <2>2, LevelTick DEF p
  <2>5. PICK w \in Nat : w = Owed(alloc[a])
    BY <2>1, OwedType
  <2>6. PICK b \in Int, z \in Int : b = burstFor(p) /\ z = p.rate * (now - t)
    <3>1. burstFor(p) \in Int /\ p.rate \in Int /\ now - t \in Int
      BY <2>1, <2>2, BurstType DEF Plans
    <3>2. QED
      BY <3>1
  <2>7. x + T <= b + z /\ T >= 0 /\ y + w + S <= b + z + MinBurst /\ S + w >= 0
    BY <2>1, <2>3, <2>4, <2>5, <2>6 DEF p, Budget, OutBudget, InBudget
  <2>8. x <= b + z /\ y <= b + z + MinBurst
    BY <2>2, <2>7
  <2>9. QED
    BY <2>3, <2>6, <2>8 DEF p
<1>3. QED
  BY <1>1, <1>2, BudgetsStep, RelayInvariant, PTL DEF Spec
=============================================================================
