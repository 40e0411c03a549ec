-------------------------------- MODULE Relay --------------------------------
(***************************************************************************)
(* The TURN relay (relay/relay.go) around the server of pion/turn: how     *)
(* Start takes and gives back its listeners, how allocations are counted   *)
(* against the quota of a user's plan, and how a relay socket keeps its    *)
(* traffic within the plan's rate.                                         *)
(*                                                                         *)
(* The server handles the requests of the UDP listener one after another,  *)
(* and those of each TCP connection on a goroutine of its own.  For an     *)
(* Allocate request it calls the auth handler, the quota handler, the      *)
(* generator of relay sockets and, once the allocation exists, the event   *)
(* handler; each call is a step.  Time is in ticks, a rate is per tick.    *)
(* Sizes are in units in which a datagram is at most MinBurst.             *)
(***************************************************************************)
EXTENDS Integers, Sequences, FiniteSets, FiniteSetsExt, TLC

CONSTANTS
  Configs,      \* configurations given to Start
  Names,        \* TURN usernames that clients present
  Handlers,     \* goroutines that handle requests
  MaxAllocs,    \* relay sockets in all; then no port is free
  MinBurst,     \* minBurst
  DefaultDelay, \* DefaultMaxDelay
  MaxTime,      \* ticks
  Loads         \* Allocate requests and packets of one behaviour

\* A username or user ID: whether it carries an expiry prefix, and its suffix
\* "@plan", or "".  A plan: its numbers, of which none or a negative one stands
\* for a default or for no limit.
ASSUME RelayAssumption ==
  /\ \A n \in Names : n.expiry \in BOOLEAN
  /\ MaxAllocs \in Nat /\ MinBurst \in Nat \ {0} /\ DefaultDelay \in Nat /\ MaxTime \in Nat
  /\ Handlers # {} /\ IsFiniteSet(Handlers)
  /\ Loads \subseteq [requests : Nat, packets : Nat]
  /\ \A c \in Configs : \A p \in {c.default} \cup {c.plans[n] : n \in DOMAIN c.plans} :
       p \in [rate : Int, burst : Int, delay : Int, max : Int]

Allocs == 1 .. MaxAllocs
Times  == 0 .. MaxTime

VARIABLES
  cfg,    \* Config
  server, \* Start and Close: where they are, and the listeners that are open
  hand,   \* the handlers
  alloc,  \* the relay sockets
  count,  \* the counters of shapedGenerator and of its users
  now,    \* the clock
  load    \* what may still come (a bound)

vars == <<cfg, server, hand, alloc, count, now, load>>

-----------------------------------------------------------------------------
(* Config: who a user is, and which plan applies.                          *)

Strip(name) == [name EXCEPT !.expiry = FALSE]
IDs == Names \cup {Strip(n) : n \in Names}

\* The user ID that the auth handler reports: a static user is known by its name,
\* an ephemeral one by what follows the expiry.
AuthHandler(name) ==
  IF name \in DOMAIN cfg.users THEN {name}
  ELSE IF cfg.secret /\ name.expiry THEN {Strip(name)}
  ELSE {}

\* Mutant of userIDOf: the expiry stays part of the ID.
RawUserID(name) == name

userIDOf(name) ==
  IF ~cfg.secret \/ name \in DOMAIN cfg.users THEN name ELSE Strip(name)

planName(id) ==
  IF cfg.planFor # <<>> THEN cfg.planFor[id]
  ELSE IF id \in DOMAIN cfg.users /\ cfg.users[id] # "" THEN cfg.users[id]
  ELSE IF id.suffix \in DOMAIN cfg.plans THEN id.suffix
  ELSE ""

plan(id) ==
  LET name == planName(id)
  IN  IF name # "" /\ name \in DOMAIN cfg.plans THEN cfg.plans[name] ELSE cfg.default

burstFor(p) ==
  IF p.burst > 0 THEN Max({p.burst, MinBurst}) ELSE Max({p.rate \div 10, MinBurst})

maxDelayFor(d) == IF d < 0 THEN 0 ELSE IF d = 0 THEN DefaultDelay ELSE d

\* What Start refuses before it binds anything.
ConfigOK ==
  /\ (cfg.minPort = 0) <=> (cfg.maxPort = 0)
  /\ cfg.minPort <= cfg.maxPort
  /\ "" \notin DOMAIN cfg.plans
  /\ \A u \in DOMAIN cfg.users : u.who # ""
  /\ \A u \in DOMAIN cfg.users : cfg.users[u] = "" \/ cfg.users[u] \in DOMAIN cfg.plans

-----------------------------------------------------------------------------
(* A token bucket (golang.org/x/time/rate, external).                      *)

\* Tokens at the present time; a reservation may have left a debt.
Tokens(lim, p) == Min({burstFor(p), lim.tokens + p.rate * (now - lim.last)})

Taken(lim, p, n) == [tokens |-> Tokens(lim, p) - n, last |-> now]

\* How long a reservation of n has to wait.
Delay(lim, p, n) ==
  LET debt == n - Tokens(lim, p)
  IN  IF debt <= 0 THEN 0 ELSE (debt + p.rate - 1) \div p.rate

-----------------------------------------------------------------------------

\* passed  what has gone out of a relay socket since each tick, in each direction
\*         (history)
\* held    a packet that waits for budget, and until when
NoAlloc == [pc |-> "none", id |-> <<>>, inbound |-> [tokens |-> 0, last |-> 0],
            outbound |-> [tokens |-> 0, last |-> 0], held |-> <<>>, passed |-> <<>>]

Init ==
  /\ cfg \in Configs
  /\ server = [pc |-> "check", open |-> {}]
  /\ hand = [h \in Handlers |-> [pc |-> "idle", name |-> <<>>, alloc |-> 0]]
  /\ alloc = [a \in Allocs |-> NoAlloc]
  /\ count = [active |-> 0, user |-> [i \in IDs |-> [active |-> 0, rejected |-> 0]]]
  /\ now = 0
  /\ load \in Loads

-----------------------------------------------------------------------------
(* Start and Close.                                                        *)

StartTo(from, to, open) ==
  /\ server.pc = from
  /\ server' = [pc |-> to, open |-> open]
  /\ UNCHANGED <<cfg, hand, alloc, count, now, load>>

CheckConfig == StartTo("check", IF ConfigOK THEN "udp" ELSE "failed", {})

ListenUDP ==
  \/ StartTo("udp", "failed", {})
  \/ StartTo("udp", "bound", {"udp"})

\* The listener must report a UDP address.
LocalAddr ==
  \/ StartTo("bound", "address", server.open)
  \/ StartTo("bound", "failed", server.open \ {"udp"})

\* The address that clients are told, RelayIP or else the listener's, must be one
\* they can use.
RelayAddress ==
  LET unspecified == cfg.relayIP = "unspecified" \/ (cfg.relayIP = "none" /\ cfg.wildcard)
  IN  \/ ~unspecified /\ StartTo("address", "tcp", server.open)
      \/ unspecified /\ StartTo("address", "failed", server.open \ {"udp"})

\* Mutant of ListenTCP: an error leaves the UDP listener open.
ListenTCPLeaks ==
  \/ ~cfg.tcp /\ StartTo("tcp", "server", server.open)
  \/ cfg.tcp /\ StartTo("tcp", "server", server.open \cup {"tcp"})
  \/ cfg.tcp /\ StartTo("tcp", "failed", server.open)

ListenTCP ==
  \/ ~cfg.tcp /\ StartTo("tcp", "server", server.open)
  \/ cfg.tcp /\ StartTo("tcp", "server", server.open \cup {"tcp"})
  \/ cfg.tcp /\ StartTo("tcp", "failed", server.open \ {"udp"})

\* turn.NewServer
NewServer ==
  \/ StartTo("server", "serving", server.open)
  \/ StartTo("server", "failed", server.open \ {"udp", "tcp"})

Start == CheckConfig \/ ListenUDP \/ LocalAddr \/ RelayAddress \/ ListenTCP \/ NewServer

\* Close: the server (external) closes its listeners, and its allocations one by
\* one.
Close == StartTo("serving", "closed", {})

-----------------------------------------------------------------------------
(* The handler of an Allocate request.                                     *)

HandlerAt(h, from, to) ==
  /\ hand[h].pc = from
  /\ hand' = [hand EXCEPT ![h] = to]

Unoccupied == [pc |-> "idle", name |-> <<>>, alloc |-> 0]

\* A request comes and its credential is good, or it is rejected.
Request(h) ==
  /\ server.pc = "serving" /\ load.requests > 0
  /\ \A k \in Handlers : hand[k].pc # "idle" => cfg.tcp
  /\ \E n \in Names :
       HandlerAt(h, "idle", IF AuthHandler(n) = {} THEN Unoccupied
                            ELSE [pc |-> "quota", name |-> n, alloc |-> 0])
  /\ load' = [load EXCEPT !.requests = @ - 1]
  /\ UNCHANGED <<cfg, server, alloc, count, now>>

\* Mutant of WithinQuota: off by one.
WithinQuotaOrEqual(id) ==
  plan(id).max <= 0 \/ count.user[id].active <= plan(id).max

WithinQuota(id) ==
  plan(id).max <= 0 \/ count.user[id].active < plan(id).max

Quota(h) ==
  /\ \/ /\ HandlerAt(h, "quota", [hand[h] EXCEPT !.pc = "socket"])
        /\ WithinQuota(userIDOf(hand[h].name))
        /\ UNCHANGED count
     \/ /\ HandlerAt(h, "quota", Unoccupied)
        /\ ~WithinQuota(userIDOf(hand[h].name))
        /\ count' = [count EXCEPT !.user[userIDOf(hand[h].name)].rejected = @ + 1]
  /\ UNCHANGED <<cfg, server, alloc, now, load>>

\* AllocatePacketConn: the socket with full buckets, or an error.
AllocatePacketConn(h) ==
  /\ \/ /\ HandlerAt(h, "socket", Unoccupied)
        /\ UNCHANGED alloc
     \/ \E a \in Allocs :
          /\ HandlerAt(h, "socket", [hand[h] EXCEPT !.pc = "created", !.alloc = a])
          /\ alloc[a].pc = "none" /\ \A b \in Allocs : b < a => alloc[b].pc # "none"
          /\ \E id \in AuthHandler(hand[h].name) :
              LET full == [tokens |-> burstFor(plan(id)), last |-> now]
              IN  alloc' = [alloc EXCEPT ![a] =
                     [pc |-> "new", id |-> id, inbound |-> full, outbound |-> full, held |-> <<>>,
                      passed |-> [d \in {"in", "out"} |-> [t \in Times |-> 0]]]]
  /\ UNCHANGED <<cfg, server, count, now, load>>

\* Mutant of Created: the server's counter is left as it is.
CreatedUncounted(h) ==
  /\ HandlerAt(h, "created", [hand[h] EXCEPT !.pc = "counting"])
  /\ UNCHANGED <<cfg, server, alloc, count, now, load>>

\* OnAllocationCreated, in two atomic additions.
Created(h) ==
  /\ HandlerAt(h, "created", [hand[h] EXCEPT !.pc = "counting"])
  /\ count' = [count EXCEPT !.active = @ + 1]
  /\ UNCHANGED <<cfg, server, alloc, now, load>>

CreatedForUser(h) ==
  /\ HandlerAt(h, "counting", Unoccupied)
  /\ count' = [count EXCEPT !.user[alloc[hand[h].alloc].id].active = @ + 1]
  /\ alloc' = [alloc EXCEPT ![hand[h].alloc].pc = "live"]
  /\ UNCHANGED <<cfg, server, now, load>>

\* An allocation ends: its lifetime is over, the client gives it up, or Close.
\* OnAllocationDeleted, in two atomic additions.
Deleted(a) ==
  /\ alloc[a].pc = "live"
  /\ alloc' = [alloc EXCEPT ![a] = [NoAlloc EXCEPT !.pc = "deleting", !.id = alloc[a].id]]
  /\ count' = [count EXCEPT !.active = @ - 1]
  /\ UNCHANGED <<cfg, server, hand, now, load>>

\* Mutant of DeletedForUser: the user's counter is left as it is.
DeletedUncounted(a) ==
  /\ alloc[a].pc = "deleting"
  /\ alloc' = [alloc EXCEPT ![a] = [NoAlloc EXCEPT !.pc = "gone"]]
  /\ UNCHANGED <<cfg, server, hand, count, now, load>>

DeletedForUser(a) ==
  /\ alloc[a].pc = "deleting"
  /\ alloc' = [alloc EXCEPT ![a] = [NoAlloc EXCEPT !.pc = "gone"]]
  /\ count' = [count EXCEPT !.user[alloc[a].id].active = @ - 1]
  /\ UNCHANGED <<cfg, server, hand, now, load>>

-----------------------------------------------------------------------------
(* The traffic of a relay socket.  A plan without a rate counts packets    *)
(* only (countingConn).                                                    *)

Packet(a, n) ==
  /\ alloc[a].pc = "live" /\ n \in 1 .. MinBurst /\ load.packets > 0
  /\ load' = [load EXCEPT !.packets = @ - 1]

Passes(al, dir, n) ==
  [al EXCEPT !.passed[dir] = [t \in Times |-> al.passed[dir][t] + IF t <= now THEN n ELSE 0]]

\* WriteTo: what does not fit the budget is dropped.
WriteTo(a) ==
  /\ \E n \in 1 .. MinBurst :
       LET al == alloc[a]
           p  == plan(al.id)
       IN  /\ Packet(a, n)
           /\ alloc' = [alloc EXCEPT ![a] =
                IF p.rate <= 0 THEN Passes(al, "out", n)
                ELSE IF Tokens(al.outbound, p) < n THEN al
                ELSE Passes([al EXCEPT !.outbound = Taken(al.outbound, p, n)], "out", n)]
  /\ UNCHANGED <<cfg, server, hand, count, now>>

\* ReadFrom: a packet passes, or is held until its reservation is due, or is
\* dropped and its reservation cancelled.
ReadFrom(a) ==
  /\ alloc[a].held = <<>>
  /\ \E n \in 1 .. MinBurst :
       LET al    == alloc[a]
           p     == plan(al.id)
           delay == Delay(al.inbound, p, n)
       IN  /\ Packet(a, n)
           /\ alloc' = [alloc EXCEPT ![a] =
                IF p.rate <= 0 THEN Passes(al, "in", n)
                ELSE IF n > burstFor(p) \/ delay > maxDelayFor(p.delay) THEN al
                ELSE IF delay > 0
                THEN [al EXCEPT !.inbound = Taken(al.inbound, p, n),
                                !.held = [size |-> n, due |-> now + delay]]
                ELSE Passes([al EXCEPT !.inbound = Taken(al.inbound, p, n)], "in", n)]
  /\ UNCHANGED <<cfg, server, hand, count, now>>

\* Mutant of Release: a held packet does not wait.
ReleaseEarly(a) ==
  /\ alloc[a].pc = "live" /\ alloc[a].held # <<>>
  /\ alloc' = [alloc EXCEPT ![a] = Passes([alloc[a] EXCEPT !.held = <<>>], "in", alloc[a].held.size)]
  /\ UNCHANGED <<cfg, server, hand, count, now, load>>

\* The sleep is over, at the earliest when the reservation is due.
Release(a) ==
  /\ alloc[a].pc = "live" /\ alloc[a].held # <<>> /\ alloc[a].held.due <= now
  /\ alloc' = [alloc EXCEPT ![a] = Passes([alloc[a] EXCEPT !.held = <<>>], "in", alloc[a].held.size)]
  /\ UNCHANGED <<cfg, server, hand, count, now, load>>

Tick ==
  /\ now < MaxTime /\ load.packets > 0
  /\ \E a \in Allocs : alloc[a].pc = "live"
  /\ now' = now + 1
  /\ UNCHANGED <<cfg, server, hand, alloc, count, load>>

-----------------------------------------------------------------------------

Next ==
  \/ Start \/ Close
  \/ \E h \in Handlers : \/ Request(h) \/ Quota(h) \/ AllocatePacketConn(h)
                         \/ Created(h) \/ CreatedForUser(h)
  \/ \E a \in Allocs : \/ Deleted(a) \/ DeletedForUser(a)
                       \/ WriteTo(a) \/ ReadFrom(a) \/ Release(a)
  \/ Tick

Spec == Init /\ [][Next]_vars

-----------------------------------------------------------------------------
(* Properties.                                                             *)

Limiters == [tokens : Int, last : Times]

\* The variables keep their types, and no counter goes below zero.
TypeOK ==
  /\ server.pc \in {"check", "udp", "bound", "address", "tcp", "server", "serving", "failed", "closed"}
  /\ server.open \subseteq {"udp", "tcp"}
  /\ hand \in [Handlers -> [pc : {"idle", "quota", "socket", "created", "counting"},
                            name : Names \cup {<<>>}, alloc : Allocs \cup {0}]]
  /\ \A a \in Allocs :
       /\ alloc[a].pc \in {"none", "new", "live", "deleting", "gone"}
       /\ alloc[a].id \in IDs \cup {<<>>}
       /\ alloc[a].inbound \in Limiters /\ alloc[a].outbound \in Limiters
  /\ count.active \in Nat
  /\ count.user \in [IDs -> [active : Nat, rejected : Nat]]
  /\ now \in Times

\* A Start that fails, wherever it fails, and a server that is closed hold no
\* listener.
NoListenerLeft ==
  server.pc \in {"failed", "closed"} => server.open = {}

\* The relay sockets of a user, and the requests of the user that have passed the
\* check of the quota and have no socket yet.
Sockets(id) == {a \in Allocs : alloc[a].pc \in {"new", "live", "deleting"} /\ alloc[a].id = id}
Admitted(id) == {h \in Handlers : hand[h].pc = "socket" /\ id \in AuthHandler(hand[h].name)}

\* The check of the quota and the count are apart, and the handlers of other
\* connections get in between: a user holds at most one socket beyond its plan
\* for every other handler, under whichever of its usernames they were asked for.
\* Without a TCP listener, which serves each connection apart, it keeps the plan.
QuotaBounded ==
  \A id \in IDs :
    plan(id).max > 0 =>
      Cardinality(Sockets(id)) + Cardinality(Admitted(id))
        <= plan(id).max + IF cfg.tcp THEN Cardinality(Handlers) - 1 ELSE 0

\* relay.go:77 says that MaxAllocations bounds the relay sockets one user may
\* hold at a time: the plan kept exactly.
QuotaExact ==
  \A id \in IDs : plan(id).max > 0 => Cardinality(Sockets(id)) <= plan(id).max

\* A user is refused only while it holds as many sockets as its plan allows: what
\* is counted for a socket is given back when the socket ends, on every path.
RefusedOnlyWhenFull ==
  [][\A id \in IDs :
       count'.user[id].rejected > count.user[id].rejected
         => Cardinality(Sockets(id)) >= plan(id).max]_vars

\* What passes a relay socket within any span of time is at most the burst and
\* the rate over that span, for each direction; peer-to-client, a packet that was
\* held may come late, and with it what the bucket has gained meanwhile.  The span
\* ends now: one that ended before was such a span when it ended.
WithinBudget ==
  \A a \in Allocs : alloc[a].pc = "live" =>
    LET p == plan(alloc[a].id)
    IN  p.rate > 0 =>
          \A t \in 0 .. now :
            /\ alloc[a].passed["out"][t] <= burstFor(p) + p.rate * (now - t)
            /\ alloc[a].passed["in"][t] <= burstFor(p) + p.rate * (now - t) + MinBurst
=============================================================================
