---------------------------- MODULE SessionProofs ----------------------------
(***************************************************************************)
(* What TLAPS proves of Session, for any settings (candidates, number of   *)
(* restart attempts, bound on generations) and any buffer bound.           *)
(***************************************************************************)
EXTENDS Session, FiniteSetTheorems, TLAPS

(* Most of the invariant speaks of one end at a time: it is a predicate of *)
(* that end's record.                                                      *)

Sessions ==
  [pc : {"none", "loop", "down", "release", "closed"},
   st : {"new", "signaling", "connecting", "connected", "recovering", "closed"},
   remote : Nat \cup {None}, gen : Nat, attempt : 0 .. MaxAttempts,
   timers : SUBSET {"negotiate", "recovery", "keepalive", "linger"},
   pend : SUBSET Nat,
   stream : {"none", "open", "closed", "ended", "invalid"},
   pinging : BOOLEAN, peerClosed : BOOLEAN,
   intent : {"none", "notify", "silent", "graceful"},
   fin : {"none", "close", "shutdown", "eof"},
   ice : {"new", "up", "down", "failed"},
   gathered : SUBSET Nat, applied : SUBSET Nat,
   arrived : SUBSET Nat, tries : Nat,
   closes : SUBSET {"peer", "own"}]

PendBounded(r) == IsFiniteSet(r.pend) /\ Cardinality(r.pend \ {End}) <= MaxPending

IsEstablished(r) == r.st \in {"connected", "recovering"}

\* What holds of a session in its loop.  Between the loop's events an
\* established session is one that has a stream.
LoopInv(r) ==
  /\ r.arrived = r.applied \cup r.pend
  /\ r.remote # None => r.pend = {}
  /\ ~IsEstablished(r) <=> "negotiate" \in r.timers
  /\ r.st = "recovering" <=> "recovery" \in r.timers
  /\ r.peerClosed <=> "linger" \in r.timers
  /\ KeepAlive /\ r.st = "connected" => r.pinging \/ "keepalive" \in r.timers
  /\ IsEstablished(r) <=> r.stream # "none"

\* A session that has not started is as NewSession made it.
Good(r) ==
  /\ cfg \in Settings
  /\ r \in Sessions
  /\ PendBounded(r)
  /\ r.pc = "none" => r = NewSession
  /\ r.pc = "loop" => LoopInv(r)

\* The answerer has the offer before it has a loop.
AnswererHasOffer == InLoop(Answerer) => s[Answerer].remote # None

NetOK == net \subseteq [to : Ends, kind : Kinds, n : Nat]

EndsInv ==
  /\ cfg \in Settings
  /\ s \in [Ends -> Sessions]
  /\ \A x \in Ends : Good(s[x])
  /\ AnswererHasOffer

\* The generations of the ends and of the signals between them.  A session that
\* has closed has forgotten its own.
GenInv ==
  /\ s[Answerer].pc # "closed" =>
       /\ s[Offerer].remote <= s[Answerer].gen
       /\ \A m \in net : m.kind = "answer" => m.n <= s[Answerer].gen
  /\ s[Offerer].pc # "closed" =>
       /\ s[Answerer].gen <= s[Offerer].gen
       /\ \A m \in net : m.kind = "restart" => m.n <= s[Offerer].gen

SessionInv == EndsInv /\ NetOK /\ GenInv

-----------------------------------------------------------------------------
(* Facts about records.                                                    *)

\* A field may take any value of its type.
LEMMA Setters ==
  ASSUME NEW a \in Sessions
  PROVE  /\ \A v \in {"none", "loop", "down", "release", "closed"} : [a EXCEPT !.pc = v] \in Sessions
         /\ \A v \in {"new", "signaling", "connecting", "connected", "recovering", "closed"} : [a EXCEPT !.st = v] \in Sessions
         /\ \A v \in Nat \cup {None} : [a EXCEPT !.remote = v] \in Sessions
         /\ \A v \in Nat : [a EXCEPT !.gen = v] \in Sessions
         /\ \A v \in 0 .. MaxAttempts : [a EXCEPT !.attempt = v] \in Sessions
         /\ \A v \in SUBSET {"negotiate", "recovery", "keepalive", "linger"} : [a EXCEPT !.timers = v] \in Sessions
         /\ \A v \in SUBSET Nat : [a EXCEPT !.pend = v] \in Sessions
         /\ \A v \in {"none", "open", "closed", "ended", "invalid"} : [a EXCEPT !.stream = v] \in Sessions
         /\ \A v \in BOOLEAN : [a EXCEPT !.pinging = v] \in Sessions
         /\ \A v \in BOOLEAN : [a EXCEPT !.peerClosed = v] \in Sessions
         /\ \A v \in {"none", "notify", "silent", "graceful"} : [a EXCEPT !.intent = v] \in Sessions
         /\ \A v \in {"none", "close", "shutdown", "eof"} : [a EXCEPT !.fin = v] \in Sessions
         /\ \A v \in {"new", "up", "down", "failed"} : [a EXCEPT !.ice = v] \in Sessions
         /\ \A v \in SUBSET Nat : [a EXCEPT !.gathered = v] \in Sessions
         /\ \A v \in SUBSET Nat : [a EXCEPT !.applied = v] \in Sessions
         /\ \A v \in SUBSET Nat : [a EXCEPT !.arrived = v] \in Sessions
         /\ \A v \in Nat : [a EXCEPT !.tries = v] \in Sessions
         /\ \A v \in SUBSET {"peer", "own"} : [a EXCEPT !.closes = v] \in Sessions
<1>1. \A v \in {"none", "loop", "down", "release", "closed"} : [a EXCEPT !.pc = v] \in Sessions
  BY DEF Sessions
<1>2. \A v \in {"new", "signaling", "connecting", "connected", "recovering", "closed"} : [a EXCEPT !.st = v] \in Sessions
  BY DEF Sessions
<1>3. \A v \in Nat \cup {None} : [a EXCEPT !.remote = v] \in Sessions
  BY DEF Sessions
<1>4. \A v \in Nat : [a EXCEPT !.gen = v] \in Sessions
  BY DEF Sessions
<1>5. \A v \in 0 .. MaxAttempts : [a EXCEPT !.attempt = v] \in Sessions
  BY DEF Sessions
<1>6. \A v \in SUBSET {"negotiate", "recovery", "keepalive", "linger"} : [a EXCEPT !.timers = v] \in Sessions
  BY DEF Sessions
<1>7. \A v \in SUBSET Nat : [a EXCEPT !.pend = v] \in Sessions
  BY DEF Sessions
<1>8. \A v \in {"none", "open", "closed", "ended", "invalid"} : [a EXCEPT !.stream = v] \in Sessions
  BY DEF Sessions
<1>9. \A v \in BOOLEAN : [a EXCEPT !.pinging = v] \in Sessions
  BY DEF Sessions
<1>10. \A v \in BOOLEAN : [a EXCEPT !.peerClosed = v] \in Sessions
  BY DEF Sessions
<1>11. \A v \in {"none", "notify", "silent", "graceful"} : [a EXCEPT !.intent = v] \in Sessions
  BY DEF Sessions
<1>12. \A v \in {"none", "close", "shutdown", "eof"} : [a EXCEPT !.fin = v] \in Sessions
  BY DEF Sessions
<1>13. \A v \in {"new", "up", "down", "failed"} : [a EXCEPT !.ice = v] \in Sessions
  BY DEF Sessions
<1>14. \A v \in SUBSET Nat : [a EXCEPT !.gathered = v] \in Sessions
  BY DEF Sessions
<1>15. \A v \in SUBSET Nat : [a EXCEPT !.applied = v] \in Sessions
  BY DEF Sessions
<1>16. \A v \in SUBSET Nat : [a EXCEPT !.arrived = v] \in Sessions
  BY DEF Sessions
<1>17. \A v \in Nat : [a EXCEPT !.tries = v] \in Sessions
  BY DEF Sessions
<1>18. \A v \in SUBSET {"peer", "own"} : [a EXCEPT !.closes = v] \in Sessions
  BY DEF Sessions
<1>19. QED
  BY <1>1, <1>2, <1>3, <1>4, <1>5, <1>6, <1>7, <1>8, <1>9,
     <1>10, <1>11, <1>12, <1>13, <1>14, <1>15, <1>16, <1>17, <1>18

LEMMA Getters ==
  ASSUME NEW a \in Sessions
  PROVE  /\ a.pc \in {"none", "loop", "down", "release", "closed"}
         /\ a.st \in {"new", "signaling", "connecting", "connected", "recovering", "closed"}
         /\ a.remote \in Nat \cup {None}
         /\ a.gen \in Nat
         /\ a.attempt \in 0 .. MaxAttempts
         /\ a.timers \in SUBSET {"negotiate", "recovery", "keepalive", "linger"}
         /\ a.pend \in SUBSET Nat
         /\ a.stream \in {"none", "open", "closed", "ended", "invalid"}
         /\ a.pinging \in BOOLEAN
         /\ a.peerClosed \in BOOLEAN
         /\ a.intent \in {"none", "notify", "silent", "graceful"}
         /\ a.fin \in {"none", "close", "shutdown", "eof"}
         /\ a.ice \in {"new", "up", "down", "failed"}
         /\ a.gathered \in SUBSET Nat
         /\ a.applied \in SUBSET Nat
         /\ a.arrived \in SUBSET Nat
         /\ a.tries \in Nat
         /\ a.closes \in SUBSET {"peer", "own"}
  BY DEF Sessions

LEMMA EmptyPend == IsFiniteSet({}) /\ Cardinality({} \ {End}) = 0
<1>1. {} \ {End} = {}
  OBVIOUS
<1>2. QED
  BY <1>1, FS_EmptySet

\* What a setting says of the session's parameters.
LEMMA SettingTyped ==
  ASSUME cfg \in Settings
  PROVE  /\ MaxAttempts \in Nat /\ KeepAlive \in BOOLEAN
         /\ \A x \in Ends : Found[x] \in SUBSET Nat
  BY SessionAssumption DEF MaxAttempts, KeepAlive, Found, Ends, Offerer, Answerer

LEMMA NewGood ==
  ASSUME cfg \in Settings
  PROVE  Good(NewSession)
<1>1. NewSession \in Sessions
  BY SettingTyped DEF NewSession, Sessions, None
<1>2. PendBounded(NewSession)
  BY EmptyPend, SessionAssumption DEF NewSession, PendBounded
<1>3. NewSession.pc = "none"
  BY DEF NewSession
<1>4. QED
  BY <1>1, <1>2, <1>3 DEF Good

\* What Leave puts in the place of the record.
Left(r, intent) ==
  [NewSession EXCEPT !.pc = "down", !.st = "closed", !.intent = intent,
     !.remote = r.remote, !.gen = r.gen, !.stream = r.stream,
     !.peerClosed = r.peerClosed, !.closes = r.closes]

LEMMA LeftGood ==
  ASSUME cfg \in Settings, NEW r \in Sessions,
         NEW intent \in {"notify", "silent", "graceful"}
  PROVE  Good(Left(r, intent)) /\ Left(r, intent).remote = r.remote /\ Left(r, intent).gen = r.gen
         /\ Left(r, intent).pc = "down"
<1>0. NewSession \in Sessions
  BY NewGood DEF Good
<1>1. Left(r, intent) \in Sessions
  <2> DEFINE a == [NewSession EXCEPT !.pc = "down", !.st = "closed", !.intent = intent]
             b == [a EXCEPT !.remote = r.remote, !.gen = r.gen, !.stream = r.stream]
  <2>1. a \in Sessions
    BY <1>0, Setters
  <2>2. b \in Sessions
    <3> HIDE DEF a
    <3>1. QED
      BY <2>1, Getters, Setters
  <2>3. [b EXCEPT !.peerClosed = r.peerClosed, !.closes = r.closes] \in Sessions
    <3> HIDE DEF b
    <3>1. QED
      BY <2>2, Getters, Setters
  <2>4. QED
    BY <2>3 DEF Left
<1>2. PendBounded(Left(r, intent))
  BY EmptyPend, SessionAssumption DEF NewSession, PendBounded, Left
<1>3. /\ Left(r, intent).pc = "down"
      /\ Left(r, intent).remote = r.remote /\ Left(r, intent).gen = r.gen
  BY DEF NewSession, Left
<1>4. QED
  BY <1>1, <1>2, <1>3 DEF Good

\* Each of the following is what a handler makes of the record of a session in
\* its loop.

LEMMA StartOffererGood ==
  ASSUME cfg \in Settings
  PROVE  LET q == [NewSession EXCEPT !.pc = "loop", !.st = "signaling", !.timers = {"negotiate"}]
         IN  Good(q) /\ q.remote = None /\ q.gen = 0 /\ q.pc = "loop"
<1>1. NewSession \in Sessions
  BY NewGood DEF Good
<1> DEFINE q == [NewSession EXCEPT !.pc = "loop", !.st = "signaling", !.timers = {"negotiate"}]
<1>2. q \in Sessions
  BY <1>1 DEF Sessions
<1>3. PendBounded(q)
  BY EmptyPend, SessionAssumption DEF NewSession, PendBounded
<1>4. q.pc = "loop" /\ q.remote = None /\ q.gen = 0
  BY DEF NewSession
<1>5. LoopInv(q)
  BY DEF NewSession, LoopInv, IsEstablished
<1>6. QED
  BY <1>2, <1>3, <1>4, <1>5 DEF Good

LEMMA StartAnswererGood ==
  ASSUME cfg \in Settings
  PROVE  LET q == [NewSession EXCEPT !.pc = "loop", !.st = "connecting", !.remote = 0,
                                     !.timers = {"negotiate"}]
         IN  Good(q) /\ q.remote = 0 /\ q.gen = 0 /\ q.pc = "loop"
<1>1. NewSession \in Sessions
  BY NewGood DEF Good
<1> DEFINE q == [NewSession EXCEPT !.pc = "loop", !.st = "connecting", !.remote = 0,
                                   !.timers = {"negotiate"}]
<1>2. q \in Sessions
  BY <1>1 DEF Sessions
<1>3. PendBounded(q)
  BY EmptyPend, SessionAssumption DEF NewSession, PendBounded
<1>4. q.pc = "loop" /\ q.remote = 0 /\ q.gen = 0
  BY DEF NewSession
<1>5. LoopInv(q)
  BY DEF NewSession, LoopInv, IsEstablished
<1>6. QED
  BY <1>2, <1>3, <1>4, <1>5 DEF Good

\* OnAnswer.
LEMMA AnswerGood ==
  ASSUME NEW r, Good(r), r.pc = "loop", NEW n \in Nat
  PROVE  LET q == Flushed([r EXCEPT !.remote = n, !.attempt = 0,
                             !.st = IF @ = "signaling" THEN "connecting" ELSE @])
         IN  Good(q) /\ q.pc = "loop" /\ q.remote = n /\ q.gen = r.gen
<1> DEFINE p == [r EXCEPT !.remote = n, !.attempt = 0,
                   !.st = IF @ = "signaling" THEN "connecting" ELSE @]
           q == [p EXCEPT !.applied = @ \cup p.pend, !.pend = {}]
<1>1. p \in Sessions /\ 0 \in 0 .. MaxAttempts
  <2>1. 0 \in 0 .. MaxAttempts /\ r \in Sessions
    BY SettingTyped DEF Good
  <2>2. (IF r.st = "signaling" THEN "connecting" ELSE r.st) \in
           {"new", "signaling", "connecting", "connected", "recovering", "closed"}
    BY <2>1, Getters
  <2>3. QED
    BY <2>1, <2>2, Setters
<1>2. q \in Sessions
  <2> HIDE DEF p
  <2>1. QED
    BY <1>1, Getters, Setters
<1>3. PendBounded(q)
  BY EmptyPend, SessionAssumption DEF PendBounded, Good, Sessions
<1>4. q.pc = "loop" /\ q.remote = n /\ q.gen = r.gen
  BY DEF Good, Sessions
<1>5. LoopInv(q)
  BY DEF Good, LoopInv, IsEstablished, Sessions, None
<1>6. QED
  BY <1>2, <1>3, <1>4, <1>5 DEF Good, Flushed

\* OnRestart.
LEMMA RestartGood ==
  ASSUME NEW r, Good(r), r.pc = "loop", r.remote # None, NEW n \in Nat
  PROVE  LET q == [r EXCEPT !.gen = n, !.remote = n]
         IN  Good(q) /\ q.pc = "loop" /\ q.remote = n /\ q.gen = n
<1> DEFINE q == [r EXCEPT !.gen = n, !.remote = n]
<1>1. r \in Sessions /\ q \in Sessions
  BY Setters DEF Good
<1>2. q.pc = "loop" /\ q.remote = n /\ q.gen = n /\ PendBounded(q) /\ LoopInv(q)
  BY <1>1 DEF Good, LoopInv, IsEstablished, Sessions, PendBounded
<1>3. QED
  BY <1>1, <1>2 DEF Good

\* The other handlers that stay in the loop keep what the generations are about.
Alike(q, r) == q.pc = r.pc /\ q.remote = r.remote /\ q.gen = r.gen

\* OnCandidate, with the description there ...
LEMMA AppliedGood ==
  ASSUME NEW r, Good(r), r.pc = "loop", r.remote # None, NEW c \in Nat
  PROVE  LET q == [[r EXCEPT !.arrived = @ \cup {c}] EXCEPT !.applied = @ \cup {c}]
         IN  Good(q) /\ Alike(q, r)
<1> DEFINE q == [[r EXCEPT !.arrived = @ \cup {c}] EXCEPT !.applied = @ \cup {c}]
<1>0. r \in Sessions /\ r.arrived \cup {c} \in SUBSET Nat /\ r.applied \cup {c} \in SUBSET Nat
  BY Getters DEF Good
<1>1. q \in Sessions
  <2> DEFINE a == [r EXCEPT !.arrived = @ \cup {c}]
  <2>1. a \in Sessions
    BY <1>0, Setters
  <2>2. a.applied = r.applied
    BY <1>0 DEF Sessions
  <2>3. [a EXCEPT !.applied = @ \cup {c}] \in Sessions
    <3> HIDE DEF a
    <3>1. QED
      BY <1>0, <2>1, <2>2, Setters
  <2>4. QED
    BY <2>3
<1>2. Alike(q, r) /\ PendBounded(q) /\ LoopInv(q)
  BY <1>0 DEF Good, LoopInv, IsEstablished, Sessions, PendBounded, Alike
<1>3. QED
  BY <1>1, <1>2 DEF Good, Alike

\* ... and without it, with room in the buffer.
LEMMA BufferedGood ==
  ASSUME NEW r, Good(r), r.pc = "loop", r.remote = None, NEW c \in Nat,
         c # End => ~(Cardinality(r.pend \ {End}) >= MaxPending)
  PROVE  LET q == [[r EXCEPT !.arrived = @ \cup {c}] EXCEPT !.pend = @ \cup {c}]
         IN  Good(q) /\ Alike(q, r)
<1> DEFINE q == [[r EXCEPT !.arrived = @ \cup {c}] EXCEPT !.pend = @ \cup {c}]
<1>0. r \in Sessions /\ r.arrived \cup {c} \in SUBSET Nat /\ r.pend \cup {c} \in SUBSET Nat
  BY Getters DEF Good
<1>1. q \in Sessions
  <2> DEFINE a == [r EXCEPT !.arrived = @ \cup {c}]
  <2>1. a \in Sessions
    BY <1>0, Setters
  <2>2. a.pend = r.pend
    BY <1>0 DEF Sessions
  <2>3. [a EXCEPT !.pend = @ \cup {c}] \in Sessions
    <3> HIDE DEF a
    <3>1. QED
      BY <1>0, <2>1, <2>2, Setters
  <2>4. QED
    BY <2>3
<1>2. Alike(q, r) /\ LoopInv(q) /\ q.pend = r.pend \cup {c}
  BY <1>0 DEF Good, LoopInv, IsEstablished, Sessions, Alike
<1>3. PendBounded(q)
  <2> DEFINE P == r.pend \ {End}
  <2>1. IsFiniteSet(r.pend) /\ IsFiniteSet(P) /\ Cardinality(P) <= MaxPending
    BY FS_Subset DEF Good, PendBounded
  <2>2. IsFiniteSet(q.pend)
    BY <1>2, <2>1, FS_AddElement
  <2>3. CASE c = End \/ c \in P
    <3>1. q.pend \ {End} = P
      BY <1>2, <2>3
    <3>2. QED
      BY <2>1, <2>2, <3>1 DEF PendBounded
  <2>4. CASE c # End /\ c \notin P
    <3>1. q.pend \ {End} = P \cup {c}
      BY <1>2, <2>4
    <3>2. Cardinality(P \cup {c}) = Cardinality(P) + 1 /\ Cardinality(P) \in Nat
      BY <2>1, <2>4, FS_AddElement, FS_CardinalityType
    <3>3. Cardinality(P) + 1 <= MaxPending
      BY <2>4, <3>2, SessionAssumption
    <3>4. QED
      BY <2>2, <3>1, <3>2, <3>3 DEF PendBounded
  <2>5. QED
    BY <2>3, <2>4
<1>4. QED
  BY <1>1, <1>2, <1>3 DEF Good, Alike

\* OnClose, which waits for the stream of a connected session.
LEMMA LingerGood ==
  ASSUME NEW r, Good(r), r.pc = "loop", r.stream # "none"
  PROVE  LET q == [[r EXCEPT !.closes = @ \cup {"peer"}] EXCEPT
                    !.peerClosed = TRUE, !.timers = @ \cup {"linger"}]
         IN  Good(q) /\ Alike(q, r)
<1> DEFINE q == [[r EXCEPT !.closes = @ \cup {"peer"}] EXCEPT
                    !.peerClosed = TRUE, !.timers = @ \cup {"linger"}]
<1>0. r \in Sessions /\ r.closes \cup {"peer"} \in SUBSET {"peer", "own"} /\ r.timers \cup {"linger"} \in SUBSET {"negotiate", "recovery", "keepalive", "linger"}
  BY Getters DEF Good
<1>1. q \in Sessions
  <2> DEFINE a == [r EXCEPT !.closes = @ \cup {"peer"}]
  <2>1. a \in Sessions
    BY <1>0, Setters
  <2>2. a.timers = r.timers
    BY <1>0 DEF Sessions
  <2>3. [a EXCEPT !.peerClosed = TRUE, !.timers = r.timers \cup {"linger"}] \in Sessions
    <3> HIDE DEF a
    <3>1. QED
      BY <1>0, <2>1, Setters
  <2>4. QED
    BY <1>0, <2>2, <2>3 DEF Sessions
<1>2. Alike(q, r) /\ PendBounded(q) /\ LoopInv(q)
  BY <1>0 DEF Good, LoopInv, IsEstablished, Sessions, PendBounded, Alike
<1>3. QED
  BY <1>1, <1>2 DEF Good, Alike

\* StartProbe.
LEMMA StartProbeGood ==
  ASSUME NEW r, Good(r), r.pc = "loop"
  PROVE  LET q == [r EXCEPT !.timers = @ \ {"keepalive"},
                             !.pinging = @ \/ r.st = "connected"]
         IN  Good(q) /\ Alike(q, r)
<1> DEFINE q == [r EXCEPT !.timers = @ \ {"keepalive"},
                             !.pinging = @ \/ r.st = "connected"]
<1>0. r \in Sessions /\ r.timers \ {"keepalive"} \in SUBSET {"negotiate", "recovery", "keepalive", "linger"} /\ (r.pinging \/ r.st = "connected") \in BOOLEAN
  BY Getters DEF Good
<1>1. q \in Sessions
  BY <1>0, Setters
<1>2. Alike(q, r) /\ PendBounded(q) /\ LoopInv(q)
  BY <1>0, ZenonT(60) DEF Good, LoopInv, IsEstablished, Sessions, PendBounded, Alike
<1>3. QED
  BY <1>1, <1>2 DEF Good, Alike

\* ProbeFailed, when the session is not connected.
LEMMA NotConnectedGood ==
  ASSUME NEW r, Good(r), r.pc = "loop", r.st # "connected"
  PROVE  LET q == [r EXCEPT !.pinging = FALSE]
         IN  Good(q) /\ Alike(q, r)
<1> DEFINE q == [r EXCEPT !.pinging = FALSE]
<1>0. r \in Sessions
  BY Getters DEF Good
<1>1. q \in Sessions
  BY <1>0, Setters
<1>2. Alike(q, r) /\ PendBounded(q) /\ LoopInv(q)
  BY <1>0 DEF Good, LoopInv, IsEstablished, Sessions, PendBounded, Alike
<1>3. QED
  BY <1>1, <1>2 DEF Good, Alike

\* LocalCandidate.
LEMMA GatheredGood ==
  ASSUME NEW r, Good(r), r.pc = "loop", NEW c \in Nat
  PROVE  LET q == [r EXCEPT !.gathered = @ \cup {c}]
         IN  Good(q) /\ Alike(q, r)
<1> DEFINE q == [r EXCEPT !.gathered = @ \cup {c}]
<1>0. r \in Sessions /\ r.gathered \cup {c} \in SUBSET Nat
  BY Getters DEF Good
<1>1. q \in Sessions
  BY <1>0, Setters
<1>2. Alike(q, r) /\ PendBounded(q) /\ LoopInv(q)
  BY <1>0 DEF Good, LoopInv, IsEstablished, Sessions, PendBounded, Alike
<1>3. QED
  BY <1>1, <1>2 DEF Good, Alike

LEMMA ArmTyped ==
  ASSUME NEW r \in Sessions
  PROVE  ArmKeepAlive(r) \in Sessions
<1>1. r.timers \cup {"keepalive"} \in SUBSET {"negotiate", "recovery", "keepalive", "linger"}
  BY Getters
<1>2. QED
  BY <1>1, Setters DEF ArmKeepAlive

LEMMA LostTyped ==
  ASSUME NEW r \in Sessions
  PROVE  Lost(r) \in Sessions
<1>1. r.timers \cup {"recovery"} \in SUBSET {"negotiate", "recovery", "keepalive", "linger"}
  BY Getters
<1>2. QED
  BY <1>1, Setters DEF Lost

\* ProbeAnswered.
LEMMA ProbeAnsweredGood ==
  ASSUME NEW r, Good(r), r.pc = "loop"
  PROVE  LET q == ArmKeepAlive([r EXCEPT !.pinging = FALSE])
         IN  Good(q) /\ Alike(q, r)
<1> DEFINE q == ArmKeepAlive([r EXCEPT !.pinging = FALSE])
<1>0. r \in Sessions
  BY DEF Good
<1>1. q \in Sessions
  BY <1>0, Setters, ArmTyped
<1>2. Alike(q, r) /\ PendBounded(q) /\ LoopInv(q)
  BY <1>0 DEF Good, LoopInv, IsEstablished, Sessions, PendBounded, Alike, ArmKeepAlive
<1>3. QED
  BY <1>1, <1>2 DEF Good, Alike

\* A session that has lost its connectivity, and that may restart: ProbeFailed,
\* Failed and RecoveryTimer hand such a record to AttemptRestart.
LEMMA LostGood ==
  ASSUME NEW r, Good(r), r.pc = "loop"
  PROVE  /\ Good(Lost(r)) /\ Alike(Lost(r), r) /\ Lost(r).attempt = r.attempt
         /\ IsEstablished(r) => Lost(r).st = "recovering"
<1>0. r \in Sessions
  BY DEF Good
<1>1. Lost(r) \in Sessions
  BY <1>0, LostTyped
<1>2. /\ Alike(Lost(r), r) /\ PendBounded(Lost(r)) /\ LoopInv(Lost(r))
      /\ Lost(r).attempt = r.attempt
      /\ IsEstablished(r) => Lost(r).st = "recovering"
  BY <1>0 DEF Good, LoopInv, IsEstablished, Sessions, PendBounded, Alike, Lost
<1>3. QED
  BY <1>1, <1>2 DEF Good, Alike

\* What AttemptRestart makes of record r, while attempts are left.
LEMMA AttemptGood ==
  ASSUME cfg \in Settings, NEW r \in Sessions, PendBounded(r),
         r.pc = "loop", r.st = "recovering", LoopInv([r EXCEPT !.timers = @ \cup {"recovery"}]), r.attempt < MaxAttempts
  PROVE  LET a == [r EXCEPT !.attempt = @ + 1, !.gen = @ + 1, !.tries = @ + 1]
             q == [a EXCEPT !.timers = @ \cup {"recovery"}]
         IN  /\ a \in Sessions /\ a.gen = r.gen + 1 /\ a.remote = r.remote
             /\ Good(q) /\ q.pc = "loop" /\ q.gen = r.gen + 1 /\ q.remote = r.remote
<1> DEFINE a == [r EXCEPT !.attempt = @ + 1, !.gen = @ + 1, !.tries = @ + 1]
           q == [a EXCEPT !.timers = @ \cup {"recovery"}]
<1>0. /\ r.attempt + 1 \in 0 .. MaxAttempts /\ r.gen + 1 \in Nat /\ r.tries + 1 \in Nat
      /\ r.timers \cup {"recovery"} \in SUBSET {"negotiate", "recovery", "keepalive", "linger"}
  BY Getters, SettingTyped
<1>1. a = [r EXCEPT !.attempt = r.attempt + 1, !.gen = r.gen + 1, !.tries = r.tries + 1]
  BY DEF Sessions
<1>2. a \in Sessions
  BY <1>0, <1>1, Setters
<1>3. a.gen = r.gen + 1 /\ a.remote = r.remote /\ a.timers = r.timers
  BY DEF Sessions
<1>4. q \in Sessions
  <2> HIDE DEF a
  <2>1. QED
    BY <1>0, <1>2, <1>3, Setters
<1>5. q.pc = "loop" /\ q.gen = r.gen + 1 /\ q.remote = r.remote /\ PendBounded(q) /\ LoopInv(q)
  BY DEF LoopInv, IsEstablished, Sessions, PendBounded
<1>6. QED
  BY <1>2, <1>3, <1>4, <1>5 DEF Good

\* Connected.
LEMMA ConnectedGood ==
  ASSUME NEW r, Good(r), r.pc = "loop"
  PROVE  LET p == [r EXCEPT !.ice = "up", !.timers = @ \ {"recovery"}, !.tries = 0]
             q == IF p.st = "recovering"
                  THEN ArmKeepAlive([p EXCEPT !.st = "connected", !.attempt = 0])
                  ELSE p
         IN  Good(q) /\ Alike(q, r)
<1> DEFINE p == [r EXCEPT !.ice = "up", !.timers = @ \ {"recovery"}, !.tries = 0]
           q == IF p.st = "recovering"
                THEN ArmKeepAlive([p EXCEPT !.st = "connected", !.attempt = 0])
                ELSE p
<1>0. r \in Sessions /\ r.timers \ {"recovery"} \in SUBSET {"negotiate", "recovery", "keepalive", "linger"}
  BY Getters DEF Good
<1>1. p \in Sessions
  BY <1>0, Setters
<1>2. q \in Sessions
  <2> HIDE DEF p
  <2>1. 0 \in 0 .. MaxAttempts
    BY SettingTyped DEF Good
  <2>2. QED
    BY <1>1, <2>1, Setters, ArmTyped
<1>3. Alike(q, r) /\ PendBounded(q) /\ LoopInv(q)
  BY <1>0 DEF Good, LoopInv, IsEstablished, Sessions, PendBounded, Alike, ArmKeepAlive
<1>4. QED
  BY <1>2, <1>3 DEF Good, Alike

\* Disconnected and Failed first record what Pion reported.
LEMMA IceGood ==
  ASSUME NEW r, Good(r), r.pc = "loop", NEW i \in {"new", "up", "down", "failed"}
  PROVE  LET q == [r EXCEPT !.ice = i]
         IN  Good(q) /\ Alike(q, r) /\ q.st = r.st /\ q.attempt = r.attempt
<1> DEFINE q == [r EXCEPT !.ice = i]
<1>0. r \in Sessions
  BY DEF Good
<1>1. q \in Sessions
  BY <1>0, Setters
<1>2. Alike(q, r) /\ PendBounded(q) /\ LoopInv(q) /\ q.st = r.st /\ q.attempt = r.attempt
  BY <1>0 DEF Good, LoopInv, IsEstablished, Sessions, PendBounded, Alike
<1>3. QED
  BY <1>1, <1>2 DEF Good, Alike

\* ChannelOpen.
LEMMA ChannelOpenGood ==
  ASSUME NEW r, Good(r), r.pc = "loop", r.stream = "none"
  PROVE  LET q == ArmKeepAlive([r EXCEPT !.stream = "open", !.st = "connected",
                                         !.timers = @ \ {"negotiate"}])
         IN  Good(q) /\ Alike(q, r)
<1> DEFINE p == [r EXCEPT !.stream = "open", !.st = "connected", !.timers = @ \ {"negotiate"}]
           q == ArmKeepAlive(p)
<1>0. r \in Sessions /\ r.timers \ {"negotiate"} \in SUBSET {"negotiate", "recovery", "keepalive", "linger"}
  BY Getters DEF Good
<1>1. q \in Sessions
  BY <1>0, Setters, ArmTyped
<1>2. Alike(q, r) /\ PendBounded(q) /\ LoopInv(q)
  BY <1>0 DEF Good, LoopInv, IsEstablished, Sessions, PendBounded, Alike, ArmKeepAlive
<1>3. QED
  BY <1>1, <1>2 DEF Good, Alike

\* ProbeFailed, when the session is connected.
LEMMA ProbeLostGood ==
  ASSUME NEW r, Good(r), r.pc = "loop", r.st = "connected"
  PROVE  LET q == Lost([r EXCEPT !.pinging = FALSE])
         IN  Good(q) /\ Alike(q, r) /\ q.st = "recovering" /\ q.attempt = r.attempt
<1> DEFINE q == Lost([r EXCEPT !.pinging = FALSE])
<1>0. r \in Sessions
  BY DEF Good
<1>1. q \in Sessions
  BY <1>0, Setters, LostTyped
<1>2. /\ Alike(q, r) /\ PendBounded(q) /\ LoopInv(q)
      /\ q.st = "recovering" /\ q.attempt = r.attempt
  BY <1>0 DEF Good, LoopInv, IsEstablished, Sessions, PendBounded, Alike, Lost
<1>3. QED
  BY <1>1, <1>2 DEF Good, Alike

\* StreamEnds and ConnClose, in the loop or after it.
LEMMA StreamGood ==
  ASSUME NEW r, Good(r), r.stream = "open", NEW e \in {"closed", "ended", "invalid"},
         NEW c \in SUBSET {"peer", "own"}
  PROVE  LET q == [r EXCEPT !.stream = e, !.closes = c]
         IN  Good(q) /\ Alike(q, r)
<1> DEFINE q == [r EXCEPT !.stream = e, !.closes = c]
<1>0. r \in Sessions /\ e \in {"none", "open", "closed", "ended", "invalid"}
  BY DEF Good
<1>1. q \in Sessions
  BY <1>0, Setters
<1>2. Alike(q, r) /\ PendBounded(q) /\ (r.pc = "loop" => LoopInv(q))
  BY <1>0 DEF Good, LoopInv, IsEstablished, Sessions, PendBounded, Alike
<1>3. r.pc # "none"
  BY DEF Good, NewSession
<1>4. QED
  BY <1>1, <1>2, <1>3 DEF Good, Alike

\* TearDown.
LEMMA TornGood ==
  ASSUME NEW r, Good(r), r.pc = "down", NEW f \in {"none", "close", "shutdown", "eof"}
  PROVE  LET q == [r EXCEPT !.pc = "release", !.fin = f,
                            !.stream = IF @ = "open" THEN "closed" ELSE @]
         IN  Good(q) /\ q.pc = "release" /\ q.remote = r.remote /\ q.gen = r.gen
<1> DEFINE q == [r EXCEPT !.pc = "release", !.fin = f,
                          !.stream = IF @ = "open" THEN "closed" ELSE @]
<1>0. /\ r \in Sessions
      /\ (IF r.stream = "open" THEN "closed" ELSE r.stream)
            \in {"none", "open", "closed", "ended", "invalid"}
  BY Getters DEF Good
<1>1. q \in Sessions
  BY <1>0, Setters
<1>2. q.pc = "release" /\ q.remote = r.remote /\ q.gen = r.gen /\ PendBounded(q)
  BY <1>0 DEF Good, Sessions, PendBounded
<1>3. QED
  BY <1>1, <1>2 DEF Good

\* TearPeer.
LEMMA ClosedGood ==
  ASSUME cfg \in Settings
  PROVE  LET q == [NewSession EXCEPT !.pc = "closed", !.st = "closed"]
         IN  Good(q) /\ q.pc = "closed" /\ q.remote = None /\ q.gen = 0
<1> DEFINE q == [NewSession EXCEPT !.pc = "closed", !.st = "closed"]
<1>1. NewSession \in Sessions
  BY NewGood DEF Good
<1>2. q \in Sessions
  BY <1>1, Setters
<1>3. q.pc = "closed" /\ q.remote = None /\ q.gen = 0 /\ q.pend = {}
  BY DEF NewSession
<1> HIDE DEF q
<1>4. PendBounded(q)
  BY <1>3, EmptyPend, SessionAssumption DEF PendBounded
<1>5. Good(q)
  BY <1>2, <1>3, <1>4 DEF Good
<1>6. QED
  BY <1>3, <1>5 DEF q

-----------------------------------------------------------------------------
(* Steps.  Every step puts a good record in the place of one end's, or     *)
(* changes neither, and the handlers differ in what becomes of the         *)
(* generations and of the signals.                                         *)

LEMMA EndsAre == /\ Offerer \in Ends /\ Answerer \in Ends /\ Offerer # Answerer
                 /\ \A x \in Ends : x = Offerer \/ x = Answerer
  BY DEF Ends, Offerer, Answerer

\* What is asked of the ends depends on the setting, which stays.
LEMMA SameSetting ==
  ASSUME cfg' = cfg, cfg \in Settings, s' \in [Ends -> Sessions],
         \A y \in Ends : Good(s'[y])
  PROVE  (cfg \in Settings)' /\ (s \in [Ends -> Sessions])' /\ (\A y \in Ends : Good(s[y]))'
<1>1. Sessions' = Sessions
  BY DEF Sessions, MaxAttempts
<1>2. KeepAlive' = KeepAlive
  BY DEF KeepAlive
<1>3. ASSUME NEW y \in Ends PROVE Good(s[y])'
  <2>1. LoopInv(s'[y]) => LoopInv(s[y])'
    BY <1>2 DEF LoopInv, IsEstablished
  <2>2. QED
    BY <1>1, <2>1 DEF Good, PendBounded
<1>4. QED
  BY <1>1, <1>3

\* End x goes on with record q.
LEMMA ContinueStep ==
  ASSUME EndsInv, NEW x \in Ends, NEW q, Continue(x, q), Good(q),
         x = Answerer /\ q.pc = "loop" => q.remote # None
  PROVE  EndsInv' /\ s'[x] = q /\ \A y \in Ends : y # x => s'[y] = s[y]
<1>1. /\ s' = [s EXCEPT ![x] = q] /\ cfg' = cfg
      /\ s \in [Ends -> Sessions] /\ q \in Sessions
  BY DEF EndsInv, Continue, Good
<1>2. s' \in [Ends -> Sessions] /\ s'[x] = q /\ \A y \in Ends : y # x => s'[y] = s[y]
  BY <1>1
<1>3. \A y \in Ends : Good(s'[y])
  BY <1>2 DEF EndsInv
<1>4. AnswererHasOffer'
  BY <1>2, EndsAre DEF EndsInv, AnswererHasOffer, InLoop
<1>5. QED
  BY <1>1, <1>2, <1>3, <1>4, SameSetting DEF EndsInv

\* Nothing happens to either end.
LEMMA IdleStep ==
  ASSUME EndsInv, UNCHANGED <<s, cfg>>
  PROVE  EndsInv'
<1>1. /\ s' = s /\ cfg' = cfg /\ s' \in [Ends -> Sessions] /\ \A y \in Ends : Good(s'[y])
      /\ AnswererHasOffer'
  BY DEF EndsInv, AnswererHasOffer, InLoop
<1>2. QED
  BY <1>1, SameSetting DEF EndsInv

\* End x leaves its loop with record r.
LEMMA LeaveStep ==
  ASSUME EndsInv, NEW x \in Ends, NEW r \in Sessions,
         NEW intent \in {"notify", "silent", "graceful"}, Leave(x, r, intent)
  PROVE  /\ EndsInv' /\ \A y \in Ends : y # x => s'[y] = s[y]
         /\ s'[x].pc = "down" /\ s'[x].remote = r.remote /\ s'[x].gen = r.gen
<1>1. Continue(x, Left(r, intent))
  BY DEF Leave, Left
<1>2. QED
  BY <1>1, LeftGood, ContinueStep DEF EndsInv

\* Signals that the step may add: none about generations.
Quiet == \A m \in net' : m.kind \in {"answer", "restart"} => m \in net

\* A step that keeps the generations, and starts no session anew.
LEMMA GenKept ==
  ASSUME EndsInv, GenInv, Quiet,
         \A x \in Ends : /\ s'[x].remote = s[x].remote /\ s'[x].gen = s[x].gen
                         /\ s'[x].pc # "closed" => s[x].pc # "closed"
  PROVE  GenInv'
<1>1. /\ s'[Answerer].remote = s[Answerer].remote /\ s'[Answerer].gen = s[Answerer].gen
      /\ s'[Answerer].pc # "closed" => s[Answerer].pc # "closed"
      /\ s'[Offerer].remote = s[Offerer].remote /\ s'[Offerer].gen = s[Offerer].gen
      /\ s'[Offerer].pc # "closed" => s[Offerer].pc # "closed"
  BY EndsAre
<1>2. QED
  BY <1>1 DEF GenInv, Quiet

\* The two of them together.
LEMMA LeaveKeeps ==
  ASSUME SessionInv, NEW x \in Ends, NEW r \in Sessions, s[x].pc # "closed",
         NEW intent \in {"notify", "silent", "graceful"}, Leave(x, r, intent),
         r.remote = s[x].remote, r.gen = s[x].gen, Quiet
  PROVE  EndsInv' /\ GenInv'
<1>1. /\ EndsInv' /\ \A y \in Ends : y # x => s'[y] = s[y]
      /\ s'[x].pc = "down" /\ s'[x].remote = r.remote /\ s'[x].gen = r.gen
  BY LeaveStep DEF SessionInv
<1>2. \A y \in Ends : /\ s'[y].remote = s[y].remote /\ s'[y].gen = s[y].gen
                      /\ s'[y].pc # "closed" => s[y].pc # "closed"
  BY <1>1
<1>3. QED
  BY <1>1, <1>2, GenKept DEF SessionInv

LEMMA ContinueKeeps ==
  ASSUME SessionInv, NEW x \in Ends, NEW q, Good(q), Alike(q, s[x]), Continue(x, q), Quiet
  PROVE  EndsInv' /\ GenInv'
<1>1. x = Answerer /\ q.pc = "loop" => q.remote # None
  BY DEF SessionInv, EndsInv, AnswererHasOffer, Alike, InLoop
<1>2. EndsInv' /\ s'[x] = q /\ \A y \in Ends : y # x => s'[y] = s[y]
  BY <1>1, ContinueStep DEF SessionInv
<1>3. \A y \in Ends : /\ s'[y].remote = s[y].remote /\ s'[y].gen = s[y].gen
                      /\ s'[y].pc # "closed" => s[y].pc # "closed"
  BY <1>2 DEF Alike
<1>4. QED
  BY <1>2, <1>3, GenKept DEF SessionInv

\* What Send and Taken do to the signals in flight.
LEMMA SendNet ==
  ASSUME NetOK, NEW x \in Ends, NEW k \in Kinds, NEW n \in Nat, Send(Msg(x, k, n))
  PROVE  NetOK' /\ \A m \in net' : m \in net \/ m = Msg(x, k, n)
<1>1. Msg(x, k, n) \in [to : Ends, kind : Kinds, n : Nat]
  BY DEF Msg
<1>2. net' = net \/ net' = net \cup {Msg(x, k, n)}
  BY DEF Send
<1>3. QED
  BY <1>1, <1>2 DEF NetOK

LEMMA SendQuiet ==
  ASSUME NetOK, NEW x \in Ends, NEW k \in Kinds \ {"answer", "restart"}, NEW n \in Nat,
         Send(Msg(x, k, n))
  PROVE  NetOK' /\ Quiet
<1>1. NetOK' /\ \A m \in net' : m \in net \/ m = Msg(x, k, n)
  BY SendNet
<1>2. QED
  BY <1>1 DEF Msg, Quiet

LEMMA FewerQuiet ==
  ASSUME NetOK, net' \subseteq net
  PROVE  NetOK' /\ Quiet
  BY DEF NetOK, Quiet

LEMMA Arrivals ==
  ASSUME NetOK, NEW m \in net
  PROVE  m.to \in Ends /\ m.kind \in Kinds /\ m.n \in Nat
  BY DEF NetOK

LEMMA KindsAre == {"offer", "answer", "restart", "candidate", "reject", "close"} = Kinds
  BY DEF Kinds

LEMMA Ready ==
  ASSUME SessionInv, NEW x \in Ends
  PROVE  /\ Good(s[x]) /\ s[x] \in Sessions /\ EndsInv /\ NetOK /\ GenInv
         /\ InLoop(x) => s[x].pc = "loop"
  BY DEF SessionInv, EndsInv, InLoop

-----------------------------------------------------------------------------
(* One lemma per handler.                                                  *)

LEMMA StartOffererStep ==
  ASSUME SessionInv, StartOfferer
  PROVE  SessionInv'
<1>0. s[Offerer] = NewSession /\ Good(s[Offerer]) /\ s[Offerer] \in Sessions
  BY EndsAre, Ready DEF StartOfferer, Good
<1>1. CASE /\ Continue(Offerer, [s[Offerer] EXCEPT !.pc = "loop", !.st = "signaling",
                                                   !.timers = {"negotiate"}])
           /\ Send(Msg(Answerer, "offer", 0))
  <2> DEFINE q == [NewSession EXCEPT !.pc = "loop", !.st = "signaling", !.timers = {"negotiate"}]
  <2>1. Good(q) /\ q.remote = None /\ q.gen = 0 /\ q.pc = "loop"
    BY StartOffererGood DEF SessionInv, EndsInv
  <2>2. NetOK' /\ Quiet
    BY <1>1, EndsAre, Ready, KindsAre, SendQuiet
  <2>3. EndsInv' /\ s'[Offerer] = q /\ s'[Answerer] = s[Answerer]
    BY <1>0, <1>1, <2>1, EndsAre, Ready, ContinueStep
  <2>4. NewSession.remote = None /\ NewSession.gen = 0 /\ NewSession.pc = "none"
    BY DEF NewSession
  <2>5. \A x \in Ends : /\ s'[x].remote = s[x].remote /\ s'[x].gen = s[x].gen
                        /\ s'[x].pc # "closed" => s[x].pc # "closed"
    BY <1>0, <2>1, <2>3, <2>4, EndsAre
  <2>6. GenInv'
    BY <2>2, <2>5, GenKept DEF SessionInv
  <2>7. QED
    BY <2>2, <2>3, <2>6 DEF SessionInv
<1>2. CASE Leave(Offerer, s[Offerer], "notify") /\ UNCHANGED net
  <2>1. NetOK' /\ Quiet
    BY <1>2, EndsAre, Ready, FewerQuiet
  <2>2. s[Offerer].pc # "closed"
    BY DEF StartOfferer
  <2>3. QED
    BY <1>0, <1>2, <2>1, <2>2, EndsAre, LeaveKeeps DEF SessionInv
<1>3. QED
  BY <1>1, <1>2 DEF StartOfferer

LEMMA StartAnswererStep ==
  ASSUME SessionInv, StartAnswerer
  PROVE  SessionInv'
<1> DEFINE offer == Msg(Answerer, "offer", 0)
           rest == net \ {offer}
<1>0. s[Answerer] = NewSession /\ Good(s[Answerer]) /\ s[Answerer] \in Sessions
  BY EndsAre, Ready DEF StartAnswerer, Good
<1>1. CASE /\ Continue(Answerer, [s[Answerer] EXCEPT !.pc = "loop", !.st = "connecting",
                                    !.remote = 0, !.timers = {"negotiate"}])
           /\ net' = rest \cup {Msg(Offerer, "answer", 0)}
  <2> DEFINE q == [NewSession EXCEPT !.pc = "loop", !.st = "connecting", !.remote = 0,
                                     !.timers = {"negotiate"}]
  <2>1. Good(q) /\ q.remote = 0 /\ q.gen = 0 /\ q.pc = "loop"
    BY StartAnswererGood DEF SessionInv, EndsInv
  <2>2. EndsInv' /\ s'[Answerer] = q /\ s'[Offerer] = s[Offerer]
    <3>1. q.remote # None /\ Continue(Answerer, q)
      BY <1>0, <1>1, <2>1 DEF None
    <3> HIDE DEF q
    <3>2. QED
      BY <2>1, <3>1, EndsAre, Ready, ContinueStep
  <2>3. NetOK'
    BY <1>1, EndsAre, Ready, KindsAre DEF NetOK, Msg
  <2>4. NewSession.gen = 0 /\ NewSession.pc = "none"
    BY DEF NewSession
  <2>5. /\ s[Offerer].remote <= 0
        /\ \A m \in net : m.kind = "answer" => m.n <= 0
        /\ s[Offerer].pc # "closed" =>
             /\ 0 <= s[Offerer].gen
             /\ \A m \in net : m.kind = "restart" => m.n <= s[Offerer].gen
    BY <1>0, <2>4 DEF SessionInv, GenInv
  <2>6. \A m \in net' : m \in net \/ m = Msg(Offerer, "answer", 0)
    BY <1>1
  <2>7. GenInv'
    <3> HIDE DEF q
    <3>1. \A m \in net' : /\ m.kind = "answer" => m.n <= 0
                          /\ m.kind = "restart" => m \in net
      BY <2>5, <2>6 DEF Msg
    <3>2. QED
      BY <2>1, <2>2, <2>5, <3>1 DEF GenInv
  <2>8. QED
    BY <2>2, <2>3, <2>7 DEF SessionInv
<1>2. CASE Leave(Answerer, s[Answerer], "notify") /\ net' = rest
  <2>1. NetOK' /\ Quiet
    BY <1>2, EndsAre, Ready, FewerQuiet
  <2>2. s[Answerer].pc # "closed"
    BY DEF StartAnswerer
  <2>3. QED
    BY <1>0, <1>2, <2>1, <2>2, EndsAre, LeaveKeeps DEF SessionInv
<1>3. CASE net' = rest \cup {Msg(Offerer, "reject", 0)} /\ UNCHANGED <<s, cfg>>
  <2>1. NetOK' /\ Quiet
    <3>1. Msg(Offerer, "reject", 0) \in [to : Ends, kind : Kinds, n : Nat]
      BY EndsAre, KindsAre DEF Msg
    <3>2. Msg(Offerer, "reject", 0).kind = "reject"
      BY DEF Msg
    <3>3. QED
      BY <1>3, <3>1, <3>2, EndsAre, Ready DEF NetOK, Quiet
  <2>2. EndsInv'
    BY <1>3, IdleStep DEF SessionInv
  <2>3. GenInv'
    BY <1>3, <2>1, GenKept DEF SessionInv
  <2>4. QED
    BY <2>1, <2>2, <2>3 DEF SessionInv
<1>4. QED
  BY <1>1, <1>2, <1>3 DEF StartAnswerer

LEMMA OnAnswerStep ==
  ASSUME SessionInv, OnAnswer
  PROVE  SessionInv'
<1> DEFINE r == s[Offerer]
<1>1. PICK m \in net : /\ m.kind = "answer" /\ Receives(Offerer, m) /\ Taken(m)
                       /\ LET duplicate == r.remote # None /\ r.attempt = 0
                          IN  \/ duplicate /\ UNCHANGED <<s, cfg>>
                              \/ /\ ~duplicate
                                 /\ Continue(Offerer,
                                      Flushed([r EXCEPT !.remote = m.n, !.attempt = 0,
                                        !.st = IF @ = "signaling" THEN "connecting" ELSE @]))
                              \/ ~duplicate /\ Leave(Offerer, r, "notify")
  BY DEF OnAnswer
<1>2. Good(r) /\ r \in Sessions /\ r.pc = "loop" /\ m.n \in Nat /\ EndsInv /\ NetOK /\ GenInv
  BY <1>1, EndsAre, Ready, Arrivals DEF Receives
<1>3. NetOK' /\ Quiet /\ net' \subseteq net
  BY <1>1, <1>2, FewerQuiet DEF Taken
<1>4. CASE UNCHANGED <<s, cfg>>
  <2>1. EndsInv'
    BY <1>2, <1>4, IdleStep
  <2>2. GenInv'
    BY <1>2, <1>3, <1>4, GenKept
  <2>3. QED
    BY <1>3, <2>1, <2>2 DEF SessionInv
<1>5. CASE Continue(Offerer, Flushed([r EXCEPT !.remote = m.n, !.attempt = 0,
                               !.st = IF @ = "signaling" THEN "connecting" ELSE @]))
  <2> DEFINE q == Flushed([r EXCEPT !.remote = m.n, !.attempt = 0,
                             !.st = IF @ = "signaling" THEN "connecting" ELSE @])
  <2>1. Good(q) /\ q.pc = "loop" /\ q.remote = m.n /\ q.gen = r.gen
    BY <1>2, AnswerGood
  <2>2. EndsInv' /\ s'[Offerer] = q /\ s'[Answerer] = s[Answerer]
    <3> HIDE DEF q
    <3>1. QED
      BY <1>2, <1>5, <2>1, EndsAre, ContinueStep DEF q
  <2>3. s[Answerer].pc # "closed" => m.n <= s[Answerer].gen
    BY <1>1, <1>2 DEF GenInv
  <2>4. GenInv'
    <3> HIDE DEF q
    <3>1. QED
      BY <1>2, <1>3, <2>1, <2>2, <2>3 DEF GenInv
  <2>5. QED
    BY <1>3, <2>2, <2>4 DEF SessionInv
<1>6. CASE Leave(Offerer, r, "notify")
  BY <1>2, <1>3, <1>6, EndsAre, LeaveKeeps DEF SessionInv
<1>7. QED
  BY <1>1, <1>4, <1>5, <1>6

LEMMA OnRestartStep ==
  ASSUME SessionInv, OnRestart
  PROVE  SessionInv'
<1> DEFINE r == s[Answerer]
<1>1. PICK m \in net : /\ m.kind = "restart" /\ Receives(Answerer, m)
                       /\ \/ Taken(m) /\ UNCHANGED <<s, cfg>>
                          \/ /\ m.n > r.gen
                             /\ Continue(Answerer, [r EXCEPT !.gen = m.n, !.remote = m.n])
                             /\ net' = (net \ {m}) \cup {Msg(Offerer, "answer", m.n)}
                          \/ /\ m.n > r.gen
                             /\ Leave(Answerer, [r EXCEPT !.gen = m.n], "notify")
                             /\ Taken(m)
  BY DEF OnRestart
<1>2. Good(r) /\ r \in Sessions /\ r.pc = "loop" /\ m.n \in Nat /\ EndsInv /\ NetOK /\ GenInv
  BY <1>1, EndsAre, Ready, Arrivals DEF Receives
<1>3. r.remote # None /\ s[Offerer] \in Sessions /\ s[Offerer].gen \in Nat /\ r.gen \in Nat
      /\ s[Offerer].remote \in Int
  BY <1>2, EndsAre, Ready, Getters DEF EndsInv, AnswererHasOffer, InLoop, None
<1>4. s[Offerer].pc # "closed" => m.n <= s[Offerer].gen
  BY <1>1, <1>2 DEF GenInv
<1>5. CASE Taken(m) /\ UNCHANGED <<s, cfg>>
  <2>1. NetOK' /\ Quiet
    BY <1>2, <1>5, FewerQuiet DEF Taken
  <2>2. EndsInv'
    BY <1>2, <1>5, IdleStep
  <2>3. GenInv'
    BY <1>2, <1>5, <2>1, GenKept
  <2>4. QED
    BY <2>1, <2>2, <2>3 DEF SessionInv
<1>6. CASE /\ m.n > r.gen
           /\ Continue(Answerer, [r EXCEPT !.gen = m.n, !.remote = m.n])
           /\ net' = (net \ {m}) \cup {Msg(Offerer, "answer", m.n)}
  <2> DEFINE q == [r EXCEPT !.gen = m.n, !.remote = m.n]
             a == Msg(Offerer, "answer", m.n)
  <2>1. Good(q) /\ q.pc = "loop" /\ q.remote = m.n /\ q.gen = m.n
    BY <1>2, <1>3, RestartGood
  <2>2. EndsInv' /\ s'[Answerer] = q /\ s'[Offerer] = s[Offerer]
    <3> HIDE DEF q
    <3>1. q.remote # None /\ Continue(Answerer, q)
      BY <1>2, <1>6, <2>1 DEF q, None
    <3>2. QED
      BY <1>2, <2>1, <3>1, EndsAre, ContinueStep
  <2>3. a \in [to : Ends, kind : Kinds, n : Nat] /\ a.kind = "answer" /\ a.n = m.n
    BY <1>2, EndsAre, KindsAre DEF Msg
  <2>4. NetOK' /\ \A k \in net' : k \in net \/ k = a
    BY <1>2, <1>6, <2>3 DEF NetOK
  <2>5. \A k \in net : k.kind = "answer" => k.n <= m.n
    BY <1>2, <1>3, <1>6, Arrivals DEF GenInv
  <2>6. GenInv'
    <3> HIDE DEF q, a
    <3>1. \A k \in net' : k.kind = "answer" => k.n <= m.n
      BY <1>2, <2>3, <2>4, <2>5
    <3>2. \A k \in net' : k.kind = "restart" => k \in net
      BY <2>3, <2>4
    <3>3. s[Offerer].remote <= m.n
      BY <1>2, <1>3, <1>6 DEF GenInv
    <3>4. QED
      BY <1>2, <1>4, <2>1, <2>2, <3>1, <3>2, <3>3 DEF GenInv
  <2>7. QED
    BY <2>2, <2>4, <2>6 DEF SessionInv
<1>7. CASE /\ m.n > r.gen
           /\ Leave(Answerer, [r EXCEPT !.gen = m.n], "notify")
           /\ Taken(m)
  <2> DEFINE q == [r EXCEPT !.gen = m.n]
  <2>1. q \in Sessions
    BY <1>2, Setters
  <2>2. q.gen = m.n /\ q.remote = r.remote
    BY <1>2 DEF Sessions
  <2>3. /\ EndsInv' /\ s'[Offerer] = s[Offerer]
        /\ s'[Answerer].pc = "down" /\ s'[Answerer].gen = m.n
    <3> HIDE DEF q
    <3>1. QED
      BY <1>2, <1>7, <2>1, <2>2, EndsAre, LeaveStep DEF q
  <2>4. NetOK' /\ net' \subseteq net
    BY <1>2, <1>7, FewerQuiet DEF Taken
  <2>5. GenInv'
    <3>1. s[Offerer].remote <= m.n /\ \A k \in net : k.kind = "answer" => k.n <= m.n
      BY <1>2, <1>3, <1>7, Arrivals DEF GenInv
    <3>2. QED
      BY <1>2, <1>4, <2>3, <2>4, <3>1 DEF GenInv
  <2>6. QED
    BY <2>3, <2>4, <2>5 DEF SessionInv
<1>8. QED
  BY <1>1, <1>5, <1>6, <1>7

LEMMA OnCandidateStep ==
  ASSUME SessionInv, NEW x \in Ends, OnCandidate(x)
  PROVE  SessionInv'
<1>1. PICK m \in net :
        /\ Receives(x, m) /\ Taken(m)
        /\ LET r == [s[x] EXCEPT !.arrived = @ \cup {m.n}]
               full == m.n # End /\ Cardinality(r.pend \ {End}) >= MaxPending
           IN  \/ /\ r.remote # None
                  /\ Continue(x, [r EXCEPT !.applied = @ \cup {m.n}])
               \/ /\ r.remote = None /\ ~full
                  /\ Continue(x, [r EXCEPT !.pend = @ \cup {m.n}])
               \/ /\ r.remote = None /\ full
                  /\ Leave(x, r, "notify")
  BY DEF OnCandidate
<1>2. /\ Good(s[x]) /\ s[x] \in Sessions /\ s[x].pc = "loop" /\ m.n \in Nat
      /\ NetOK
  BY <1>1, Ready, Arrivals DEF Receives
<1>3. NetOK' /\ Quiet
  BY <1>1, <1>2, FewerQuiet DEF Taken
<1> DEFINE r == [s[x] EXCEPT !.arrived = @ \cup {m.n}]
<1>4. r.remote = s[x].remote /\ r.gen = s[x].gen /\ r.pend = s[x].pend
  BY <1>2 DEF Sessions
<1>5. CASE r.remote # None /\ Continue(x, [r EXCEPT !.applied = @ \cup {m.n}])
  <2> DEFINE q == [r EXCEPT !.applied = @ \cup {m.n}]
  <2>1. Good(q) /\ Alike(q, s[x])
    BY <1>2, <1>4, <1>5, AppliedGood
  <2> HIDE DEF q
  <2>2. Continue(x, q)
    BY <1>5 DEF q
  <2>3. QED
    BY <1>3, <2>1, <2>2, ContinueKeeps DEF SessionInv
<1>6. CASE /\ r.remote = None /\ ~(m.n # End /\ Cardinality(r.pend \ {End}) >= MaxPending)
           /\ Continue(x, [r EXCEPT !.pend = @ \cup {m.n}])
  <2> DEFINE q == [r EXCEPT !.pend = @ \cup {m.n}]
  <2>0. m.n # End => ~(Cardinality(s[x].pend \ {End}) >= MaxPending)
    BY <1>4, <1>6
  <2>1. Good(q) /\ Alike(q, s[x])
    BY <1>2, <1>4, <1>6, <2>0, BufferedGood
  <2> HIDE DEF q
  <2>2. Continue(x, q)
    BY <1>6 DEF q
  <2>3. QED
    BY <1>3, <2>1, <2>2, ContinueKeeps DEF SessionInv
<1>7. CASE Leave(x, r, "notify")
  <2>1. s[x].arrived \cup {m.n} \in SUBSET Nat
    BY <1>2, Getters
  <2>2. r \in Sessions
    BY <1>2, <2>1, Setters
  <2> HIDE DEF r
  <2>3. QED
    BY <1>2, <1>3, <1>4, <1>7, <2>2, LeaveKeeps DEF SessionInv
<1>8. QED
  BY <1>1, <1>5, <1>6, <1>7

LEMMA OnRejectStep ==
  ASSUME SessionInv, OnReject
  PROVE  SessionInv'
<1>1. PICK m \in net : Receives(Offerer, m) /\ Taken(m) /\ Leave(Offerer, s[Offerer], "silent")
  BY DEF OnReject
<1>2. s[Offerer] \in Sessions /\ s[Offerer].pc = "loop" /\ NetOK
  BY <1>1, EndsAre, Ready DEF Receives
<1>3. NetOK' /\ Quiet
  BY <1>1, <1>2, FewerQuiet DEF Taken
<1>4. QED
  BY <1>1, <1>2, <1>3, EndsAre, LeaveKeeps DEF SessionInv

LEMMA OnCloseStep ==
  ASSUME SessionInv, NEW x \in Ends, OnClose(x)
  PROVE  SessionInv'
<1> DEFINE r == Heard(s[x])
<1>1. PICK m \in net :
        /\ Receives(x, m) /\ Taken(m)
        /\ \/ Leave(x, r, "silent")
           \/ /\ r.st = "connected" /\ r.stream # "none"
              /\ Continue(x, [r EXCEPT !.peerClosed = TRUE, !.timers = @ \cup {"linger"}])
  BY DEF OnClose
<1>2. Good(s[x]) /\ s[x] \in Sessions /\ s[x].pc = "loop" /\ NetOK
  BY <1>1, Ready DEF Receives
<1>3. NetOK' /\ Quiet
  BY <1>1, <1>2, FewerQuiet DEF Taken
<1>4. r.stream = s[x].stream /\ r.remote = s[x].remote /\ r.gen = s[x].gen
  BY <1>2 DEF Heard, Sessions
<1>5. r \in Sessions
  <2>1. s[x].closes \cup {"peer"} \in SUBSET {"peer", "own"}
    BY <1>2, Getters
  <2>2. QED
    BY <1>2, <2>1, Setters DEF Heard
<1>6. CASE Leave(x, r, "silent")
  <2> HIDE DEF r
  <2>1. QED
    BY <1>2, <1>3, <1>4, <1>5, <1>6, LeaveKeeps DEF SessionInv
<1>7. CASE /\ r.st = "connected" /\ r.stream # "none"
           /\ Continue(x, [r EXCEPT !.peerClosed = TRUE, !.timers = @ \cup {"linger"}])
  <2> DEFINE q == [r EXCEPT !.peerClosed = TRUE, !.timers = @ \cup {"linger"}]
  <2>1. r = [s[x] EXCEPT !.closes = @ \cup {"peer"}]
    BY <1>4, <1>7 DEF Heard
  <2>2. Good(q) /\ Alike(q, s[x])
    BY <1>2, <1>4, <1>7, <2>1, LingerGood
  <2>3. Continue(x, q)
    BY <1>7
  <2> HIDE DEF q
  <2>4. QED
    BY <1>3, <2>2, <2>3, ContinueKeeps DEF SessionInv
<1>8. QED
  BY <1>1, <1>6, <1>7

\* AttemptRestart, from a record that has lost its connectivity.
LEMMA AttemptStep ==
  ASSUME SessionInv, NEW x \in Ends, s[x].pc = "loop", NEW r \in Sessions, PendBounded(r),
         Alike(r, s[x]), r.attempt = s[x].attempt, r.st = "recovering",
         LoopInv([r EXCEPT !.timers = @ \cup {"recovery"}]), AttemptRestart(x, r)
  PROVE  SessionInv'
<1> DEFINE a == [r EXCEPT !.attempt = @ + 1, !.gen = @ + 1, !.tries = @ + 1]
           q == [a EXCEPT !.timers = @ \cup {"recovery"}]
<1>0. /\ s[x] \in Sessions /\ s[x].gen \in Nat /\ NetOK /\ EndsInv /\ GenInv
      /\ r.pc = "loop" /\ r.gen = s[x].gen /\ r.remote = s[x].remote
  BY Ready, Getters DEF Alike
<1>1. CASE ~MayRestart(x) /\ Leave(x, r, "notify") /\ UNCHANGED net
  <2>1. NetOK' /\ Quiet
    BY <1>0, <1>1, FewerQuiet
  <2>2. QED
    BY <1>0, <1>1, <2>1, LeaveKeeps DEF SessionInv
<1>2. MayRestart(x) =>
        /\ x = Offerer /\ a \in Sessions /\ a.gen = r.gen + 1 /\ a.remote = r.remote
        /\ Good(q) /\ q.pc = "loop" /\ q.gen = r.gen + 1 /\ q.remote = r.remote
  <2>1. MayRestart(x) => x = Offerer /\ r.attempt < MaxAttempts
    BY DEF MayRestart
  <2>2. QED
    BY <1>0, <2>1, AttemptGood DEF EndsInv
<1>3. CASE MayRestart(x) /\ Continue(x, q) /\ Send(Msg(Answerer, "restart", a.gen))
  <2>0. Continue(x, q) /\ Good(q) /\ q.pc = "loop" /\ q.gen = r.gen + 1 /\ q.remote = r.remote
        /\ x = Offerer /\ a.gen = s[x].gen + 1 /\ a.gen \in Nat
    BY <1>0, <1>2, <1>3
  <2> HIDE DEF q, a
  <2>1. EndsInv' /\ s'[Offerer] = q /\ s'[Answerer] = s[Answerer]
    BY <1>0, <2>0, EndsAre, ContinueStep
  <2>2. NetOK' /\ \A m \in net' : m \in net \/ m = Msg(Answerer, "restart", a.gen)
    BY <1>0, <1>3, <2>0, EndsAre, KindsAre, SendNet
  <2>3. \A m \in net' : /\ m.kind = "answer" => m \in net
                        /\ m.kind = "restart" => m.n <= s[Offerer].gen + 1
    <3>1. Msg(Answerer, "restart", a.gen).kind = "restart" /\ Msg(Answerer, "restart", a.gen).n = a.gen
      BY DEF Msg
    <3>2. \A m \in net : m.kind = "restart" => m.n <= s[Offerer].gen + 1
      BY <1>0, <2>0, Arrivals DEF GenInv
    <3>3. QED
      BY <1>0, <2>0, <2>2, <3>1, <3>2
  <2>4. s[Answerer].gen \in Nat /\ s[Answerer].gen <= s[Offerer].gen
    BY <1>0, <2>0, EndsAre, Ready, Getters DEF GenInv
  <2>5. GenInv'
    BY <1>0, <2>0, <2>1, <2>3, <2>4 DEF GenInv
  <2>6. QED
    BY <2>1, <2>2, <2>5 DEF SessionInv
<1>4. CASE MayRestart(x) /\ Leave(x, a, "notify") /\ UNCHANGED net
  <2>0. Leave(x, a, "notify") /\ a \in Sessions /\ a.gen = s[x].gen + 1 /\ a.remote = s[x].remote
        /\ x = Offerer
    BY <1>0, <1>2, <1>4
  <2> HIDE DEF q, a
  <2>1. /\ EndsInv' /\ s'[Answerer] = s[Answerer]
        /\ s'[Offerer].gen = s[Offerer].gen + 1 /\ s'[Offerer].remote = s[Offerer].remote
    BY <1>0, <2>0, EndsAre, LeaveStep
  <2>2. NetOK'
    BY <1>0, <1>4, FewerQuiet
  <2>3. \A m \in net' : m.kind = "restart" => m.n <= s[Offerer].gen + 1
    BY <1>0, <1>4, <2>0, Arrivals DEF GenInv
  <2>4. s[Answerer].gen \in Nat /\ s[Answerer].gen <= s[Offerer].gen
    BY <1>0, <2>0, EndsAre, Ready, Getters DEF GenInv
  <2>5. GenInv'
    BY <1>0, <1>4, <2>0, <2>1, <2>3, <2>4 DEF GenInv
  <2>6. QED
    BY <2>1, <2>2, <2>5 DEF SessionInv
<1>5. QED
  BY <1>1, <1>3, <1>4 DEF AttemptRestart

\* Arming the recovery timer of a session that recovers changes nothing.
LEMMA Rearmed ==
  ASSUME NEW r, Good(r), r.pc = "loop", r.st = "recovering"
  PROVE  r \in Sessions /\ PendBounded(r) /\ LoopInv([r EXCEPT !.timers = @ \cup {"recovery"}])
<1>1. r \in Sessions /\ PendBounded(r)
  BY DEF Good
<1>2. LoopInv([r EXCEPT !.timers = @ \cup {"recovery"}])
  BY <1>1 DEF Good, LoopInv, IsEstablished, Sessions
<1>3. QED
  BY <1>1, <1>2

LEMMA StartProbeStep ==
  ASSUME SessionInv, NEW x \in Ends, StartProbe(x)
  PROVE  SessionInv'
<1> DEFINE q == [s[x] EXCEPT !.timers = @ \ {"keepalive"}, !.pinging = @ \/ s[x].st = "connected"]
<1>1. s[x].pc = "loop" /\ Good(s[x]) /\ NetOK /\ UNCHANGED net /\ Continue(x, q)
  BY Ready DEF StartProbe
<1>2. Good(q) /\ Alike(q, s[x])
  BY <1>1, StartProbeGood
<1>3. NetOK' /\ Quiet
  BY <1>1, FewerQuiet
<1> HIDE DEF q
<1>4. QED
  BY <1>1, <1>2, <1>3, ContinueKeeps DEF SessionInv

LEMMA ProbeAnsweredStep ==
  ASSUME SessionInv, NEW x \in Ends, ProbeAnswered(x)
  PROVE  SessionInv'
<1> DEFINE q == ArmKeepAlive([s[x] EXCEPT !.pinging = FALSE])
<1>1. s[x].pc = "loop" /\ Good(s[x]) /\ NetOK /\ UNCHANGED net /\ Continue(x, q)
  BY Ready DEF ProbeAnswered
<1>2. Good(q) /\ Alike(q, s[x])
  BY <1>1, ProbeAnsweredGood
<1>3. NetOK' /\ Quiet
  BY <1>1, FewerQuiet
<1> HIDE DEF q
<1>4. QED
  BY <1>1, <1>2, <1>3, ContinueKeeps DEF SessionInv

LEMMA ProbeFailedStep ==
  ASSUME SessionInv, NEW x \in Ends, ProbeFailed(x)
  PROVE  SessionInv'
<1> DEFINE r == [s[x] EXCEPT !.pinging = FALSE]
<1>1. s[x].pc = "loop" /\ Good(s[x]) /\ s[x] \in Sessions /\ NetOK
  BY Ready DEF ProbeFailed
<1>2. r.st = s[x].st
  BY <1>1 DEF Sessions
<1>3. CASE r.st # "connected" /\ Continue(x, r) /\ UNCHANGED net
  <2>1. Good(r) /\ Alike(r, s[x])
    BY <1>1, <1>2, <1>3, NotConnectedGood
  <2>2. NetOK' /\ Quiet
    BY <1>1, <1>3, FewerQuiet
  <2> HIDE DEF r
  <2>3. QED
    BY <1>3, <2>1, <2>2, ContinueKeeps DEF SessionInv
<1>4. CASE r.st = "connected" /\ AttemptRestart(x, Lost(r))
  <2> DEFINE q == Lost(r)
  <2>1. Good(q) /\ Alike(q, s[x]) /\ q.st = "recovering" /\ q.attempt = s[x].attempt
    BY <1>1, <1>2, <1>4, ProbeLostGood
  <2> HIDE DEF q
  <2>2. AttemptRestart(x, q)
    BY <1>4 DEF q
  <2>3. q.pc = "loop"
    BY <1>1, <2>1 DEF Alike
  <2>4. q \in Sessions /\ PendBounded(q) /\ LoopInv([q EXCEPT !.timers = @ \cup {"recovery"}])
    BY <2>1, <2>3, Rearmed
  <2>5. QED
    BY <1>1, <2>1, <2>2, <2>4, AttemptStep
<1>5. QED
  BY <1>3, <1>4 DEF ProbeFailed

LEMMA LocalCandidateStep ==
  ASSUME SessionInv, NEW x \in Ends, LocalCandidate(x)
  PROVE  SessionInv'
<1>1. PICK c \in Found[x] :
        LET r == [s[x] EXCEPT !.gathered = @ \cup {c}]
        IN  \/ Continue(x, r) /\ Send(Msg(Peer(x), "candidate", c))
            \/ Leave(x, r, "notify") /\ UNCHANGED net
  BY DEF LocalCandidate
<1> DEFINE r == [s[x] EXCEPT !.gathered = @ \cup {c}]
<1>2. s[x].pc = "loop" /\ Good(s[x]) /\ s[x] \in Sessions /\ NetOK /\ Peer(x) \in Ends
  BY Ready, EndsAre DEF LocalCandidate, Peer
<1>3. c \in Nat
  BY SettingTyped DEF SessionInv, EndsInv
<1>4. Good(r) /\ Alike(r, s[x])
  BY <1>2, <1>3, GatheredGood
<1>5. CASE Continue(x, r) /\ Send(Msg(Peer(x), "candidate", c))
  <2> HIDE DEF r
  <2>1. NetOK' /\ Quiet
    BY <1>2, <1>3, <1>5, KindsAre, SendQuiet
  <2>2. QED
    BY <1>4, <1>5, <2>1, ContinueKeeps DEF SessionInv
<1>6. CASE Leave(x, r, "notify") /\ UNCHANGED net
  <2> HIDE DEF r
  <2>1. NetOK' /\ Quiet
    BY <1>2, <1>6, FewerQuiet
  <2>2. r \in Sessions /\ r.remote = s[x].remote /\ r.gen = s[x].gen
    BY <1>4 DEF Good, Alike
  <2>3. QED
    BY <1>2, <1>6, <2>1, <2>2, LeaveKeeps DEF SessionInv
<1>7. QED
  BY <1>1, <1>5, <1>6

LEMMA ConnectedStep ==
  ASSUME SessionInv, NEW x \in Ends, Connected(x)
  PROVE  SessionInv'
<1> DEFINE p == [s[x] EXCEPT !.ice = "up", !.timers = @ \ {"recovery"}, !.tries = 0]
           q == IF p.st = "recovering"
                THEN ArmKeepAlive([p EXCEPT !.st = "connected", !.attempt = 0])
                ELSE p
<1>1. s[x].pc = "loop" /\ Good(s[x]) /\ NetOK /\ UNCHANGED net /\ Continue(x, q)
  BY Ready DEF Connected
<1>2. Good(q) /\ Alike(q, s[x])
  BY <1>1, ConnectedGood
<1>3. NetOK' /\ Quiet
  BY <1>1, FewerQuiet
<1> HIDE DEF p, q
<1>4. QED
  BY <1>1, <1>2, <1>3, ContinueKeeps DEF SessionInv

LEMMA DisconnectedStep ==
  ASSUME SessionInv, NEW x \in Ends, Disconnected(x)
  PROVE  SessionInv'
<1> DEFINE p == [s[x] EXCEPT !.ice = "down"]
           q == Lost(p)
<1>1. s[x].pc = "loop" /\ Good(s[x]) /\ NetOK /\ UNCHANGED net /\ Continue(x, q)
  BY Ready DEF Disconnected
<1>2. Good(p) /\ Alike(p, s[x])
  BY <1>1, IceGood
<1> HIDE DEF p
<1>3. Good(q) /\ Alike(q, s[x])
  BY <1>1, <1>2, LostGood DEF Alike
<1>4. NetOK' /\ Quiet
  BY <1>1, FewerQuiet
<1> HIDE DEF q
<1>5. QED
  BY <1>1, <1>3, <1>4, ContinueKeeps DEF SessionInv

LEMMA FailedStep ==
  ASSUME SessionInv, NEW x \in Ends, Failed(x)
  PROVE  SessionInv'
<1> DEFINE r == [s[x] EXCEPT !.ice = "failed"]
<1>1. s[x].pc = "loop" /\ Good(s[x]) /\ NetOK
  BY Ready DEF Failed
<1>2. Good(r) /\ Alike(r, s[x]) /\ r.st = s[x].st /\ r.attempt = s[x].attempt
  BY <1>1, IceGood
<1>3. CASE Established(x) /\ AttemptRestart(x, Lost(r))
  <2> HIDE DEF r
  <2>0. r.pc = "loop" /\ IsEstablished(r)
    BY <1>1, <1>2, <1>3 DEF Alike, Established, IsEstablished
  <2> DEFINE q == Lost(r)
  <2>1. Good(q) /\ Alike(q, s[x]) /\ q.st = "recovering" /\ q.attempt = s[x].attempt
    BY <1>2, <2>0, LostGood DEF Alike
  <2> HIDE DEF q
  <2>2. AttemptRestart(x, q)
    BY <1>3 DEF q
  <2>3. q.pc = "loop"
    BY <1>1, <2>1 DEF Alike
  <2>4. q \in Sessions /\ PendBounded(q) /\ LoopInv([q EXCEPT !.timers = @ \cup {"recovery"}])
    BY <2>1, <2>3, Rearmed
  <2>5. QED
    BY <1>1, <2>1, <2>2, <2>4, AttemptStep
<1>4. CASE Leave(x, r, "notify") /\ UNCHANGED net
  <2> HIDE DEF r
  <2>1. NetOK' /\ Quiet
    BY <1>1, <1>4, FewerQuiet
  <2>2. r \in Sessions /\ r.remote = s[x].remote /\ r.gen = s[x].gen
    BY <1>2 DEF Good, Alike
  <2>3. QED
    BY <1>1, <1>4, <2>1, <2>2, LeaveKeeps DEF SessionInv
<1>5. QED
  BY <1>3, <1>4 DEF Failed

LEMMA ChannelOpenStep ==
  ASSUME SessionInv, NEW x \in Ends, ChannelOpen(x)
  PROVE  SessionInv'
<1> DEFINE r == ArmKeepAlive([s[x] EXCEPT !.stream = "open", !.st = "connected",
                                          !.timers = @ \ {"negotiate"}])
<1>1. s[x].pc = "loop" /\ s[x].stream = "none" /\ Good(s[x]) /\ NetOK /\ UNCHANGED net
      /\ s[x] \in Sessions
  BY Ready DEF ChannelOpen
<1>2. Good(r) /\ Alike(r, s[x])
  BY <1>1, ChannelOpenGood
<1>3. Continue(x, r) \/ Leave(x, r, "notify") \/ Leave(x, s[x], "notify")
  BY DEF ChannelOpen
<1> HIDE DEF r
<1>4. NetOK' /\ Quiet
  BY <1>1, FewerQuiet
<1>5. r \in Sessions /\ r.remote = s[x].remote /\ r.gen = s[x].gen
  BY <1>2 DEF Good, Alike
<1>6. CASE Continue(x, r)
  BY <1>2, <1>4, <1>6, ContinueKeeps DEF SessionInv
<1>7. CASE Leave(x, r, "notify")
  BY <1>1, <1>4, <1>5, <1>7, LeaveKeeps DEF SessionInv
<1>8. CASE Leave(x, s[x], "notify")
  BY <1>1, <1>4, <1>8, LeaveKeeps DEF SessionInv
<1>9. QED
  BY <1>3, <1>6, <1>7, <1>8

\* The handlers that only leave the loop.
LEMMA LeaveOnlyStep ==
  ASSUME SessionInv, NEW x \in Ends, InLoop(x), UNCHANGED net,
         NEW intent \in {"notify", "silent", "graceful"}, NEW r \in {s[x], Own(s[x])},
         Leave(x, r, intent)
  PROVE  SessionInv'
<1>1. s[x].pc = "loop" /\ s[x] \in Sessions /\ NetOK
  BY Ready
<1>2. r \in Sessions
  <2>1. s[x].closes \cup {"own"} \in SUBSET {"peer", "own"}
    BY <1>1, Getters
  <2>2. [s[x] EXCEPT !.closes = s[x].closes \cup {"own"}] \in Sessions
    BY <1>1, <2>1, Setters
  <2>3. QED
    BY <1>1, <2>2 DEF Own
<1>3. r.remote = s[x].remote /\ r.gen = s[x].gen
  BY <1>1 DEF Own, Sessions
<1>4. NetOK' /\ Quiet
  BY <1>1, FewerQuiet
<1>5. QED
  BY <1>1, <1>2, <1>3, <1>4, LeaveKeeps DEF SessionInv

LEMMA StreamStep ==
  ASSUME SessionInv, NEW x \in Ends, StreamEnds(x) \/ ConnClose(x)
  PROVE  SessionInv'
<1>1. /\ s[x].stream = "open" /\ Good(s[x]) /\ s[x] \in Sessions /\ NetOK /\ UNCHANGED net
      /\ s[x].closes \in SUBSET {"peer", "own"} /\ s[x].closes \cup {"own"} \in SUBSET {"peer", "own"}
  BY Ready, Getters DEF StreamEnds, ConnClose
<1>2. PICK e \in {"closed", "ended", "invalid"}, c \in {s[x].closes, s[x].closes \cup {"own"}} :
        Continue(x, [s[x] EXCEPT !.stream = e, !.closes = c])
  <2>1. CASE StreamEnds(x)
    <3>1. PICK e \in {"ended", "invalid"} : Continue(x, [s[x] EXCEPT !.stream = e])
      BY <2>1 DEF StreamEnds
    <3>2. [s[x] EXCEPT !.stream = e] = [s[x] EXCEPT !.stream = e, !.closes = s[x].closes]
      BY <1>1 DEF Sessions
    <3>3. QED
      BY <3>1, <3>2
  <2>2. CASE ConnClose(x)
    <3>1. Continue(x, Own([s[x] EXCEPT !.stream = "closed"]))
      BY <2>2 DEF ConnClose
    <3>2. Own([s[x] EXCEPT !.stream = "closed"])
            = [s[x] EXCEPT !.stream = "closed", !.closes = s[x].closes \cup {"own"}]
      BY <1>1 DEF Sessions, Own
    <3>3. QED
      BY <3>1, <3>2
  <2>3. QED
    BY <2>1, <2>2
<1> DEFINE q == [s[x] EXCEPT !.stream = e, !.closes = c]
<1>3. Good(q) /\ Alike(q, s[x])
  BY <1>1, StreamGood
<1>4. NetOK' /\ Quiet
  BY <1>1, FewerQuiet
<1>5. Continue(x, q)
  BY <1>2
<1> HIDE DEF q
<1>6. QED
  BY <1>3, <1>4, <1>5, ContinueKeeps DEF SessionInv

LEMMA RecoveryTimerStep ==
  ASSUME SessionInv, NEW x \in Ends, RecoveryTimer(x)
  PROVE  SessionInv'
<1> DEFINE r == [s[x] EXCEPT !.timers = @ \ {"recovery"}]
<1>1. s[x].pc = "loop" /\ s[x].st = "recovering" /\ Good(s[x]) /\ s[x] \in Sessions
      /\ s[x].timers \ {"recovery"} \in SUBSET {"negotiate", "recovery", "keepalive", "linger"}
      /\ AttemptRestart(x, r)
  BY Ready, Getters DEF RecoveryTimer
<1>2. r \in Sessions
  BY <1>1, Setters
<1>3. PendBounded(r) /\ Alike(r, s[x]) /\ r.attempt = s[x].attempt /\ r.st = "recovering"
  BY <1>1 DEF Good, Sessions, PendBounded, Alike
<1>4. LoopInv([r EXCEPT !.timers = @ \cup {"recovery"}])
  BY <1>1 DEF Good, LoopInv, IsEstablished, Sessions
<1> HIDE DEF r
<1>5. QED
  BY <1>1, <1>2, <1>3, <1>4, AttemptStep

LEMMA TearDownStep ==
  ASSUME SessionInv, NEW x \in Ends, TearDown(x)
  PROVE  SessionInv'
<1> DEFINE f == IF s[x].stream = "none" THEN "none"
                ELSE IF s[x].intent # "graceful" THEN "close"
                ELSE IF s[x].peerClosed THEN "eof"
                ELSE "shutdown"
           q == [s[x] EXCEPT !.pc = "release", !.fin = f,
                             !.stream = IF @ = "open" THEN "closed" ELSE @]
<1>1. /\ s[x].pc = "down" /\ Good(s[x]) /\ NetOK /\ Continue(x, q)
      /\ Send(Msg(Peer(x), "close", 0)) \/ UNCHANGED net
  BY Ready DEF TearDown
<1>2. f \in {"none", "close", "shutdown", "eof"} /\ Peer(x) \in Ends
  BY EndsAre DEF Peer
<1> HIDE DEF f
<1>3. Good(q) /\ q.pc = "release" /\ q.remote = s[x].remote /\ q.gen = s[x].gen
  BY <1>1, <1>2, TornGood
<1> HIDE DEF q
<1>4. NetOK' /\ Quiet
  BY <1>1, <1>2, KindsAre, SendQuiet, FewerQuiet
<1>5. EndsInv' /\ s'[x] = q /\ \A y \in Ends : y # x => s'[y] = s[y]
  BY <1>1, <1>3, ContinueStep DEF SessionInv
<1>6. GenInv'
  <2>1. \A y \in Ends : /\ s'[y].remote = s[y].remote /\ s'[y].gen = s[y].gen
                        /\ s'[y].pc # "closed" => s[y].pc # "closed"
    BY <1>1, <1>3, <1>5
  <2>2. QED
    BY <1>4, <2>1, GenKept DEF SessionInv
<1>7. QED
  BY <1>4, <1>5, <1>6 DEF SessionInv

\* A session that closes forgets its generation, and the bounds that the other
\* end's and the signals had in it.
LEMMA TearPeerStep ==
  ASSUME SessionInv, NEW x \in Ends, TearPeer(x)
  PROVE  SessionInv'
<1> DEFINE q == [NewSession EXCEPT !.pc = "closed", !.st = "closed"]
<1>1. Good(q) /\ q.pc = "closed" /\ q.remote = None /\ q.gen = 0
  BY ClosedGood DEF SessionInv, EndsInv
<1>2. Continue(x, q) /\ net' \subseteq net /\ NetOK /\ GenInv
  BY Ready DEF TearPeer
<1> HIDE DEF q
<1>3. EndsInv' /\ s'[x] = q /\ \A y \in Ends : y # x => s'[y] = s[y]
  BY <1>1, <1>2, ContinueStep DEF SessionInv
<1>4. NetOK'
  BY <1>2, FewerQuiet
<1>5. /\ s[Offerer].gen \in Nat /\ s[Answerer].gen \in Nat
      /\ s[x].pc = "release"
  BY Ready, EndsAre, Getters DEF TearPeer
<1>6. CASE x = Offerer
  <2>1. /\ s'[Offerer].pc = "closed" /\ s'[Offerer].remote = -1
        /\ s'[Answerer] = s[Answerer] /\ -1 <= s[Answerer].gen
    BY <1>1, <1>3, <1>5, <1>6, EndsAre DEF None
  <2>2. QED
    BY <1>2, <2>1, <1>3, <1>4 DEF GenInv, SessionInv
<1>7. CASE x = Answerer
  <2>1. /\ s'[Answerer].pc = "closed" /\ s'[Answerer].gen = 0
        /\ s'[Offerer] = s[Offerer] /\ 0 <= s[Offerer].gen
    BY <1>1, <1>3, <1>5, <1>7, EndsAre
  <2>2. QED
    BY <1>2, <2>1, <1>3, <1>4 DEF GenInv, SessionInv
<1>8. QED
  BY <1>6, <1>7, EndsAre

-----------------------------------------------------------------------------
(* The theorems.                                                           *)

LEMMA SessionInit ==
  ASSUME Init
  PROVE  SessionInv
<1>1. /\ cfg \in Settings /\ s \in [Ends -> Sessions]
      /\ \A x \in Ends : s[x] = NewSession
  BY NewGood DEF Init, Good
<1>2. NewSession.pc = "none" /\ NewSession.remote = None /\ NewSession.gen = 0
  BY DEF NewSession
<1>3. EndsInv
  BY <1>1, <1>2, EndsAre, NewGood DEF EndsInv, AnswererHasOffer, InLoop
<1>4. NetOK /\ GenInv
  BY <1>1, <1>2, EndsAre DEF NetOK, GenInv, Init, None
<1>5. QED
  BY <1>3, <1>4 DEF SessionInv

LEMMA SessionStep ==
  ASSUME SessionInv, [Next]_vars
  PROVE  SessionInv'
<1>1. CASE UNCHANGED vars
  BY <1>1, IdleStep DEF vars, SessionInv, NetOK, GenInv
<1>2. CASE StartOfferer \/ StartAnswerer
  BY <1>2, StartOffererStep, StartAnswererStep
<1>3. CASE Signal
  BY <1>3, OnAnswerStep, OnRestartStep, OnRejectStep, OnCandidateStep, OnCloseStep DEF Signal
<1>4. ASSUME NEW x \in Ends, Pion(x) PROVE SessionInv'
  <2>1. CASE PionTrouble(x)
    BY <2>1, LeaveOnlyStep DEF PionTrouble
  <2>2. QED
    BY <1>4, <2>1, LocalCandidateStep, ConnectedStep, DisconnectedStep, FailedStep,
       ChannelOpenStep DEF Pion
<1>5. ASSUME NEW x \in Ends, StartProbe(x) \/ ProbeAnswered(x) \/ ProbeFailed(x)
      PROVE  SessionInv'
  BY <1>5, StartProbeStep, ProbeAnsweredStep, ProbeFailedStep
<1>6. ASSUME NEW x \in Ends, StreamEnds(x) \/ ConnClose(x) PROVE SessionInv'
  BY <1>6, StreamStep
<1>7. ASSUME NEW x \in Ends, StreamDone(x) PROVE SessionInv'
  BY <1>7, LeaveOnlyStep DEF StreamDone
<1>8. ASSUME NEW x \in Ends, AskClose(x) \/ ContextDone(x) PROVE SessionInv'
  BY <1>8, LeaveOnlyStep DEF AskClose, ContextDone
<1>9. ASSUME NEW x \in Ends, Timers(x) PROVE SessionInv'
  <2>1. CASE NegotiateTimer(x) \/ LingerTimer(x)
    BY <2>1, LeaveOnlyStep DEF NegotiateTimer, LingerTimer
  <2>2. QED
    BY <1>9, <2>1, RecoveryTimerStep DEF Timers
<1>10. ASSUME NEW x \in Ends, Tear(x) PROVE SessionInv'
  BY <1>10, TearDownStep, TearPeerStep DEF Tear
<1>11. QED
  BY <1>1, <1>2, <1>3, <1>4, <1>5, <1>6, <1>7, <1>8, <1>9, <1>10 DEF Next

LEMMA SessionInvariant == Spec => []SessionInv
  BY SessionInit, SessionStep, PTL DEF Spec

\* The sessions and the signals keep their types, and the buffer of early
\* candidates its bound (maxPendingCandidates).
THEOREM TypeCorrect == Spec => []TypeOK
<1>1. SessionInv => TypeOK
  BY DEF SessionInv, EndsInv, Good, PendBounded, NetOK, TypeOK, Sessions
<1>2. QED
  BY <1>1, SessionInvariant, PTL

\* No candidate that arrived is lost, however it overtakes the description
\* (handleCandidate, flushCandidates).
THEOREM CandidatesAreKept == Spec => []CandidatesKept
<1>1. SessionInv => CandidatesKept
  BY DEF SessionInv, EndsInv, Good, LoopInv, CandidatesKept, InLoop
<1>2. QED
  BY <1>1, SessionInvariant, PTL

\* The session waits for nothing without a timer that ends the wait, and no
\* timer outlives its wait (negotiation, recovery, the peer's stream).
THEOREM WaitsBounded == Spec => []WaitsAreBounded
<1>1. SessionInv => WaitsAreBounded
  BY DEF SessionInv, EndsInv, Good, LoopInv, WaitsAreBounded, InLoop, Established, IsEstablished
<1>2. QED
  BY <1>1, SessionInvariant, PTL

\* Keepalive never stops on a connected session (armKeepAlive, startProbe,
\* onKeepAlive), whatever late probe results and recoveries do in between.
THEOREM ProbesScheduled == Spec => []ProbeScheduled
<1>1. SessionInv => ProbeScheduled
  BY DEF SessionInv, EndsInv, Good, LoopInv, ProbeScheduled, InLoop
<1>2. QED
  BY <1>1, SessionInvariant, PTL

\* However restarts, answers and failures interleave and signals are reordered,
\* the answerer is never ahead of the offerer's generation and the offerer
\* holds no answer that was not given (onRestartSignal, attemptRestart).
THEOREM GenerationsAreOrdered == Spec => []GenerationsOrdered
<1>1. SessionInv => GenerationsOrdered
  BY DEF SessionInv, GenInv, GenerationsOrdered, InLoop
<1>2. QED
  BY <1>1, SessionInvariant, PTL
=============================================================================
