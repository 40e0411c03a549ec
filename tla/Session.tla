------------------------------- MODULE Session -------------------------------
(***************************************************************************)
(* session (session.go): the two ends of one connection, from the offer to *)
(* the teardown.  Each end is an event loop that alone changes its state;  *)
(* the events are signals from the peer, Pion's reports, the results of    *)
(* keepalive probes, requests to close, and timers.                        *)
(*                                                                         *)
(* An event is handled when it arrives: the order in which events of       *)
(* different origin reach the mailbox is arbitrary anyway (Inbox has the   *)
(* mailbox).  Signals are reordered; one that is lost is never taken out   *)
(* of net, and so is one that is sent in vain or reaches an endpoint that  *)
(* has no such session.  Repeats are dropped on arrival (Inbox).  A timer  *)
(* is armed or not, and an armed one may fire at any time.  Any call of    *)
(* Pion or of signaling may fail.                                          *)
(***************************************************************************)
EXTENDS Integers, FiniteSets

CONSTANTS
  Settings,     \* the configurations and environments that are looked at
  MaxPending    \* maxPendingCandidates

ASSUME SessionAssumption ==
  /\ Settings \subseteq [found : [{"offerer", "answerer"} -> SUBSET Nat],
                          reconnect : BOOLEAN, attempts : Nat, keepAlive : BOOLEAN,
                          generations : Nat]
  /\ MaxPending \in Nat

Offerer  == "offerer"
Answerer == "answerer"
Ends     == {Offerer, Answerer}
Peer(x)  == IF x = Offerer THEN Answerer ELSE Offerer

VARIABLES
  s,    \* the two sessions, each with its PeerConnection
  net,  \* signals in flight
  cfg   \* the setting, which never changes

vars == <<s, net, cfg>>

\* The ICE candidates that each end finds, and End if gathering ends.
Found == cfg.found

\* ReconnectPolicy, and whether a keepalive interval is configured.
Reconnect   == cfg.reconnect
MaxAttempts == cfg.attempts
KeepAlive   == cfg.keepAlive

\* Bound: restart offers of a later generation than this are lost.
MaxGen == cfg.generations

None == -1

\* End-of-candidates, among the candidates, which are numbered from 1.
End == 0

\* pc     of the session's goroutine: its loop, then teardown's steps
\* remote the offer that Pion's remote description belongs to
\* ice    connectivity as Pion last reported it
\* gathered, applied   candidates that Pion has found, and has been given
\* The last three are history: candidates taken in, restarts since
\* connectivity was last there, and closes: the peer's, taken in when there
\* was a stream, and this side's own.
NewSession ==
  [pc |-> "none", st |-> "new", remote |-> None, gen |-> 0, attempt |-> 0,
   timers |-> {}, pend |-> {}, stream |-> "none", pinging |-> FALSE,
   peerClosed |-> FALSE, intent |-> "none", fin |-> "none",
   ice |-> "new", gathered |-> {}, applied |-> {},
   arrived |-> {}, tries |-> 0, closes |-> {}]

InLoop(x) == s[x].pc = "loop"

Established(x) == s[x].st \in {"connected", "recovering"}

Continue(x, r) == s' = [s EXCEPT ![x] = r] /\ UNCHANGED cfg

\* Session x, with record r, leaves its loop.  The closeIntent says whether the
\* peer is told ("notify"), and whether data that has arrived stays readable
\* ("graceful"); it is "silent" when neither.  The fields that only the loop
\* uses are void from here on.
Leave(x, r, intent) ==
  Continue(x, [NewSession EXCEPT !.pc = "down", !.st = "closed", !.intent = intent,
                 !.remote = r.remote, !.gen = r.gen, !.stream = r.stream,
                 !.peerClosed = r.peerClosed, !.closes = r.closes])

-----------------------------------------------------------------------------
(* Signals.  An answer names the offer it answers, as its SDP does.        *)

Msg(x, k, n) == [to |-> x, kind |-> k, n |-> n]

\* A session that has finished takes in nothing any more.
Send(m) == net' = IF s[m.to].pc = "closed" THEN net ELSE net \cup {m}

Receives(x, m) == InLoop(x) /\ m \in net /\ m.to = x

Taken(m) == net' = net \ {m}

-----------------------------------------------------------------------------
(* start.                                                                  *)

\* The offerer: Dial.
StartOfferer ==
  /\ s[Offerer].pc = "none"
  /\ \/ /\ Continue(Offerer, [s[Offerer] EXCEPT !.pc = "loop", !.st = "signaling",
                                                !.timers = {"negotiate"}])
        /\ Send(Msg(Answerer, "offer", 0))
     \/ /\ Leave(Offerer, s[Offerer], "notify")
        /\ UNCHANGED net

\* The answerer: the endpoint admits the offer, or rejects it.
StartAnswerer ==
  /\ s[Answerer].pc = "none"
  /\ Msg(Answerer, "offer", 0) \in net
  /\ LET rest == net \ {Msg(Answerer, "offer", 0)}
     IN  \/ /\ Continue(Answerer, [s[Answerer] EXCEPT !.pc = "loop", !.st = "connecting",
                                     !.remote = 0, !.timers = {"negotiate"}])
            /\ net' = rest \cup {Msg(Offerer, "answer", 0)}
         \/ /\ Leave(Answerer, s[Answerer], "notify")
            /\ net' = rest
         \/ /\ net' = rest \cup {Msg(Offerer, "reject", 0)}
            /\ UNCHANGED <<s, cfg>>

-----------------------------------------------------------------------------
(* onSignal.                                                               *)

\* Mutant of Flushed: buffered candidates are forgotten.
FlushedNone(r) == [r EXCEPT !.pend = {}]

\* flushCandidates: what was buffered goes to Pion.
Flushed(r) == [r EXCEPT !.applied = @ \cup r.pend, !.pend = {}]

\* The first answer, or one while a restart is outstanding; any other is a
\* duplicate.  The answer does not say which restart it is for.
OnAnswer ==
  \E m \in net :
    /\ m.kind = "answer"
    /\ Receives(Offerer, m)
    /\ Taken(m)
    /\ LET r == s[Offerer]
           duplicate == r.remote # None /\ r.attempt = 0
       IN  \/ duplicate /\ UNCHANGED <<s, cfg>>
           \/ /\ ~duplicate
              /\ Continue(Offerer,
                   Flushed([r EXCEPT !.remote = m.n, !.attempt = 0,
                                     !.st = IF @ = "signaling" THEN "connecting" ELSE @]))
           \/ ~duplicate /\ Leave(Offerer, r, "notify")

\* Mutant of OnRestart: a restart that was overtaken is taken for a new one.
OnRestartAnyOrder ==
  \E m \in net :
    /\ m.kind = "restart" /\ m.n <= MaxGen
    /\ Receives(Answerer, m)
    /\ Continue(Answerer, [s[Answerer] EXCEPT !.gen = m.n, !.remote = m.n])
    /\ net' = (net \ {m}) \cup {Msg(Offerer, "answer", m.n)}

\* onRestartSignal: a restart that is not newer than the last is dropped.
OnRestart ==
  \E m \in net :
    /\ m.kind = "restart" /\ m.n <= MaxGen
    /\ Receives(Answerer, m)
    /\ LET r == s[Answerer]
       IN  \/ /\ m.n <= r.gen
              /\ Taken(m)
              /\ UNCHANGED <<s, cfg>>
           \/ /\ m.n > r.gen
              /\ Continue(Answerer, [r EXCEPT !.gen = m.n, !.remote = m.n])
              /\ net' = (net \ {m}) \cup {Msg(Offerer, "answer", m.n)}
           \/ /\ m.n > r.gen
              /\ Leave(Answerer, [r EXCEPT !.gen = m.n], "notify")
              /\ Taken(m)

\* Mutant of OnCandidate: the buffer takes one candidate too many.
OnCandidateOffByOne(x) ==
  \E m \in net :
    /\ m.kind = "candidate"
    /\ Receives(x, m)
    /\ Taken(m)
    /\ LET r == [s[x] EXCEPT !.arrived = @ \cup {m.n}]
           full == m.n # End /\ Cardinality(r.pend \ {End}) > MaxPending
       IN  IF r.remote # None THEN Continue(x, [r EXCEPT !.applied = @ \cup {m.n}])
           ELSE IF ~full THEN Continue(x, [r EXCEPT !.pend = @ \cup {m.n}])
           ELSE Leave(x, r, "notify")

\* A candidate, or End: buffered until the remote description is there.
OnCandidate(x) ==
  \E m \in net :
    /\ m.kind = "candidate"
    /\ Receives(x, m)
    /\ Taken(m)
    /\ LET r == [s[x] EXCEPT !.arrived = @ \cup {m.n}]
           full == m.n # End /\ Cardinality(r.pend \ {End}) >= MaxPending
       IN  \/ /\ r.remote # None
              /\ Continue(x, [r EXCEPT !.applied = @ \cup {m.n}])
           \/ /\ r.remote = None /\ ~full
              /\ Continue(x, [r EXCEPT !.pend = @ \cup {m.n}])
           \/ /\ r.remote = None /\ full
              /\ Leave(x, r, "notify")

OnReject ==
  \E m \in net :
    /\ m.kind = "reject"
    /\ Receives(Offerer, m)
    /\ Taken(m)
    /\ Leave(Offerer, s[Offerer], "silent")

Heard(r) == IF r.stream # "none" THEN [r EXCEPT !.closes = @ \cup {"peer"}] ELSE r

\* Mutant of OnClose: the wait for the stream's end has no limit.
OnCloseUnbounded(x) ==
  \E m \in net :
    /\ m.kind = "close"
    /\ Receives(x, m)
    /\ Taken(m)
    /\ LET r == Heard(s[x])
       IN  \/ /\ r.st # "connected" \/ r.stream = "none"
              /\ Leave(x, r, "silent")
           \/ /\ r.st = "connected" /\ r.stream # "none"
              /\ Continue(x, [r EXCEPT !.peerClosed = TRUE])

\* The peer closed.  A connected session waits for its stream to end, for at
\* most closeLingerTimeout; any other ends at once.
OnClose(x) ==
  \E m \in net :
    /\ m.kind = "close"
    /\ Receives(x, m)
    /\ Taken(m)
    /\ LET r == Heard(s[x])
       IN  \/ /\ r.st # "connected" \/ r.stream = "none"
              /\ Leave(x, r, "silent")
           \/ /\ r.st = "connected" /\ r.stream # "none"
              /\ Continue(x, [r EXCEPT !.peerClosed = TRUE, !.timers = @ \cup {"linger"}])

Signal == OnAnswer \/ OnRestart \/ OnReject \/ \E x \in Ends : OnCandidate(x) \/ OnClose(x)

-----------------------------------------------------------------------------
(* Recovery and keepalive.                                                 *)

\* armKeepAlive
ArmKeepAlive(r) ==
  IF KeepAlive /\ r.stream # "none" /\ ~r.pinging
  THEN [r EXCEPT !.timers = @ \cup {"keepalive"}]
  ELSE r

\* Mutant of Lost: recovery has no deadline.
LostUnarmed(r) == IF r.st = "connected" THEN [r EXCEPT !.st = "recovering"] ELSE r

\* onConnectivityLost
Lost(r) ==
  IF r.st = "connected"
  THEN [r EXCEPT !.st = "recovering", !.timers = @ \cup {"recovery"}]
  ELSE r

MayRestart(x) == Reconnect /\ x = Offerer /\ s[x].attempt < MaxAttempts

\* attemptRestart, from record r: an ICE restart by the offerer while attempts
\* are left, and the end of the session otherwise, or when the restart fails.
AttemptRestart(x, r) ==
  LET next == [r EXCEPT !.attempt = @ + 1, !.gen = @ + 1, !.tries = @ + 1]
  IN  \/ /\ MayRestart(x)
         /\ Continue(x, [next EXCEPT !.timers = @ \cup {"recovery"}])
         /\ Send(Msg(Answerer, "restart", next.gen))
      \/ /\ MayRestart(x)
         /\ Leave(x, next, "notify")
         /\ UNCHANGED net
      \/ /\ ~MayRestart(x)
         /\ Leave(x, r, "notify")
         /\ UNCHANGED net

\* startProbe, when its timer fires; the probe runs only while connected.
StartProbe(x) ==
  /\ InLoop(x)
  /\ "keepalive" \in s[x].timers
  /\ Continue(x, [s[x] EXCEPT !.timers = @ \ {"keepalive"},
                              !.pinging = @ \/ s[x].st = "connected"])
  /\ UNCHANGED net

\* Mutant of ProbeAnswered: the next probe is not scheduled.
ProbeAnsweredOnce(x) ==
  /\ InLoop(x)
  /\ s[x].pinging
  /\ Continue(x, [s[x] EXCEPT !.pinging = FALSE])
  /\ UNCHANGED net

\* onKeepAlive: the pong came, ...
ProbeAnswered(x) ==
  /\ InLoop(x)
  /\ s[x].pinging
  /\ Continue(x, ArmKeepAlive([s[x] EXCEPT !.pinging = FALSE]))
  /\ UNCHANGED net

\* ... or the probe failed, which may be long after the path has recovered.
ProbeFailed(x) ==
  /\ InLoop(x)
  /\ s[x].pinging
  /\ LET r == [s[x] EXCEPT !.pinging = FALSE]
     IN  \/ r.st # "connected" /\ Continue(x, r) /\ UNCHANGED net
         \/ r.st = "connected" /\ AttemptRestart(x, Lost(r))

-----------------------------------------------------------------------------
(* onPionEvent.  What Pion reports, and when, is external.                 *)

\* The two ends have each other's current description.
Matched == /\ s[Offerer].remote = s[Offerer].gen
           /\ s[Answerer].remote = s[Offerer].gen

\* Candidates are found in the order of their numbers, and End comes last.
Before(x, c) == {d \in Found[x] : d # End /\ (c = End \/ d < c)}

\* A local candidate, or the end of gathering, is sent to the peer.  A
\* candidate that cannot be sent ends a session that is not connected.
LocalCandidate(x) ==
  /\ InLoop(x)
  /\ \E c \in Found[x] \ s[x].gathered :
       LET r == [s[x] EXCEPT !.gathered = @ \cup {c}]
       IN  /\ Before(x, c) \subseteq r.gathered
           /\ \/ Continue(x, r) /\ Send(Msg(Peer(x), "candidate", c))
              \/ /\ c # End /\ r.st # "connected"
                 /\ Leave(x, r, "notify")
                 /\ UNCHANGED net

\* onConnectivityUp
Connected(x) ==
  /\ InLoop(x)
  /\ Matched /\ s[Peer(x)].pc # "closed"
  /\ LET r == [s[x] EXCEPT !.ice = "up", !.timers = @ \ {"recovery"}, !.tries = 0]
     IN  Continue(x, IF r.st = "recovering"
                     THEN ArmKeepAlive([r EXCEPT !.st = "connected", !.attempt = 0])
                     ELSE r)
  /\ UNCHANGED net

Disconnected(x) ==
  /\ InLoop(x)
  /\ s[x].ice = "up"
  /\ Continue(x, Lost([s[x] EXCEPT !.ice = "down"]))
  /\ UNCHANGED net

\* onConnectivityFailed
Failed(x) ==
  /\ InLoop(x)
  /\ s[x].ice # "failed" /\ s[x].remote # None
  /\ LET r == [s[x] EXCEPT !.ice = "failed"]
     IN  \/ Established(x) /\ AttemptRestart(x, Lost(r))
         \/ ~Established(x) /\ Leave(x, r, "notify") /\ UNCHANGED net

\* onChannelOpen and deliver: the stream, the connection, and whoever waits
\* for it; the channel may be unusable and the listener closed by now.
ChannelOpen(x) ==
  /\ InLoop(x)
  /\ s[x].stream = "none" /\ s[x].ice \in {"up", "down"}
  /\ LET r == ArmKeepAlive([s[x] EXCEPT !.stream = "open", !.st = "connected",
                                        !.timers = @ \ {"negotiate"}])
     IN  \/ Continue(x, r)
         \/ x = Answerer /\ Leave(x, r, "notify")
         \/ Leave(x, s[x], "notify")
  /\ UNCHANGED net

\* EventPeerClosed, EventError, and EventChannelClosed without a stream: the
\* session ends and says so.
PionTrouble(x) ==
  /\ InLoop(x)
  /\ Leave(x, s[x], "notify")
  /\ UNCHANGED net

Pion(x) == \/ LocalCandidate(x) \/ Connected(x) \/ Disconnected(x) \/ Failed(x)
           \/ ChannelOpen(x) \/ PionTrouble(x)

-----------------------------------------------------------------------------
(* The stream, as the session sees it.                                     *)

\* The stream's read loop exits (readLoop): the peer ended its stream or its
\* PeerConnection, or the channel failed under a live peer ("ended"), or a
\* frame is invalid or too long.
StreamEnds(x) ==
  /\ s[x].stream = "open"
  /\ \E e \in {"ended", "invalid"} : Continue(x, [s[x] EXCEPT !.stream = e])
  /\ UNCHANGED net

\* onStreamDone: the stream was closed here, had an invalid frame, or ended; an
\* error of the channel is taken for the peer's end.
StreamDone(x) ==
  /\ InLoop(x)
  /\ \/ s[x].stream \in {"closed", "invalid"} /\ Leave(x, s[x], "notify")
     \/ s[x].stream = "ended" /\ Leave(x, s[x], "graceful")
  /\ UNCHANGED net

-----------------------------------------------------------------------------
(* Closing calls and timers.                                               *)

Own(r) == [r EXCEPT !.closes = @ \cup {"own"}]

\* requestClose or closeWith, by a cancelled Dial, Endpoint.Close or Conn.Close.
AskClose(x) ==
  /\ InLoop(x)
  /\ Leave(x, Own(s[x]), "notify")
  /\ UNCHANGED net

\* Conn.Close: the stream first, then the request.
ConnClose(x) ==
  /\ s[x].stream = "open"
  /\ Continue(x, Own([s[x] EXCEPT !.stream = "closed"]))
  /\ UNCHANGED net

\* The endpoint's context ends.
ContextDone(x) ==
  /\ InLoop(x)
  /\ Leave(x, Own(s[x]), "silent")
  /\ UNCHANGED net

NegotiateTimer(x) ==
  /\ InLoop(x)
  /\ "negotiate" \in s[x].timers
  /\ ~Established(x)
  /\ Leave(x, s[x], "notify")
  /\ UNCHANGED net

\* onRecoveryDeadline; the timer is armed only while recovering.
RecoveryTimer(x) ==
  /\ InLoop(x)
  /\ "recovery" \in s[x].timers /\ s[x].st = "recovering"
  /\ AttemptRestart(x, [s[x] EXCEPT !.timers = @ \ {"recovery"}])

LingerTimer(x) ==
  /\ InLoop(x)
  /\ "linger" \in s[x].timers
  /\ Leave(x, s[x], "graceful")
  /\ UNCHANGED net

Timers(x) == NegotiateTimer(x) \/ RecoveryTimer(x) \/ LingerTimer(x)

-----------------------------------------------------------------------------
(* teardown.                                                               *)

\* The peer is told if it should be, and the stream is ended; how decides what its reader sees.
TearDown(x) ==
  /\ s[x].pc = "down"
  /\ LET fin == IF s[x].stream = "none" THEN "none"
                ELSE IF s[x].intent # "graceful" THEN "close"
                ELSE IF s[x].peerClosed THEN "eof"
                ELSE "shutdown"
     IN  Continue(x, [s[x] EXCEPT !.pc = "release", !.fin = fin,
                        !.stream = IF @ = "open" THEN "closed" ELSE @])
  /\ IF s[x].intent = "notify" THEN Send(Msg(Peer(x), "close", 0)) ELSE UNCHANGED net

\* awaitRelease, PeerConnection.Close and the rest; nothing of the session is
\* used any more, and signals to it are dropped.
TearPeer(x) ==
  /\ s[x].pc = "release"
  /\ Continue(x, [NewSession EXCEPT !.pc = "closed", !.st = "closed"])
  /\ net' = {m \in net : m.to # x}

Tear(x) == TearDown(x) \/ TearPeer(x)

-----------------------------------------------------------------------------

Init ==
  /\ s = [x \in Ends |-> NewSession]
  /\ net = {}
  /\ cfg \in Settings

Next ==
  \/ StartOfferer \/ StartAnswerer
  \/ Signal
  \/ \E x \in Ends :
       \/ Pion(x)
       \/ StartProbe(x) \/ ProbeAnswered(x) \/ ProbeFailed(x)
       \/ StreamEnds(x) \/ StreamDone(x)
       \/ AskClose(x) \/ ConnClose(x) \/ ContextDone(x)
       \/ Timers(x)
       \/ Tear(x)

\* Pion notices that the peer has closed its PeerConnection.
NoticesPeer(x) ==
  /\ s[Peer(x)].pc = "closed" /\ s[x].st = "connected"
  /\ StreamEnds(x) \/ Disconnected(x) \/ Failed(x)

(* The loops run, armed timers fire, and on a session that believes itself   *)
(* connected Pion notices that the peer has closed its PeerConnection: the   *)
(* stream ends or connectivity is reported lost.  Nothing else that Pion     *)
(* might report need come, and no signal need arrive.                        *)
Fairness ==
  \A x \in Ends : /\ WF_vars(Timers(x))
                  /\ WF_vars(StreamDone(x))
                  /\ WF_vars(NoticesPeer(x))
                  /\ WF_vars(Tear(x))

Spec == Init /\ [][Next]_vars
FairSpec == Spec /\ Fairness

-----------------------------------------------------------------------------
(* Properties.                                                             *)

Kinds == {"offer", "answer", "restart", "candidate", "reject", "close"}

\* The variables keep their types, the candidate buffer its bound.
TypeOK ==
  /\ s \in [Ends -> [pc : {"none", "loop", "down", "release", "closed"},
                     st : {"new", "signaling", "connecting", "connected", "recovering", "closed"},
                     remote : Nat \cup {None}, gen : Nat, attempt : 0 .. MaxAttempts,
                     timers : SUBSET {"negotiate", "recovery", "keepalive", "linger"},
                     pend : SUBSET Nat,
                     stream : {"none", "open", "closed", "ended", "invalid"},
                     pinging : BOOLEAN, peerClosed : BOOLEAN,
                     intent : {"none", "notify", "silent", "graceful"},
                     fin : {"none", "close", "shutdown", "eof"},
                     ice : {"new", "up", "down", "failed"},
                     gathered : SUBSET Nat, applied : SUBSET Nat,
                     arrived : SUBSET Nat, tries : Nat,
                     closes : SUBSET {"peer", "own"}]]
  /\ \A x \in Ends : Cardinality(s[x].pend \ {End}) <= MaxPending
  /\ net \subseteq [to : Ends, kind : Kinds, n : Nat]
  /\ cfg \in Settings

\* No remote candidate that arrived is lost: until the description is there it
\* is buffered, and from then on Pion has it (flushCandidates).
CandidatesKept ==
  \A x \in Ends :
    InLoop(x) => /\ s[x].arrived = s[x].applied \cup s[x].pend
                 /\ s[x].remote # None => s[x].pend = {}

\* A session has exactly the timers that bound what it is waiting for:
\* negotiation, recovery, and the stream of a peer that has closed.
WaitsAreBounded ==
  \A x \in Ends :
    InLoop(x) => /\ ~Established(x) <=> "negotiate" \in s[x].timers
                 /\ s[x].st = "recovering" <=> "recovery" \in s[x].timers
                 /\ s[x].peerClosed <=> "linger" \in s[x].timers

\* A connected session with keepalive always has a probe outstanding or
\* scheduled, however recoveries and late probe results interleave.
ProbeScheduled ==
  \A x \in Ends :
    KeepAlive /\ InLoop(x) /\ s[x].st = "connected" =>
      s[x].pinging \/ "keepalive" \in s[x].timers

\* The restart generations of the two ends are ordered, although restarts and
\* answers overtake each other: the answerer is never ahead of the offerer, and
\* an answer the offerer holds is one that the answerer gave.  That the answer
\* is the one to the latest restart is not promised: the offerer takes a late
\* answer for it.
GenerationsOrdered ==
  InLoop(Offerer) /\ InLoop(Answerer) =>
    /\ s[Answerer].gen <= s[Offerer].gen
    /\ s[Offerer].remote <= s[Answerer].gen

\* When one end is gone the other ends too, although every signal about it may
\* be lost: by its stream, by recovery running out, or by a timeout.
NoHalfOpen ==
  \A x \in Ends : s[x].pc = "closed" ~> s[Peer(x)].pc \in {"none", "closed"}

\* config.go:136 says MaxAttempts bounds consecutive recovery attempts.
RecoveryBounded == s[Offerer].tries <= MaxAttempts

\* guides/11-protocol.md:117 says that on an established session the receiver of
\* a close drains the stream and reports io.EOF; here, unless this side closes
\* too.
CloseIsEOF ==
  \A x \in Ends :
    s[x].pc = "release" /\ s[x].closes = {"peer"} => s[x].fin # "close"
=============================================================================
