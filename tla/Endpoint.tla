------------------------------ MODULE Endpoint ------------------------------
(***************************************************************************)
(* Endpoint and Listener (endpoint.go, listener.go) and the outer life of  *)
(* a session (session.go: deliver and teardown): which sessions exist, who *)
(* is handed their connection, who gives their backlog slot back, and how  *)
(* Dial, AcceptConn, Listener.Close and Endpoint.Close end.                *)
(*                                                                         *)
(* The processes are the receive loop, the goroutine of every session, the *)
(* callers of Dial and AcceptConn and the two closing calls.  A step under *)
(* e.mu is one action.  Negotiation is abstract: a running session becomes *)
(* established or fails.  Each inbound session is offered once; repeated   *)
(* offers are dropped before they get here, or by the session itself.      *)
(***************************************************************************)
EXTENDS Integers, Sequences, FiniteSets

CONSTANTS
  In,         \* inbound sessions: the offers that peers send
  Out,        \* outbound sessions: the calls of Dial
  Accepters,  \* calls of AcceptConn
  LnCloser,   \* the run of Listener.Close that closeOnce admits
  Allowed,    \* the inbound sessions whose peer AllowPeer lets in
  Backlog,    \* AcceptBacklog
  Outage,     \* whether signaling may be lost
  None

Sessions == In \cup Out
Drainers == Accepters \cup {LnCloser}

ASSUME SessionsAssumption ==
  /\ In \cap Out = {}
  /\ IsFiniteSet(In)
  /\ Allowed \subseteq In
  /\ LnCloser \notin Accepters
  /\ None \notin Sessions

ASSUME BacklogAssumption == Backlog \in Nat \ {0} /\ Outage \in BOOLEAN

VARIABLES
  sessions,   \* the registry e.sessions
  epClosed,   \* e.closed
  signalErr,  \* e.signalErr is set
  cancelled,  \* e.ctx is cancelled
  listener,   \* e.listener is set
  listened,   \* e.listened
  lnClosed,   \* the listener's closed channel
  accept,     \* the accept queue
  slots,      \* tokens in inboundSlots
  slot,       \* per session, its releaseSlot: "none", "held" or "freed"
  owns,       \* sessions whose releaseSlot field is not nil
  spc,        \* where each session goroutine is
  asked,      \* sessions with a close event in their mailbox
  conn,       \* per session, its connection: "none", "open" or "closed"
  result,     \* per session, the result channel: "none", "conn" or "err"
  rpc,        \* where the receive loop is
  offer,      \* the offer it is handling
  offered,    \* the offers it has taken
  dpc, dres,  \* where each Dial is, and how it returned
  apc, hand,  \* where each AcceptConn and Listener.Close is, and the
              \* connection it has taken off the queue
  epc,        \* where Endpoint.Close is
  snapshot,   \* the sessions it found registered
  graceOver   \* awaitSessions gave up (history)

regVars  == <<sessions, epClosed, signalErr, cancelled>>
lnVars   == <<listener, listened, lnClosed>>
slotVars == <<slots, slot>>
sessVars == <<owns, spc, asked, conn, result>>
recvVars == <<rpc, offer, offered>>
dialVars == <<dpc, dres>>
accVars  == <<apc, hand>>
epVars   == <<epc, snapshot, graceOver>>

vars == <<regVars, lnVars, accept, slotVars, sessVars, recvVars, dialVars, accVars, epVars>>

-----------------------------------------------------------------------------
(* Helpers.                                                                *)

\* The session loop runs, or teardown does: the goroutine counts in e.wg.
Teardown == {"down", "remove", "free", "tell"}
Running  == {"run", "push", "send", "up"} \cup Teardown

\* The mailbox takes events until teardown begins.
MailboxOpen(s) == spc[s] \in {"registered", "run", "push", "send", "up"}

\* closeWith on each session of S.
CloseWith(S) == asked' = asked \cup {s \in S : MailboxOpen(s)}

\* addSession refuses.
Refused == epClosed \/ signalErr

\* releaseSlot, which runs at most once.
Release(s) ==
  \/ /\ slot[s] = "held"
     /\ slot' = [slot EXCEPT ![s] = "freed"]
     /\ slots' = IF slots > 0 THEN slots - 1 ELSE slots
  \/ /\ slot[s] # "held"
     /\ UNCHANGED slotVars

-----------------------------------------------------------------------------
(* The receive loop: receiveLoop, route and acceptOffer.                   *)

\* route: once the endpoint is closed an offer is dropped without an answer.
Receive ==
  /\ rpc = "receive"
  /\ \E s \in In \ offered :
       /\ offered' = offered \cup {s}
       /\ offer' = IF epClosed THEN None ELSE s
       /\ rpc' = IF epClosed THEN "receive" ELSE "admit"
  /\ UNCHANGED <<regVars, lnVars, accept, slotVars, sessVars, dialVars, accVars, epVars>>

\* The loop goes back to Receive, after a reject if the offer was refused.
OfferHandled == rpc' = "receive" /\ offer' = None

\* No open listener, or a peer that is not allowed: reject.
Admit ==
  /\ rpc = "admit"
  /\ \/ /\ ~listener \/ lnClosed \/ offer \notin Allowed
        /\ OfferHandled
     \/ /\ listener /\ ~lnClosed /\ offer \in Allowed
        /\ rpc' = "slot"
        /\ UNCHANGED offer
  /\ UNCHANGED <<regVars, lnVars, accept, slotVars, sessVars, offered, dialVars, accVars,
                 epVars>>

\* Mutant of TakeSlot: the backlog admits one session too many.
TakeSlotExtra ==
  /\ rpc = "slot"
  /\ slots <= Backlog
  /\ slots' = slots + 1
  /\ slot' = [slot EXCEPT ![offer] = "held"]
  /\ owns' = owns \cup {offer}
  /\ rpc' = "add"
  /\ UNCHANGED <<regVars, lnVars, accept, spc, asked, conn, result, offer, offered,
                 dialVars, accVars, epVars>>

\* One slot per session, or reject with RejectBusy.
TakeSlot ==
  /\ rpc = "slot"
  /\ \/ /\ slots < Backlog
        /\ slots' = slots + 1
        /\ slot' = [slot EXCEPT ![offer] = "held"]
        /\ owns' = owns \cup {offer}
        /\ rpc' = "add"
        /\ UNCHANGED offer
     \/ /\ slots = Backlog
        /\ OfferHandled
        /\ UNCHANGED <<slotVars, owns>>
  /\ UNCHANGED <<regVars, lnVars, accept, spc, asked, conn, result, offered, dialVars,
                 accVars, epVars>>

\* addSession, and the goroutine of the new session, which the loop starts
\* while it is in e.wg itself; a refused session gives its slot back.
AddInbound ==
  /\ rpc = "add"
  /\ \/ /\ Refused
        /\ Release(offer)
        /\ owns' = owns \ {offer}
        /\ OfferHandled
        /\ UNCHANGED <<sessions, spc>>
     \/ /\ ~Refused
        /\ sessions' = sessions \cup {offer}
        /\ spc' = [spc EXCEPT ![offer] = "run"]
        /\ OfferHandled
        /\ UNCHANGED <<slotVars, owns>>
  /\ UNCHANGED <<epClosed, signalErr, cancelled, lnVars, accept, asked, conn, result,
                 offered, dialVars, accVars, epVars>>

\* Receive fails: the context is cancelled, or signaling is lost.
ReceiveStops ==
  /\ rpc = "receive"
  /\ cancelled
  /\ rpc' = "stopped"
  /\ UNCHANGED <<regVars, lnVars, accept, slotVars, sessVars, offer, offered, dialVars,
                 accVars, epVars>>

SignalingLost ==
  /\ Outage
  /\ rpc = "receive"
  /\ ~cancelled
  /\ rpc' = "stopped"
  /\ signalErr' = TRUE
  /\ UNCHANGED <<sessions, epClosed, cancelled, lnVars, accept, slotVars, sessVars, offer,
                 offered, dialVars, accVars, epVars>>

ReceiveStep == Admit \/ TakeSlot \/ AddInbound \/ ReceiveStops

-----------------------------------------------------------------------------
(* Dial.  addSession and the start of the goroutine are separate steps.    *)

DialCall(d) ==
  /\ dpc[d] = "idle"
  /\ \/ /\ Refused
        /\ dpc' = [dpc EXCEPT ![d] = "done"]
        /\ dres' = [dres EXCEPT ![d] = "refused"]
        /\ UNCHANGED <<sessions, spc>>
     \/ /\ ~Refused
        /\ sessions' = sessions \cup {d}
        /\ spc' = [spc EXCEPT ![d] = "registered"]
        /\ dpc' = [dpc EXCEPT ![d] = "spawn"]
        /\ UNCHANGED dres
  /\ UNCHANGED <<epClosed, signalErr, cancelled, lnVars, accept, slotVars, owns, asked,
                 conn, result, recvVars, accVars, epVars>>

DialSpawn(d) ==
  /\ dpc[d] = "spawn"
  /\ spc' = [spc EXCEPT ![d] = "run"]
  /\ dpc' = [dpc EXCEPT ![d] = "wait"]
  /\ UNCHANGED <<regVars, lnVars, accept, slotVars, owns, asked, conn, result, recvVars,
                 dres, accVars, epVars>>

DialReturns(d, e) ==
  /\ dpc' = [dpc EXCEPT ![d] = "done"]
  /\ dres' = [dres EXCEPT ![d] = e]

DialResult(d) ==
  /\ dpc[d] = "wait"
  /\ result[d] # "none"
  /\ result' = [result EXCEPT ![d] = "none"]
  /\ DialReturns(d, result[d])
  /\ UNCHANGED <<regVars, lnVars, accept, slotVars, owns, spc, asked, conn, recvVars,
                 accVars, epVars>>

\* Mutant of DialCancel: the call does not wait for the teardown.
DialCancelReturns(d) ==
  /\ dpc[d] = "wait"
  /\ CloseWith({d})
  /\ DialReturns(d, "cancelled")
  /\ UNCHANGED <<regVars, lnVars, accept, slotVars, owns, spc, conn, result, recvVars,
                 accVars, epVars>>

\* The caller's context ends: the session is asked to close, and the call
\* waits until it has.
DialCancel(d) ==
  /\ dpc[d] = "wait"
  /\ CloseWith({d})
  /\ dpc' = [dpc EXCEPT ![d] = "cancel"]
  /\ UNCHANGED <<regVars, lnVars, accept, slotVars, owns, spc, conn, result, recvVars,
                 dres, accVars, epVars>>

\* A connection that was established just then is closed.
DialCancelled(d) ==
  /\ dpc[d] = "cancel"
  /\ spc[d] = "finished"
  /\ conn' = [conn EXCEPT ![d] = IF result[d] = "conn" THEN "closed" ELSE @]
  /\ result' = [result EXCEPT ![d] = "none"]
  /\ DialReturns(d, "cancelled")
  /\ UNCHANGED <<regVars, lnVars, accept, slotVars, owns, spc, asked, recvVars, accVars,
                 epVars>>

\* The endpoint's context ends: the call returns without waiting.
DialEndpointClosed(d) ==
  /\ dpc[d] = "wait"
  /\ cancelled
  /\ DialReturns(d, "closed")
  /\ UNCHANGED <<regVars, lnVars, accept, slotVars, sessVars, recvVars, accVars, epVars>>

DialStep(d) == DialSpawn(d) \/ DialResult(d) \/ DialCancelled(d) \/ DialEndpointClosed(d)

-----------------------------------------------------------------------------
(* The session goroutine.  Moves(s, p) is a step that only changes where   *)
(* it is.                                                                  *)

Moves(s, p) ==
  /\ spc' = [spc EXCEPT ![s] = p]
  /\ UNCHANGED <<regVars, lnVars, accept, slotVars, owns, asked, conn, result, recvVars,
                 dialVars, accVars, epVars>>

\* onChannelOpen: the connection exists.  A dialled one goes to the result
\* channel, which has room because nothing else was put there.
Establish(s) ==
  /\ spc[s] = "run"
  /\ conn' = [conn EXCEPT ![s] = "open"]
  /\ \/ /\ s \in Out
        /\ result' = [result EXCEPT ![s] = "conn"]
        /\ spc' = [spc EXCEPT ![s] = "up"]
     \/ /\ s \in In
        /\ spc' = [spc EXCEPT ![s] = "push"]
        /\ UNCHANGED result
  /\ UNCHANGED <<regVars, lnVars, accept, slotVars, owns, asked, recvVars, dialVars,
                 accVars, epVars>>

\* enqueueInbound and push: is there a listener, and is it still open?  A
\* listener is closed before it is detached, so the two looks are one.
DeliverCheck(s) ==
  /\ spc[s] = "push"
  /\ Moves(s, IF listener /\ ~lnClosed THEN "send" ELSE "down")

\* The select in push.  The queue takes the connection, which may happen after
\* the listener was closed and drained, and the slot goes with it.
DeliverPush(s) ==
  /\ spc[s] = "send"
  /\ Len(accept) < Backlog
  /\ accept' = Append(accept, s)
  /\ owns' = owns \ {s}
  /\ spc' = [spc EXCEPT ![s] = "up"]
  /\ UNCHANGED <<regVars, lnVars, slotVars, asked, conn, result, recvVars, dialVars,
                 accVars, epVars>>

DeliverRefused(s) ==
  /\ spc[s] = "send"
  /\ lnClosed \/ Len(accept) = Backlog
  /\ Moves(s, "down")

\* The loop returns: it was asked to, or its stream was closed, or the context
\* is cancelled; or, at any time, on its own account (negotiation timeout, a
\* reject, a protocol error, the peer's close, lost connectivity).
SessionStops(s) ==
  /\ spc[s] \in {"run", "up"}
  /\ s \in asked \/ conn[s] = "closed" \/ cancelled
  /\ Moves(s, "down")

SessionFails(s) ==
  /\ spc[s] \in {"run", "up"}
  /\ Moves(s, "down")

\* teardown: the stream and the PeerConnection, ...
TeardownStream(s) ==
  /\ spc[s] = "down"
  /\ conn' = [conn EXCEPT ![s] = IF @ = "open" THEN "closed" ELSE @]
  /\ spc' = [spc EXCEPT ![s] = "remove"]
  /\ UNCHANGED <<regVars, lnVars, accept, slotVars, owns, asked, result, recvVars,
                 dialVars, accVars, epVars>>

\* ... the registry, ...
TeardownRemove(s) ==
  /\ spc[s] = "remove"
  /\ sessions' = sessions \ {s}
  /\ spc' = [spc EXCEPT ![s] = "free"]
  /\ UNCHANGED <<epClosed, signalErr, cancelled, lnVars, accept, slotVars, owns, asked, conn,
                 result, recvVars, dialVars, accVars, epVars>>

\* Mutant of TeardownSlot: the slot is given back even after the hand-over.
TeardownSlotAlways(s) ==
  /\ spc[s] = "free"
  /\ slots' = IF s \in In /\ slots > 0 THEN slots - 1 ELSE slots
  /\ owns' = owns \ {s}
  /\ spc' = [spc EXCEPT ![s] = "tell"]
  /\ UNCHANGED <<regVars, lnVars, accept, slot, asked, conn, result, recvVars, dialVars,
                 accVars, epVars>>

\* ... the slot, unless the listener owns it, ...
TeardownSlot(s) ==
  /\ spc[s] = "free"
  /\ IF s \in owns THEN Release(s) ELSE UNCHANGED slotVars
  /\ owns' = owns \ {s}
  /\ spc' = [spc EXCEPT ![s] = "tell"]
  /\ UNCHANGED <<regVars, lnVars, accept, asked, conn, result, recvVars, dialVars, accVars,
                 epVars>>

\* ... and the error for a Dial that was given nothing, with close(finished).
TeardownFinish(s) ==
  /\ spc[s] = "tell"
  /\ result' = [result EXCEPT ![s] = IF s \in Out /\ conn[s] = "none" THEN "err" ELSE @]
  /\ spc' = [spc EXCEPT ![s] = "finished"]
  /\ UNCHANGED <<regVars, lnVars, accept, slotVars, owns, asked, conn, recvVars, dialVars,
                 accVars, epVars>>

TeardownStep(s) == \/ TeardownStream(s) \/ TeardownRemove(s)
                   \/ TeardownSlot(s) \/ TeardownFinish(s)

DeliverStep(s) == DeliverCheck(s) \/ DeliverPush(s) \/ DeliverRefused(s)

SessionStep(s) == DeliverStep(s) \/ SessionStops(s) \/ TeardownStep(s)

-----------------------------------------------------------------------------
(* The listener: Listen, AcceptConn, Close and drain.                      *)

Listen ==
  /\ ~epClosed /\ ~listened
  /\ listener' = TRUE
  /\ listened' = TRUE
  /\ UNCHANGED <<regVars, lnClosed, accept, slotVars, sessVars, recvVars, dialVars, accVars,
                 epVars>>

AcceptCall(a) ==
  /\ apc[a] = "idle"
  /\ listened
  /\ apc' = [apc EXCEPT ![a] = "wait"]
  /\ UNCHANGED <<regVars, lnVars, accept, slotVars, sessVars, recvVars, dialVars, hand,
                 epVars>>

\* Take a connection off the queue, to return it or to close it.
Take(a, p) ==
  /\ accept # <<>>
  /\ accept' = Tail(accept)
  /\ hand' = [hand EXCEPT ![a] = Head(accept)]
  /\ apc' = [apc EXCEPT ![a] = p]
  /\ UNCHANGED <<regVars, lnVars, slotVars, sessVars, recvVars, dialVars, epVars>>

AcceptTake(a) == apc[a] = "wait" /\ Take(a, "take")

\* Mutant of AcceptReturn: the slot of an accepted connection is not given back.
AcceptKeepsSlot(a) ==
  /\ apc[a] = "take"
  /\ apc' = [apc EXCEPT ![a] = "done"]
  /\ UNCHANGED <<regVars, lnVars, accept, slotVars, sessVars, recvVars, dialVars, hand,
                 epVars>>

\* AcceptConn returns its connection and gives the slot back.
AcceptReturn(a) ==
  /\ apc[a] = "take"
  /\ Release(hand[a])
  /\ apc' = [apc EXCEPT ![a] = "done"]
  /\ UNCHANGED <<regVars, lnVars, accept, sessVars, recvVars, dialVars, hand, epVars>>

AcceptClosed(a) ==
  /\ apc[a] = "wait"
  /\ lnClosed \/ cancelled
  /\ apc' = [apc EXCEPT ![a] = "drain"]
  /\ UNCHANGED <<regVars, lnVars, accept, slotVars, sessVars, recvVars, dialVars, hand,
                 epVars>>

DrainTake(a) == apc[a] = "drain" /\ Take(a, "drop")

DrainClose(a) ==
  /\ apc[a] = "drop"
  /\ Release(hand[a])
  /\ conn' = [conn EXCEPT ![hand[a]] = "closed"]
  /\ CloseWith({hand[a]})
  /\ hand' = [hand EXCEPT ![a] = None]
  /\ apc' = [apc EXCEPT ![a] = "drain"]
  /\ UNCHANGED <<regVars, lnVars, accept, owns, spc, result, recvVars, dialVars, epVars>>

DrainEnd(a) ==
  /\ apc[a] = "drain"
  /\ accept = <<>>
  /\ apc' = [apc EXCEPT ![a] = "done"]
  /\ UNCHANGED <<regVars, lnVars, accept, slotVars, sessVars, recvVars, dialVars, hand,
                 epVars>>

\* Listener.Close, called by the application or by Endpoint.Close.
LnCloseBegin ==
  /\ apc[LnCloser] = "idle"
  /\ lnClosed' = TRUE
  /\ apc' = [apc EXCEPT ![LnCloser] = "detach"]
  /\ UNCHANGED <<regVars, listener, listened, accept, slotVars, sessVars, recvVars, dialVars,
                 hand, epVars>>

LnClose == listened /\ LnCloseBegin

\* clearListener
LnDetach ==
  /\ apc[LnCloser] = "detach"
  /\ listener' = FALSE
  /\ apc' = [apc EXCEPT ![LnCloser] = "drain"]
  /\ UNCHANGED <<regVars, listened, lnClosed, accept, slotVars, sessVars, recvVars, dialVars,
                 hand, epVars>>

AcceptStep(a) == \/ AcceptTake(a) \/ AcceptReturn(a) \/ AcceptClosed(a)
                 \/ DrainTake(a) \/ DrainClose(a) \/ DrainEnd(a)

\* The application closes a connection it was handed (Conn.Close).
Handed(s) == \/ s \in Out /\ dres[s] = "conn"
             \/ \E a \in Accepters : apc[a] = "done" /\ hand[a] = s

ConnClose(s) ==
  /\ Handed(s)
  /\ conn[s] = "open"
  /\ conn' = [conn EXCEPT ![s] = "closed"]
  /\ CloseWith({s})
  /\ UNCHANGED <<regVars, lnVars, accept, slotVars, owns, spc, result, recvVars, dialVars,
                 accVars, epVars>>

-----------------------------------------------------------------------------
(* Endpoint.Close.                                                         *)

EpMoves(p) ==
  /\ epc' = p
  /\ UNCHANGED <<lnVars, accept, slotVars, owns, spc, conn, result, recvVars, dialVars>>

\* Under e.mu: closed, and a copy of the sessions and the listener.
EpClose ==
  /\ epc = "idle"
  /\ epClosed' = TRUE
  /\ snapshot' = sessions
  /\ EpMoves(IF listener THEN "listener" ELSE "ask")
  /\ UNCHANGED <<sessions, signalErr, cancelled, asked, accVars, graceOver>>

EpLnClose ==
  /\ epc = "listener"
  /\ LnCloseBegin

EpLnClosed ==
  /\ epc = "listener"
  /\ apc[LnCloser] = "done"
  /\ EpMoves("ask")
  /\ UNCHANGED <<regVars, asked, accVars, snapshot, graceOver>>

EpAsk ==
  /\ epc = "ask"
  /\ CloseWith(snapshot)
  /\ EpMoves("await")
  /\ UNCHANGED <<regVars, accVars, snapshot, graceOver>>

\* awaitSessions: all finished, or sessionShutdownGrace has passed.
EpAwait ==
  /\ epc = "await"
  /\ graceOver' = \E s \in snapshot : spc[s] # "finished"
  /\ EpMoves("cancel")
  /\ UNCHANGED <<regVars, asked, accVars, snapshot>>

\* Mutant of EpCancel: the context is never cancelled.
EpNoCancel ==
  /\ epc = "cancel"
  /\ EpMoves("wait")
  /\ UNCHANGED <<regVars, asked, accVars, snapshot, graceOver>>

\* e.cancel and e.signal.Close
EpCancel ==
  /\ epc = "cancel"
  /\ cancelled' = TRUE
  /\ EpMoves("wait")
  /\ UNCHANGED <<sessions, epClosed, signalErr, asked, accVars, snapshot, graceOver>>

\* Mutant of EpWait: Close does not wait for the goroutines.
EpNoWait ==
  /\ epc = "wait"
  /\ EpMoves("done")
  /\ UNCHANGED <<regVars, asked, accVars, snapshot, graceOver>>

\* e.wg.Wait
EpWait ==
  /\ epc = "wait"
  /\ rpc = "stopped"
  /\ \A s \in Sessions : spc[s] \notin Running
  /\ EpMoves("done")
  /\ UNCHANGED <<regVars, asked, accVars, snapshot, graceOver>>

EpStep == EpLnClose \/ EpLnClosed \/ EpAsk \/ EpAwait \/ EpCancel \/ EpWait

-----------------------------------------------------------------------------

Init ==
  /\ sessions = {} /\ epClosed = FALSE /\ signalErr = FALSE /\ cancelled = FALSE
  /\ listener = FALSE /\ listened = FALSE /\ lnClosed = FALSE
  /\ accept = <<>>
  /\ slots = 0
  /\ slot = [s \in Sessions |-> "none"]
  /\ owns = {}
  /\ spc = [s \in Sessions |-> "none"]
  /\ asked = {}
  /\ conn = [s \in Sessions |-> "none"]
  /\ result = [s \in Sessions |-> "none"]
  /\ rpc = "receive" /\ offer = None /\ offered = {}
  /\ dpc = [d \in Out |-> "idle"]
  /\ dres = [d \in Out |-> "none"]
  /\ apc = [a \in Drainers |-> "idle"]
  /\ hand = [a \in Drainers |-> None]
  /\ epc = "idle" /\ snapshot = {} /\ graceOver = FALSE

Calls == \/ \E d \in Out : DialCall(d) \/ DialCancel(d)
         \/ \E a \in Accepters : AcceptCall(a)
         \/ \E s \in Sessions : ConnClose(s)
         \/ Listen
         \/ LnClose
         \/ EpClose

Steps == \/ ReceiveStep
         \/ \E d \in Out : DialStep(d)
         \/ \E s \in Sessions : SessionStep(s)
         \/ \E a \in Drainers : AcceptStep(a)
         \/ LnDetach
         \/ EpStep

Environment == \/ Receive
               \/ SignalingLost
               \/ \E s \in Sessions : Establish(s) \/ SessionFails(s)

Next == Calls \/ Steps \/ Environment

(* Go schedules every runnable goroutine, and the negotiation timer ends a  *)
(* negotiation that does nothing else.  Nothing is assumed of the callers,  *)
(* of the peers or of signaling.                                            *)
Fairness ==
  /\ WF_vars(ReceiveStep)
  /\ \A d \in Out : WF_vars(DialStep(d))
  /\ \A s \in Sessions :
       /\ WF_vars(SessionStep(s))
       /\ WF_vars(spc[s] = "run" /\ (Establish(s) \/ SessionFails(s)))
  /\ \A a \in Drainers : WF_vars(AcceptStep(a))
  /\ WF_vars(LnDetach)
  /\ WF_vars(EpStep)

Spec == Init /\ [][Next]_vars
FairSpec == Spec /\ Fairness

-----------------------------------------------------------------------------
(* Properties.                                                             *)

\* The variables keep their types; the two channels keep their capacity.
TypeOK ==
  /\ sessions \subseteq Sessions
  /\ epClosed \in BOOLEAN /\ signalErr \in BOOLEAN /\ cancelled \in BOOLEAN
  /\ listener \in BOOLEAN /\ listened \in BOOLEAN /\ lnClosed \in BOOLEAN
  /\ accept \in Seq(In) /\ Len(accept) <= Backlog
  /\ slots \in 0 .. Backlog
  /\ slot \in [Sessions -> {"none", "held", "freed"}]
  /\ owns \subseteq In
  /\ spc \in [Sessions -> {"none", "registered", "finished"} \cup Running]
  /\ asked \subseteq Sessions
  /\ conn \in [Sessions -> {"none", "open", "closed"}]
  /\ result \in [Sessions -> {"none", "conn", "err"}]
  /\ rpc \in {"receive", "admit", "slot", "add", "stopped"}
  /\ offer \in In \cup {None} /\ offered \subseteq In
  /\ dpc \in [Out -> {"idle", "spawn", "wait", "cancel", "done"}]
  /\ dres \in [Out -> {"none", "conn", "err", "refused", "cancelled", "closed"}]
  /\ apc \in [Drainers -> {"idle", "wait", "take", "detach", "drain", "drop", "done"}]
  /\ hand \in [Drainers -> In \cup {None}]
  /\ epc \in {"idle", "listener", "ask", "await", "cancel", "wait", "done"}
  /\ snapshot \subseteq Sessions /\ graceOver \in BOOLEAN

Held == {s \in In : slot[s] = "held"}

Queued(s) == \E i \in 1 .. Len(accept) : accept[i] = s

\* The semaphore counts the sessions that hold a slot: none is given back
\* twice, though the session, the listener and the caller of AcceptConn all
\* have the function that does it.
SlotsMatch == slots = Cardinality(Held)

\* listener.go:82: the accept queue never overflows, so push's default branch
\* never drops an established connection.
QueueHasRoom == \A s \in In : spc[s] = "send" => Len(accept) < Backlog

\* When Endpoint.Close has returned, no session goroutine runs and no session
\* is registered; only a Dial between addSession and the start of its goroutine
\* can still be there, and only if the grace period ran out on it.
CloseReleasesAll ==
  epc = "done" =>
    \A s \in Sessions :
      spc[s] \in Running \cup {"registered"} \/ s \in sessions => s \in Out /\ graceOver

\* A Dial whose caller gave up returns after its session has released
\* everything, the connection that was established just then included.
CancelledDialReleased ==
  \A d \in Out :
    dres[d] = "cancelled" => /\ spc[d] = "finished"
                             /\ d \notin sessions
                             /\ conn[d] # "open"

\* Nothing of the endpoint runs, and no call is blocked in it.
Settled ==
  /\ epc = "done"
  /\ rpc = "stopped"
  /\ \A s \in Sessions : spc[s] \in {"none", "finished"}
  /\ \A d \in Out : dpc[d] \in {"idle", "done"}
  /\ \A a \in Drainers : apc[a] \in {"idle", "done"}

\* Endpoint.Close returns, and with it every pending Dial and AcceptConn and
\* every goroutine of the endpoint.
CloseSettles == epClosed ~> Settled

\* listener.go:56 says connections are not leaked when the listener closes: a
\* connection in the queue of a closed listener is closed, or accepted.
NoneStranded ==
  \A s \in In : lnClosed /\ Queued(s) ~> conn[s] = "closed" \/ ~Queued(s)
=============================================================================
