-------------------------------- MODULE Inbox --------------------------------
(***************************************************************************)
(* How an event reaches a session: the deduplication of inbound signals    *)
(* (dedupe.go, Endpoint.route), the bounded mailbox that signals, Pion     *)
(* callbacks and close requests are posted to (mailbox.go), and the        *)
(* session loop that takes them out (session.go, negotiate).               *)
(*                                                                         *)
(* The processes are the receive loop, the callbacks, of which each posts  *)
(* one event, and the session loop.  Posting is two steps, because the     *)
(* wake-up is sent after the mutex is released.  The signaling transport   *)
(* is at-least-once: it delivers any signal, any number of times.          *)
(***************************************************************************)
EXTENDS Integers, Sequences, FiniteSets

CONSTANTS
  Ids,          \* signal IDs
  Callbacks,    \* events posted by Pion callbacks, timers and closing calls
  MaxMailbox,   \* capacity of the mailbox
  MaxSeen,      \* capacity of the deduplication cache
  MaxDeliver    \* most deliveries by the transport

ASSUME InboxAssumption ==
  /\ Ids \cap Callbacks = {}
  /\ MaxMailbox \in Nat \ {0}
  /\ MaxSeen \in Nat /\ MaxSeen >= 2
  /\ MaxDeliver \in Nat

VARIABLES
  seen, next,   \* the cache: ID -> sequence number, and the next number
  admitted,     \* the IDs that seenBefore let through, in order (history)
  delivered,    \* deliveries so far
  router,       \* the receive loop: "receive" or "signal"
  cpc,          \* each callback: "idle", "signal" or "done"
  items,        \* queued events
  overflow,     \* the queue overflowed since the last drain
  closed,       \* the mailbox is closed
  notify,       \* the wake-up channel holds a token
  lpc,          \* the session loop: wait, drain, handle, ending, ended
  batch,        \* drained events not yet handled
  posted,       \* every event posted while the mailbox was open (history)
  handled       \* every event handled (history)

cacheVars == <<seen, next, admitted>>
boxVars   == <<items, overflow, closed, posted>>
loopVars  == <<lpc, batch, handled>>

vars == <<cacheVars, delivered, router, cpc, boxVars, notify, loopVars>>

Events == Ids \cup Callbacks

-----------------------------------------------------------------------------
(* The cache.                                                              *)

\* Mutants of Kept: the cutoff is off by one; nothing is evicted.
KeptOffByOne ==
  IF Cardinality(DOMAIN seen) >= MaxSeen
  THEN {id \in DOMAIN seen : seen[id] > next - MaxSeen \div 2}
  ELSE DOMAIN seen

KeptAll == DOMAIN seen

\* evictOldestHalfLocked, if the cache is full.
Kept ==
  IF Cardinality(DOMAIN seen) >= MaxSeen
  THEN {id \in DOMAIN seen : seen[id] >= next - MaxSeen \div 2}
  ELSE DOMAIN seen

\* seenBefore, for an ID that is not there.
Remember(id) ==
  /\ seen' = [x \in Kept \cup {id} |-> IF x = id THEN next ELSE seen[x]]
  /\ next' = next + 1
  /\ admitted' = Append(admitted, id)

-----------------------------------------------------------------------------
(* The mailbox.                                                            *)

\* Mutant of Post: an event that does not fit is dropped silently.
PostDrops(e) ==
  /\ items' = IF Len(items) < MaxMailbox /\ ~closed THEN Append(items, e) ELSE items
  /\ posted' = IF closed THEN posted ELSE Append(posted, e)
  /\ UNCHANGED <<overflow, closed>>

\* The part of post under the mutex.
Post(e) ==
  \/ closed /\ UNCHANGED boxVars
  \/ /\ ~closed
     /\ posted' = Append(posted, e)
     /\ \/ /\ Len(items) >= MaxMailbox
           /\ overflow' = TRUE
           /\ UNCHANGED items
        \/ /\ Len(items) < MaxMailbox
           /\ items' = Append(items, e)
           /\ UNCHANGED overflow
     /\ UNCHANGED closed

\* A refused post sends no wake-up when the mailbox is closed.
AfterPost == IF closed THEN "done" ELSE "signal"

-----------------------------------------------------------------------------
(* Producers.                                                              *)

\* route: a signal that was seen before goes no further.
Deliver(id) ==
  /\ router = "receive"
  /\ delivered < MaxDeliver
  /\ delivered' = delivered + 1
  /\ \/ /\ id \in DOMAIN seen
        /\ UNCHANGED <<cacheVars, boxVars, router>>
     \/ /\ id \notin DOMAIN seen
        /\ Remember(id)
        /\ Post(id)
        /\ router' = IF closed THEN "receive" ELSE "signal"
  /\ UNCHANGED <<cpc, notify, loopVars>>

RouterSignal ==
  /\ router = "signal"
  /\ notify' = TRUE
  /\ router' = "receive"
  /\ UNCHANGED <<cacheVars, delivered, cpc, boxVars, loopVars>>

CallbackPost(c) ==
  /\ cpc[c] = "idle"
  /\ Post(c)
  /\ cpc' = [cpc EXCEPT ![c] = AfterPost]
  /\ UNCHANGED <<cacheVars, delivered, router, notify, loopVars>>

CallbackSignal(c) ==
  /\ cpc[c] = "signal"
  /\ notify' = TRUE
  /\ cpc' = [cpc EXCEPT ![c] = "done"]
  /\ UNCHANGED <<cacheVars, delivered, router, boxVars, loopVars>>

-----------------------------------------------------------------------------
(* The session loop.                                                       *)

Wake ==
  /\ lpc = "wait"
  /\ notify
  /\ notify' = FALSE
  /\ lpc' = "drain"
  /\ UNCHANGED <<cacheVars, delivered, router, cpc, boxVars, batch, handled>>

\* Everything queued is taken; an overflow ends the session.
Drain ==
  /\ lpc = "drain"
  /\ items' = <<>> /\ overflow' = FALSE
  /\ batch' = IF overflow THEN <<>> ELSE items
  /\ lpc' = IF overflow THEN "ending" ELSE "handle"
  /\ UNCHANGED <<cacheVars, delivered, router, cpc, closed, posted, notify, handled>>

\* One event; the intent it may return ends the session.
Handle ==
  /\ lpc = "handle"
  /\ batch # <<>>
  /\ handled' = Append(handled, Head(batch))
  /\ \/ batch' = Tail(batch) /\ lpc' = lpc
     \/ batch' = <<>> /\ lpc' = "ending"
  /\ UNCHANGED <<cacheVars, delivered, router, cpc, boxVars, notify>>

\* Mutant of HandledAll: a wake-up that came during the batch is thrown away.
HandledAllClears ==
  /\ lpc = "handle"
  /\ batch = <<>>
  /\ lpc' = "wait"
  /\ notify' = FALSE
  /\ UNCHANGED <<cacheVars, delivered, router, cpc, boxVars, batch, handled>>

HandledAll ==
  /\ lpc = "handle"
  /\ batch = <<>>
  /\ lpc' = "wait"
  /\ UNCHANGED <<cacheVars, delivered, router, cpc, boxVars, notify, batch, handled>>

\* A timer, the end of the stream or the endpoint's context ends the session.
LoopReturns ==
  /\ lpc = "wait"
  /\ lpc' = "ending"
  /\ UNCHANGED <<cacheVars, delivered, router, cpc, boxVars, notify, batch, handled>>

\* teardown closes the mailbox and discards what is queued.
CloseBox ==
  /\ lpc = "ending"
  /\ lpc' = "ended"
  /\ closed' = TRUE
  /\ items' = <<>>
  /\ UNCHANGED <<cacheVars, delivered, router, cpc, overflow, posted, notify, batch, handled>>

LoopStep == Wake \/ Drain \/ Handle \/ HandledAll \/ CloseBox

-----------------------------------------------------------------------------

Init ==
  /\ seen = [id \in {} |-> 0] /\ next = 0 /\ admitted = <<>>
  /\ delivered = 0
  /\ router = "receive"
  /\ cpc = [c \in Callbacks |-> "idle"]
  /\ items = <<>> /\ overflow = FALSE /\ closed = FALSE /\ posted = <<>>
  /\ notify = FALSE
  /\ lpc = "wait" /\ batch = <<>> /\ handled = <<>>

Signals == RouterSignal \/ \E c \in Callbacks : CallbackSignal(c)

Next == \/ \E id \in Ids : Deliver(id)
        \/ \E c \in Callbacks : CallbackPost(c)
        \/ Signals
        \/ LoopStep
        \/ LoopReturns

(* A producer that has released the mutex goes on to send its wake-up, and  *)
(* the session loop takes the steps it can.  Nothing is assumed of the      *)
(* transport, the callbacks or the timers.                                  *)
Fairness == /\ WF_vars(RouterSignal)
            /\ \A c \in Callbacks : WF_vars(CallbackSignal(c))
            /\ WF_vars(LoopStep)

Spec == Init /\ [][Next]_vars
FairSpec == Spec /\ Fairness

-----------------------------------------------------------------------------
(* Properties.                                                             *)

\* The variables keep their types, the mailbox and the cache their capacity.
TypeOK ==
  /\ DOMAIN seen \subseteq Ids /\ seen \in [DOMAIN seen -> Nat]
  /\ Cardinality(DOMAIN seen) <= MaxSeen
  /\ next \in Nat /\ admitted \in Seq(Ids)
  /\ delivered \in 0 .. MaxDeliver
  /\ router \in {"receive", "signal"}
  /\ cpc \in [Callbacks -> {"idle", "signal", "done"}]
  /\ items \in Seq(Events) /\ Len(items) <= MaxMailbox
  /\ overflow \in BOOLEAN /\ closed \in BOOLEAN /\ notify \in BOOLEAN
  /\ lpc \in {"wait", "drain", "handle", "ending", "ended"}
  /\ batch \in Seq(Events) /\ posted \in Seq(Events) /\ handled \in Seq(Events)

\* A signal is let through twice only when more than half the cache's capacity
\* of other signals was let through in between: a repeat closer than that never
\* drives the session a second time (seenBefore, evictOldestHalfLocked).
RepeatsFarApart ==
  \A i, j \in 1 .. Len(admitted) :
    i < j /\ admitted[i] = admitted[j] => j - i > MaxSeen \div 2 + 1

\* No lost wake-up: whenever something is queued or the queue has overflowed,
\* the session loop is awake, or a token waits for it, or a producer is about
\* to send one (post signals after the mutex is released).
WakeupPending ==
  items # <<>> \/ overflow =>
    \/ notify
    \/ router = "signal" \/ \E c \in Callbacks : cpc[c] = "signal"
    \/ lpc \in {"drain", "ending", "ended"}

\* The session handles what was posted, in order and without a gap: it never
\* handles an event that was posted after one it lost to overflow.
HandledNoGap ==
  /\ Len(handled) <= Len(posted)
  /\ \A i \in 1 .. Len(handled) : handled[i] = posted[i]

\* What is posted is handled, or the session ends.
PostedIsHandled ==
  items # <<>> \/ overflow ~> lpc = "ended" \/ (items = <<>> /\ ~overflow /\ batch = <<>>)
=============================================================================
