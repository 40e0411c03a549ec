--------------------------- MODULE EndpointProofs ---------------------------
(***************************************************************************)
(* What TLAPS proves of Endpoint: the types, the backlog accounting, the   *)
(* bound on the accept queue, and what Close and a cancelled Dial leave    *)
(* behind, for any number of sessions and calls and any backlog.           *)
(***************************************************************************)
EXTENDS Endpoint, FiniteSetTheorems, TLAPS

QueuedSet == {s \in In : Queued(s)}

Holding == {"take", "drop"}

\* The receive loop: an offer it has not taken has left no trace, and the one
\* it handles has no goroutine yet.
OfferInv ==
  /\ \A s \in In \ offered : slot[s] = "none" /\ spc[s] = "none"
  /\ rpc \in {"admit", "slot", "add"} => offer \in offered /\ spc[offer] = "none"
  /\ rpc \in {"admit", "slot"} => slot[offer] = "none"
  /\ rpc = "add" => offer \in owns
  /\ \A s \in In : spc[s] = "none" /\ slot[s] = "held" => rpc = "add" /\ offer = s
  /\ \A d \in Out : spc[d] \notin {"push", "send"}

\* A held slot is in one place: with its session, in the queue or in a hand.
PlaceInv ==
  /\ \A s \in owns : slot[s] = "held" /\ ~Queued(s)
  /\ \A s \in In : spc[s] \in {"run", "push", "send"} => s \in owns
  /\ \A s \in In : Queued(s) => slot[s] = "held"
  /\ \A a \in Drainers : apc[a] \in Holding =>
       /\ hand[a] \in In
       /\ slot[hand[a]] = "held"
       /\ hand[a] \notin owns
       /\ ~Queued(hand[a])
  /\ \A a, b \in Drainers :
       apc[a] \in Holding /\ apc[b] \in Holding /\ hand[a] = hand[b] => a = b

\* No connection is queued twice, so the queue is as long as the set of
\* sessions in it is large.
QueueInv ==
  /\ \A i, j \in 1 .. Len(accept) : accept[i] = accept[j] => i = j
  /\ Len(accept) = Cardinality(QueuedSet)

CoreInv == SlotsMatch /\ OfferInv /\ PlaceInv /\ QueueInv
SlotInv == TypeOK /\ CoreInv

coreVars == <<accept, slotVars, owns, spc, recvVars, accVars>>

-----------------------------------------------------------------------------
(* Sets of sessions and their sizes.                                       *)

LEMMA Finite == IsFiniteSet(Held) /\ IsFiniteSet(QueuedSet)
  BY FS_Subset, SessionsAssumption DEF Held, QueuedSet

\* Whoever gives back the slot of s takes s out of Held.
LEMMA ReleaseHeld ==
  ASSUME SlotInv, NEW s \in In, slot[s] = "held", Release(s)
  PROVE  /\ slot' = [slot EXCEPT ![s] = "freed"]
         /\ slots' \in 0 .. Backlog
         /\ SlotsMatch'
<1>1. slot' = [slot EXCEPT ![s] = "freed"] /\ slots' = IF slots > 0 THEN slots - 1 ELSE slots
  BY DEF Release
<1>2. s \in Held /\ slots = Cardinality(Held)
  BY DEF SlotInv, CoreInv, SlotsMatch, Held
<1>3. Held' = Held \ {s}
  BY <1>1 DEF Held, SlotInv, TypeOK, Sessions
<1>4. Cardinality(Held') = Cardinality(Held) - 1
  BY <1>2, <1>3, Finite, FS_RemoveElement
<1>5. Cardinality(Held) \in Nat /\ Cardinality(Held) # 0
  BY <1>2, Finite, FS_EmptySet, FS_CardinalityType
<1>6. slots' = slots - 1 /\ slots \in 0 .. Backlog /\ slots > 0
  BY <1>1, <1>2, <1>5 DEF SlotInv, TypeOK
<1>7. QED
  BY <1>1, <1>2, <1>4, <1>6, BacklogAssumption DEF SlotsMatch

\* A session that is about to push finds room: it holds a slot, and so does
\* every session in the queue.
LEMMA Room ==
  ASSUME SlotInv, NEW s \in In, spc[s] = "send"
  PROVE  Len(accept) < Backlog
<1>1. s \in owns /\ slot[s] = "held" /\ ~Queued(s)
  BY DEF SlotInv, CoreInv, PlaceInv
<1>2. QueuedSet \subseteq Held \ {s}
  BY <1>1 DEF QueuedSet, Held, SlotInv, CoreInv, PlaceInv
<1>3. s \in Held
  BY <1>1 DEF Held
<1>4. IsFiniteSet(Held \ {s}) /\ Cardinality(Held \ {s}) = Cardinality(Held) - 1
  BY <1>3, Finite, FS_RemoveElement
<1>5. Cardinality(QueuedSet) <= Cardinality(Held) - 1
  BY <1>2, <1>4, FS_Subset
<1>6. slots = Cardinality(Held) /\ slots <= Backlog /\ Len(accept) = Cardinality(QueuedSet)
  BY DEF SlotInv, CoreInv, SlotsMatch, QueueInv, TypeOK
<1>7. Cardinality(Held) \in Nat /\ Cardinality(QueuedSet) \in Nat
  BY Finite, FS_CardinalityType
<1>8. QED
  BY <1>5, <1>6, <1>7, BacklogAssumption

-----------------------------------------------------------------------------
(* Steps that share a shape.                                               *)

LEMMA Frame ==
  ASSUME SlotInv, UNCHANGED coreVars
  PROVE  CoreInv'
<1>1. SlotsMatch' /\ QueueInv'
  BY DEF SlotInv, CoreInv, SlotsMatch, QueueInv, Held, QueuedSet, Queued, coreVars, slotVars
<1>2. OfferInv'
  BY DEF SlotInv, CoreInv, OfferInv, coreVars, slotVars, recvVars
<1>3. PlaceInv'
  BY DEF SlotInv, CoreInv, PlaceInv, Queued, coreVars, slotVars, accVars
<1>4. QED
  BY <1>1, <1>2, <1>3 DEF CoreInv

\* A session goroutine moves on, without touching slots or the queue.
LEMMA MoveStep ==
  ASSUME SlotInv, NEW s \in Sessions, NEW p,
         spc' = [spc EXCEPT ![s] = p],
         UNCHANGED <<accept, slotVars, owns, recvVars, accVars>>,
         p # "none",
         s \in In => spc[s] # "none",
         p \in {"push", "send"} => s \in In,
         p \in {"run", "push", "send"} /\ s \in In => spc[s] \in {"run", "push", "send"}
  PROVE  CoreInv'
<1>1. SlotsMatch' /\ QueueInv' /\ QueuedSet' = QueuedSet
  BY DEF SlotInv, CoreInv, SlotsMatch, QueueInv, Held, QueuedSet, Queued, slotVars
<1>2. OfferInv'
  BY SessionsAssumption DEF SlotInv, CoreInv, OfferInv, TypeOK, Sessions, slotVars, recvVars
<1>3. PlaceInv'
  BY DEF SlotInv, CoreInv, PlaceInv, Queued, TypeOK, Sessions, slotVars, accVars
<1>4. QED
  BY <1>1, <1>2, <1>3 DEF CoreInv

\* A call to the listener moves on, and takes no connection in hand.
LEMMA CallStep ==
  ASSUME SlotInv, NEW a \in Drainers, NEW p,
         apc' = [apc EXCEPT ![a] = p],
         p \notin Holding,
         UNCHANGED <<accept, slotVars, owns, spc, recvVars, hand>>
  PROVE  CoreInv'
<1>1. SlotsMatch' /\ QueueInv' /\ OfferInv'
  BY DEF SlotInv, CoreInv, SlotsMatch, QueueInv, OfferInv, Held, QueuedSet, Queued, slotVars,
         recvVars
<1>2. PlaceInv'
  BY DEF SlotInv, CoreInv, PlaceInv, Queued, TypeOK, slotVars
<1>3. QED
  BY <1>1, <1>2 DEF CoreInv

\* A call to the listener takes the head of the queue in hand.
LEMMA TakeStep ==
  ASSUME SlotInv, NEW a \in Drainers, NEW p \in Holding, apc[a] \notin Holding, Take(a, p)
  PROVE  CoreInv'
<1> DEFINE h == Head(accept)
<1>1. /\ accept \in Seq(In) /\ accept # <<>> /\ accept' = Tail(accept) /\ h = accept[1] /\ h \in In
      /\ Len(accept') = Len(accept) - 1 /\ Len(accept) >= 1
      /\ \A i \in 1 .. Len(accept') : accept'[i] = accept[i + 1]
  BY DEF Take, SlotInv, TypeOK
<1>2. Queued(h)
  BY <1>1 DEF Queued
<1>3. \A s \in In : Queued(s)' <=> Queued(s) /\ s # h
  <2> TAKE s \in In
  <2>1. ASSUME Queued(s)' PROVE Queued(s) /\ s # h
    <3>1. PICK i \in 1 .. Len(accept') : accept'[i] = s
      BY <2>1 DEF Queued
    <3>2. i + 1 \in 1 .. Len(accept) /\ accept[i + 1] = s /\ i + 1 # 1
      BY <1>1, <3>1
    <3>3. 1 \in 1 .. Len(accept)
      BY <1>1
    <3>4. QED
      BY <1>1, <3>2, <3>3 DEF Queued, SlotInv, CoreInv, QueueInv
  <2>2. ASSUME Queued(s), s # h PROVE Queued(s)'
    <3>1. PICK i \in 1 .. Len(accept) : accept[i] = s
      BY <2>2 DEF Queued
    <3>2. i # 1
      BY <1>1, <2>2, <3>1
    <3>3. i - 1 \in 1 .. Len(accept') /\ accept'[i - 1] = s
      BY <1>1, <3>1, <3>2
    <3>4. QED
      BY <3>3 DEF Queued
  <2>3. QED
    BY <2>1, <2>2
<1>4. QueuedSet' = QueuedSet \ {h} /\ h \in QueuedSet
  BY <1>1, <1>2, <1>3 DEF QueuedSet
<1>5. Cardinality(QueuedSet') = Cardinality(QueuedSet) - 1
  BY <1>4, Finite, FS_RemoveElement
<1>6. QueueInv'
  <2>1. Len(accept') = Cardinality(QueuedSet')
    BY <1>1, <1>5 DEF SlotInv, CoreInv, QueueInv
  <2>2. \A i, j \in 1 .. Len(accept') : accept'[i] = accept'[j] => i = j
    <3> TAKE i, j \in 1 .. Len(accept')
    <3>1. i + 1 \in 1 .. Len(accept) /\ j + 1 \in 1 .. Len(accept)
      BY <1>1
    <3>2. accept'[i] = accept[i + 1] /\ accept'[j] = accept[j + 1]
      BY <1>1
    <3>3. accept[i + 1] = accept[j + 1] => i + 1 = j + 1
      BY <3>1 DEF SlotInv, CoreInv, QueueInv
    <3>4. QED
      BY <3>2, <3>3
  <2>3. QED
    BY <2>1, <2>2 DEF QueueInv
<1>7. SlotsMatch' /\ OfferInv'
  BY DEF Take, SlotInv, CoreInv, SlotsMatch, OfferInv, Held, slotVars, sessVars, recvVars
<1>8. slot[h] = "held" /\ h \notin owns
  BY <1>1, <1>2 DEF SlotInv, CoreInv, PlaceInv
<1>9. /\ apc' = [apc EXCEPT ![a] = p] /\ hand' = [hand EXCEPT ![a] = h]
      /\ UNCHANGED <<slot, owns, spc>>
  BY DEF Take, slotVars, sessVars
<1>10. \A b \in Drainers : b # a /\ apc'[b] \in Holding =>
         apc[b] \in Holding /\ hand'[b] = hand[b] /\ hand'[b] # h
  BY <1>1, <1>2, <1>9 DEF SlotInv, CoreInv, PlaceInv, TypeOK
<1>11. apc'[a] \in Holding /\ hand'[a] = h
  BY <1>9 DEF SlotInv, TypeOK
<1>12. PlaceInv'
  <2>1. \A s \in owns' : slot'[s] = "held" /\ ~Queued(s)'
    BY <1>3, <1>9 DEF SlotInv, CoreInv, PlaceInv, TypeOK
  <2>2. \A s \in In : Queued(s)' => slot'[s] = "held"
    BY <1>3, <1>9 DEF SlotInv, CoreInv, PlaceInv
  <2>3. \A b \in Drainers : apc'[b] \in Holding =>
          /\ hand'[b] \in In
          /\ slot'[hand'[b]] = "held"
          /\ hand'[b] \notin owns'
          /\ ~Queued(hand[b])'
    <3> SUFFICES ASSUME NEW b \in Drainers, apc'[b] \in Holding
                 PROVE  /\ hand'[b] \in In
                        /\ slot'[hand'[b]] = "held"
                        /\ hand'[b] \notin owns'
                        /\ ~Queued(hand[b])'
      OBVIOUS
    <3>1. CASE b = a
      <4>1. hand'[b] = h
        BY <1>11, <3>1
      <4>2. ~Queued(hand[b])'
        BY <4>1, <1>1, <1>3 DEF Queued
      <4>3. QED
        BY <4>1, <4>2, <1>1, <1>8, <1>9
    <3>2. CASE b # a
      <4>1. apc[b] \in Holding /\ hand'[b] = hand[b]
        BY <1>10, <3>2
      <4>2. hand[b] \in In /\ slot[hand[b]] = "held" /\ hand[b] \notin owns /\ ~Queued(hand[b])
        BY <4>1 DEF SlotInv, CoreInv, PlaceInv
      <4>3. ~Queued(hand[b])'
        BY <4>1, <4>2, <1>3 DEF Queued
      <4>4. QED
        BY <4>1, <4>2, <4>3, <1>9
    <3>3. QED
      BY <3>1, <3>2
  <2>4. \A b, c \in Drainers :
          apc'[b] \in Holding /\ apc'[c] \in Holding /\ hand'[b] = hand'[c] => b = c
    BY <1>10, <1>11 DEF SlotInv, CoreInv, PlaceInv
  <2>5. \A s \in In : spc'[s] \in {"run", "push", "send"} => s \in owns'
    BY <1>9 DEF SlotInv, CoreInv, PlaceInv
  <2>6. QED
    BY <2>1, <2>2, <2>3, <2>4, <2>5 DEF PlaceInv
<1>13. QED
  BY <1>6, <1>7, <1>12 DEF CoreInv

\* Whoever holds a connection in hand gives its slot back and lets go.
LEMMA LetGoStep ==
  ASSUME SlotInv, NEW a \in Drainers, NEW p, apc[a] \in Holding, p \notin Holding,
         Release(hand[a]),
         apc' = [apc EXCEPT ![a] = p],
         hand' = hand \/ hand' = [hand EXCEPT ![a] = None],
         UNCHANGED <<accept, owns, spc, recvVars>>
  PROVE  CoreInv' /\ slots' \in 0 .. Backlog /\ slot' \in [Sessions -> {"none", "held", "freed"}]
<1> DEFINE h == hand[a]
<1>1. h \in In /\ slot[h] = "held" /\ h \notin owns /\ ~Queued(h)
  BY DEF SlotInv, CoreInv, PlaceInv
<1>2. slot' = [slot EXCEPT ![h] = "freed"] /\ slots' \in 0 .. Backlog /\ SlotsMatch'
  BY <1>1, ReleaseHeld
<1>3. slot' \in [Sessions -> {"none", "held", "freed"}]
  BY <1>2 DEF SlotInv, TypeOK
<1>4. QueueInv'
  BY DEF SlotInv, CoreInv, QueueInv, QueuedSet, Queued
<1>5. OfferInv'
  BY <1>1, <1>2 DEF SlotInv, CoreInv, OfferInv, TypeOK, Sessions, recvVars
<1>6. \A b \in Drainers : apc'[b] \in Holding =>
        b # a /\ apc[b] \in Holding /\ hand'[b] = hand[b] /\ hand[b] # h
  BY DEF SlotInv, CoreInv, PlaceInv, TypeOK
<1>7. PlaceInv'
  BY <1>1, <1>2, <1>6 DEF SlotInv, CoreInv, PlaceInv, Queued, TypeOK, Sessions
<1>8. QED
  BY <1>2, <1>3, <1>4, <1>5, <1>7 DEF CoreInv
-----------------------------------------------------------------------------
(* One step.                                                               *)

LEMMA Init1 == Init => SlotInv
<1> SUFFICES ASSUME Init PROVE SlotInv
  OBVIOUS
<1>1. TypeOK
  <2>1. /\ slot \in [Sessions -> {"none", "held", "freed"}]
        /\ spc \in [Sessions -> {"none", "registered", "finished"} \cup Running]
        /\ conn \in [Sessions -> {"none", "open", "closed"}]
        /\ result \in [Sessions -> {"none", "conn", "err"}]
    BY DEF Init
  <2>2. /\ dpc \in [Out -> {"idle", "spawn", "wait", "cancel", "done"}]
        /\ dres \in [Out -> {"none", "conn", "err", "refused", "cancelled", "closed"}]
        /\ apc \in [Drainers -> {"idle", "wait", "take", "detach", "drain", "drop", "done"}]
        /\ hand \in [Drainers -> In \cup {None}]
    BY DEF Init
  <2>3. accept \in Seq(In) /\ Len(accept) <= Backlog /\ slots \in 0 .. Backlog
    BY BacklogAssumption DEF Init
  <2>4. /\ epClosed \in BOOLEAN /\ signalErr \in BOOLEAN /\ cancelled \in BOOLEAN
        /\ listener \in BOOLEAN /\ listened \in BOOLEAN /\ lnClosed \in BOOLEAN
        /\ graceOver \in BOOLEAN
    BY DEF Init
  <2>5. QED
    BY <2>1, <2>2, <2>3, <2>4 DEF Init, TypeOK
<1>2. Held = {} /\ QueuedSet = {}
  BY DEF Init, Held, QueuedSet, Queued, Sessions
<1>3. SlotsMatch /\ QueueInv
  BY <1>2, FS_EmptySet DEF Init, SlotsMatch, QueueInv
<1>4. OfferInv /\ PlaceInv
  BY DEF Init, OfferInv, PlaceInv, Queued, Sessions, Drainers, Holding
<1>5. QED
  BY <1>1, <1>3, <1>4 DEF SlotInv, CoreInv

LEMMA ReceiveSteps ==
  ASSUME SlotInv, Receive \/ ReceiveStep \/ SignalingLost
  PROVE  SlotInv'
<1>1. CASE Receive \/ Admit \/ ReceiveStops \/ SignalingLost
  <2>1. TypeOK'
    <3> USE DEF SlotInv, TypeOK, regVars, lnVars, slotVars, sessVars, recvVars, dialVars,
            accVars, epVars
    <3>1. CASE Receive
      BY <3>1 DEF Receive
    <3>2. CASE Admit
      BY <3>2 DEF Admit, OfferHandled
    <3>3. CASE ReceiveStops
      BY <3>3 DEF ReceiveStops
    <3>4. CASE SignalingLost
      BY <3>4 DEF SignalingLost
    <3>5. QED
      BY <1>1, <3>1, <3>2, <3>3, <3>4
  <2>2. UNCHANGED <<accept, slotVars, owns, spc, accVars>>
    BY <1>1 DEF Receive, Admit, ReceiveStops, SignalingLost, sessVars
  <2>3. SlotsMatch' /\ QueueInv'
    BY <2>2 DEF SlotInv, CoreInv, SlotsMatch, QueueInv, Held, QueuedSet, Queued, slotVars
  <2>4. PlaceInv'
    BY <2>2 DEF SlotInv, CoreInv, PlaceInv, Queued, slotVars, accVars
  <2>5. OfferInv'
    BY <1>1, <2>2, SessionsAssumption
    DEF Receive, Admit, ReceiveStops, SignalingLost, OfferHandled, SlotInv, CoreInv, OfferInv,
        TypeOK, Sessions, slotVars, recvVars
  <2>6. QED
    BY <2>1, <2>3, <2>4, <2>5 DEF SlotInv, CoreInv
<1>2. CASE TakeSlot
  <2>1. CASE slots = Backlog /\ OfferHandled /\ UNCHANGED <<slotVars, owns>>
    <3>1. TypeOK'
      BY <1>2, <2>1
      DEF TakeSlot, OfferHandled, SlotInv, TypeOK, regVars, lnVars, slotVars, dialVars,
          accVars, epVars
    <3>2. UNCHANGED <<accept, slotVars, owns, spc, accVars, offered>>
      BY <1>2, <2>1 DEF TakeSlot
    <3>3. SlotsMatch' /\ QueueInv'
      BY <3>2 DEF SlotInv, CoreInv, SlotsMatch, QueueInv, Held, QueuedSet, Queued, slotVars
    <3>4. PlaceInv'
      BY <3>2 DEF SlotInv, CoreInv, PlaceInv, Queued, slotVars, accVars
    <3>5. OfferInv'
      BY <1>2, <2>1, <3>2 DEF TakeSlot, OfferHandled, SlotInv, CoreInv, OfferInv, slotVars
    <3>6. QED
      BY <3>1, <3>3, <3>4, <3>5 DEF SlotInv, CoreInv
  <2>2. CASE slots < Backlog /\ slots' = slots + 1
    <3>1. /\ rpc = "slot" /\ rpc' = "add" /\ offer' = offer /\ offered' = offered
          /\ slot' = [slot EXCEPT ![offer] = "held"] /\ owns' = owns \cup {offer}
          /\ UNCHANGED <<accept, spc, accVars>>
      BY <1>2, <2>2 DEF TakeSlot, OfferHandled, slotVars, SlotInv, TypeOK
    <3>2. offer \in In /\ offer \in Sessions /\ slot[offer] = "none" /\ spc[offer] = "none"
      BY <3>1 DEF SlotInv, CoreInv, OfferInv, TypeOK, Sessions
    <3>3. TypeOK'
      BY <1>2, <2>2, <3>1, <3>2, BacklogAssumption
      DEF TakeSlot, SlotInv, TypeOK, Sessions, regVars, lnVars, dialVars, accVars, epVars
    <3>4. Held' = Held \cup {offer} /\ offer \notin Held
      BY <3>1, <3>2 DEF Held, SlotInv, TypeOK, Sessions
    <3>5. SlotsMatch'
      BY <2>2, <3>4, Finite, FS_AddElement DEF SlotInv, CoreInv, SlotsMatch
    <3>6. QueueInv'
      BY <3>1 DEF SlotInv, CoreInv, QueueInv, QueuedSet, Queued
    <3>7. OfferInv'
      BY <3>1, <3>2 DEF SlotInv, CoreInv, OfferInv, TypeOK, Sessions
    <3>8. ~Queued(offer) /\ \A a \in Drainers : apc[a] \in Holding => hand[a] # offer
      BY <3>2 DEF SlotInv, CoreInv, PlaceInv
    <3>9. PlaceInv'
      BY <3>1, <3>2, <3>8 DEF SlotInv, CoreInv, PlaceInv, Queued, TypeOK, Sessions, accVars
    <3>10. QED
      BY <3>3, <3>5, <3>6, <3>7, <3>9 DEF SlotInv, CoreInv
  <2>3. QED
    BY <1>2, <2>1, <2>2 DEF TakeSlot
<1>3. CASE AddInbound
  <2>1. /\ rpc = "add" /\ rpc' = "receive" /\ offer' = None /\ offered' = offered
        /\ UNCHANGED <<accept, accVars>>
    BY <1>3 DEF AddInbound, OfferHandled
  <2>2. offer \in In /\ offer \in owns /\ slot[offer] = "held" /\ spc[offer] = "none"
    BY <2>1 DEF SlotInv, CoreInv, OfferInv, PlaceInv, TypeOK
  <2>3. CASE Release(offer) /\ owns' = owns \ {offer} /\ UNCHANGED <<sessions, spc>>
    <3>1. /\ slot' = [slot EXCEPT ![offer] = "freed"]
          /\ slots' \in 0 .. Backlog
          /\ SlotsMatch'
      BY <2>2, <2>3, ReleaseHeld
    <3>2. TypeOK'
      BY <1>3, <2>1, <2>2, <2>3, <3>1
      DEF AddInbound, SlotInv, TypeOK, Sessions, lnVars, dialVars, accVars, epVars
    <3>3. QueueInv'
      BY <2>1 DEF SlotInv, CoreInv, QueueInv, QueuedSet, Queued
    <3>4. OfferInv'
      BY <2>1, <2>2, <2>3, <3>1 DEF SlotInv, CoreInv, OfferInv, TypeOK, Sessions
    <3>5. ~Queued(offer) /\ \A a \in Drainers : apc[a] \in Holding => hand[a] # offer
      BY <2>2 DEF SlotInv, CoreInv, PlaceInv
    <3>6. PlaceInv'
      BY <2>1, <2>2, <2>3, <3>1, <3>5
      DEF SlotInv, CoreInv, OfferInv, PlaceInv, Queued, TypeOK, Sessions, accVars
    <3>7. QED
      BY <3>1, <3>2, <3>3, <3>4, <3>6 DEF SlotInv, CoreInv
  <2>4. CASE /\ sessions' = sessions \cup {offer}
             /\ spc' = [spc EXCEPT ![offer] = "run"]
             /\ UNCHANGED <<slotVars, owns>>
    <3>1. TypeOK'
      BY <1>3, <2>1, <2>2, <2>4
      DEF AddInbound, SlotInv, TypeOK, Sessions, Running, lnVars, slotVars, dialVars, accVars,
          epVars
    <3>2. SlotsMatch' /\ QueueInv'
      BY <2>1, <2>4 DEF SlotInv, CoreInv, SlotsMatch, QueueInv, Held, QueuedSet, Queued, slotVars
    <3>3. OfferInv'
      BY <2>1, <2>2, <2>4, SessionsAssumption
      DEF SlotInv, CoreInv, OfferInv, TypeOK, Sessions, slotVars
    <3>4. PlaceInv'
      BY <2>1, <2>2, <2>4 DEF SlotInv, CoreInv, PlaceInv, Queued, TypeOK, Sessions, slotVars, accVars
    <3>5. QED
      BY <3>1, <3>2, <3>3, <3>4 DEF SlotInv, CoreInv
  <2>5. QED
    BY <1>3, <2>3, <2>4 DEF AddInbound
<1>4. QED
  BY <1>1, <1>2, <1>3 DEF ReceiveStep

LEMMA DialSteps ==
  ASSUME SlotInv, NEW d \in Out, DialCall(d) \/ DialCancel(d) \/ DialStep(d)
  PROVE  SlotInv'
<1>1. TypeOK'
  <2> USE DEF SlotInv, TypeOK, regVars, lnVars, slotVars, sessVars, recvVars, dialVars,
          accVars, epVars
  <2>0. d \in Sessions
    BY DEF Sessions
  <2>1. CASE DialCall(d)
    <3>1. \/ /\ dpc' = [dpc EXCEPT ![d] = "done"]
             /\ dres' = [dres EXCEPT ![d] = "refused"]
             /\ UNCHANGED <<sessions, spc>>
          \/ /\ sessions' = sessions \cup {d}
             /\ spc' = [spc EXCEPT ![d] = "registered"]
             /\ dpc' = [dpc EXCEPT ![d] = "spawn"]
             /\ UNCHANGED dres
      BY <2>1 DEF DialCall
    <3>2. /\ sessions' \subseteq Sessions
          /\ spc' \in [Sessions -> {"none", "registered", "finished"} \cup Running]
          /\ dpc' \in [Out -> {"idle", "spawn", "wait", "cancel", "done"}]
          /\ dres' \in [Out -> {"none", "conn", "err", "refused", "cancelled", "closed"}]
      BY <2>0, <3>1
    <3>3. QED
      BY <2>1, <3>2 DEF DialCall
  <2>2. CASE DialSpawn(d)
    BY <2>0, <2>2 DEF DialSpawn, Running
  <2>3. CASE DialResult(d)
    BY <2>0, <2>3 DEF DialResult, DialReturns
  <2>4. CASE DialEndpointClosed(d)
    BY <2>4 DEF DialEndpointClosed, DialReturns
  <2>5. CASE DialCancel(d)
    BY <2>0, <2>5 DEF DialCancel, CloseWith
  <2>6. CASE DialCancelled(d)
    <3>1. conn' \in [Sessions -> {"none", "open", "closed"}]
      BY <2>6 DEF DialCancelled
    <3>2. result' \in [Sessions -> {"none", "conn", "err"}]
      BY <2>6 DEF DialCancelled
    <3>3. QED
      BY <2>6, <3>1, <3>2 DEF DialCancelled, DialReturns
  <2>7. QED
    BY <2>1, <2>2, <2>3, <2>4, <2>5, <2>6 DEF DialStep
<1>2. CoreInv'
  <2>1. CASE spc' = spc
    <3>1. UNCHANGED coreVars
      BY <2>1 DEF DialCall, DialCancel, DialStep, DialSpawn, DialResult, DialCancelled,
         DialEndpointClosed, coreVars, slotVars, sessVars, recvVars, accVars
    <3>2. QED
      BY <3>1, Frame
  <2>2. CASE \/ spc' = [spc EXCEPT ![d] = "registered"] /\ DialCall(d)
             \/ spc' = [spc EXCEPT ![d] = "run"] /\ DialSpawn(d)
    <3>1. UNCHANGED <<accept, slotVars, owns, recvVars, accVars>>
      BY <2>2 DEF DialCall, DialSpawn
    <3>2. d \in Sessions /\ d \notin In
      BY SessionsAssumption DEF Sessions
    <3>3. QED
      BY <2>2, <3>1, <3>2, MoveStep
  <2>3. QED
    BY <2>1, <2>2 DEF DialCall, DialCancel, DialStep, DialSpawn, DialResult, DialCancelled,
       DialEndpointClosed, sessVars
<1>3. QED
  BY <1>1, <1>2 DEF SlotInv
LEMMA SessionSteps ==
  ASSUME SlotInv, NEW s \in Sessions, Establish(s) \/ SessionFails(s) \/ SessionStep(s)
  PROVE  SlotInv'
<1> USE DEF regVars, lnVars, slotVars, sessVars, recvVars, dialVars, accVars, epVars
<1>1. CASE DeliverPush(s)
  <2>1. spc[s] = "send" /\ s \in In /\ s \in owns /\ slot[s] = "held" /\ ~Queued(s)
    BY <1>1 DEF DeliverPush, SlotInv, CoreInv, OfferInv, PlaceInv, Sessions
  <2>2. /\ accept' = Append(accept, s) /\ owns' = owns \ {s}
        /\ spc' = [spc EXCEPT ![s] = "up"]
        /\ UNCHANGED <<slotVars, recvVars, accVars>>
    BY <1>1 DEF DeliverPush
  <2>3. accept \in Seq(In) /\ Len(accept) \in Nat
    BY DEF SlotInv, TypeOK
  <2>4. /\ Len(accept') = Len(accept) + 1 /\ accept'[Len(accept) + 1] = s
        /\ \A i \in 1 .. Len(accept) : accept'[i] = accept[i]
        /\ accept' \in Seq(In)
    BY <2>1, <2>2, <2>3
  <2>5. Len(accept') <= Backlog
    BY <1>1, <2>3, <2>4, BacklogAssumption DEF DeliverPush
  <2>6. TypeOK'
    BY <1>1, <2>2, <2>4, <2>5 DEF DeliverPush, SlotInv, TypeOK, Running
  <2>7. \A q \in In : Queued(q)' <=> Queued(q) \/ q = s
    <3> TAKE q \in In
    <3>1. ASSUME Queued(q)' PROVE Queued(q) \/ q = s
      <4>1. PICK i \in 1 .. Len(accept') : accept'[i] = q
        BY <3>1 DEF Queued
      <4>2. i \in 1 .. Len(accept) \/ i = Len(accept) + 1
        BY <2>3, <2>4, <4>1
      <4>3. QED
        BY <2>4, <4>1, <4>2 DEF Queued
    <3>2. ASSUME Queued(q) PROVE Queued(q)'
      <4>1. PICK i \in 1 .. Len(accept) : accept[i] = q
        BY <3>2 DEF Queued
      <4>2. i \in 1 .. Len(accept') /\ accept'[i] = q
        BY <2>3, <2>4, <4>1
      <4>3. QED
        BY <4>2 DEF Queued
    <3>3. Queued(s)'
      <4>1. Len(accept) + 1 \in 1 .. Len(accept')
        BY <2>3, <2>4
      <4>2. QED
        BY <2>4, <4>1 DEF Queued
    <3>4. QED
      BY <3>1, <3>2, <3>3
  <2>8. QueuedSet' = QueuedSet \cup {s} /\ s \notin QueuedSet
    BY <2>1, <2>7 DEF QueuedSet
  <2>9. Cardinality(QueuedSet') = Cardinality(QueuedSet) + 1
    BY <2>8, Finite, FS_AddElement
  <2>10. \A i, j \in 1 .. Len(accept') : accept'[i] = accept'[j] => i = j
    <3> SUFFICES ASSUME NEW i \in 1 .. Len(accept'), NEW j \in 1 .. Len(accept'),
                        accept'[i] = accept'[j]
                 PROVE  i = j
      OBVIOUS
    <3>1. \A n \in 1 .. Len(accept') : n \in 1 .. Len(accept) \/ n = Len(accept) + 1
      BY <2>3, <2>4
    <3>2. \A n \in 1 .. Len(accept) : accept[n] # s
      BY <2>1 DEF Queued
    <3>3. QED
      BY <2>4, <3>1, <3>2 DEF SlotInv, CoreInv, QueueInv
  <2>11. QueueInv'
    BY <2>4, <2>9, <2>10 DEF SlotInv, CoreInv, QueueInv
  <2>12. SlotsMatch'
    BY <2>2 DEF SlotInv, CoreInv, SlotsMatch, Held
  <2>13. OfferInv'
    BY <2>1, <2>2, SessionsAssumption DEF SlotInv, CoreInv, OfferInv, TypeOK, Sessions
  <2>14. \A a \in Drainers : apc[a] \in Holding => hand[a] # s
    BY <2>1 DEF SlotInv, CoreInv, PlaceInv
  <2>15. \A a \in Drainers : apc[a] \in Holding => ~Queued(hand[a])'
    <3> SUFFICES ASSUME NEW a \in Drainers, apc[a] \in Holding PROVE ~Queued(hand[a])'
      OBVIOUS
    <3>1. hand[a] \in In /\ ~Queued(hand[a]) /\ hand[a] # s /\ hand'[a] = hand[a]
      BY <2>2, <2>14 DEF SlotInv, CoreInv, PlaceInv
    <3>2. QED
      BY <2>7, <3>1 DEF Queued
  <2>16. PlaceInv'
    <3>1. \A q \in owns' : slot'[q] = "held" /\ ~Queued(q)'
      BY <2>2, <2>7 DEF SlotInv, CoreInv, PlaceInv, TypeOK
    <3>2. \A q \in In : spc'[q] \in {"run", "push", "send"} => q \in owns'
      BY <2>1, <2>2 DEF SlotInv, CoreInv, PlaceInv, TypeOK, Sessions
    <3>3. \A q \in In : Queued(q)' => slot'[q] = "held"
      BY <2>1, <2>2, <2>7 DEF SlotInv, CoreInv, PlaceInv
    <3>4. \A a \in Drainers : apc'[a] \in Holding =>
            hand'[a] \in In /\ slot'[hand'[a]] = "held" /\ hand'[a] \notin owns' /\ ~Queued(hand[a])'
      BY <2>2, <2>15 DEF SlotInv, CoreInv, PlaceInv
    <3>5. QED
      BY <2>2, <3>1, <3>2, <3>3, <3>4 DEF SlotInv, CoreInv, PlaceInv
  <2>17. QED
    BY <2>6, <2>11, <2>12, <2>13, <2>16 DEF SlotInv, CoreInv
<1>2. CASE TeardownSlot(s)
  <2>1. /\ spc[s] = "free" /\ owns' = owns \ {s} /\ spc' = [spc EXCEPT ![s] = "tell"]
        /\ UNCHANGED <<accept, recvVars, accVars>>
    BY <1>2 DEF TeardownSlot
  <2>2. CASE s \in owns
    <3>1. s \in In /\ slot[s] = "held" /\ Release(s) /\ ~Queued(s)
      BY <1>2, <2>2 DEF TeardownSlot, SlotInv, CoreInv, PlaceInv, TypeOK
    <3>2. /\ slot' = [slot EXCEPT ![s] = "freed"]
          /\ slots' \in 0 .. Backlog
          /\ SlotsMatch'
      BY <3>1, ReleaseHeld
    <3>3. TypeOK'
      BY <1>2, <2>1, <3>2 DEF TeardownSlot, SlotInv, TypeOK, Running, Teardown
    <3>4. QueueInv'
      BY <2>1 DEF SlotInv, CoreInv, QueueInv, QueuedSet, Queued
    <3>5. OfferInv'
      BY <2>1, <3>1, <3>2, SessionsAssumption DEF SlotInv, CoreInv, OfferInv, TypeOK, Sessions
    <3>6. \A a \in Drainers : apc[a] \in Holding => hand[a] # s
      BY <2>2 DEF SlotInv, CoreInv, PlaceInv
    <3>7. PlaceInv'
      BY <2>1, <3>1, <3>2, <3>6 DEF SlotInv, CoreInv, PlaceInv, Queued, TypeOK, Sessions
    <3>8. QED
      BY <3>2, <3>3, <3>4, <3>5, <3>7 DEF SlotInv, CoreInv
  <2>3. CASE s \notin owns
    <3>1. UNCHANGED <<slotVars, owns>>
      BY <1>2, <2>1, <2>3 DEF TeardownSlot
    <3>2. TypeOK'
      BY <1>2, <2>1, <3>1 DEF TeardownSlot, SlotInv, TypeOK, Running, Teardown
    <3>3. CoreInv'
      BY <2>1, <3>1, MoveStep
    <3>4. QED
      BY <3>2, <3>3 DEF SlotInv
  <2>4. QED
    BY <2>2, <2>3
<1>3. ASSUME NEW p \in Running \cup {"finished"}, Moves(s, p),
             spc[s] \in Running,
             p = "send" => spc[s] = "push",
             p \notin {"run", "push"}
      PROVE  SlotInv'
  <2>1. TypeOK'
    BY <1>3 DEF Moves, SlotInv, TypeOK
  <2>2. s \in Out => spc[s] # "push"
    BY DEF SlotInv, CoreInv, OfferInv
  <2>3. "none" \notin Running /\ p # "none" /\ spc[s] # "none"
    BY <1>3 DEF Running, Teardown
  <2>4. p = "send" => s \in In
    BY <1>3, <2>2 DEF Sessions
  <2>5. CoreInv'
    BY <1>3, <2>3, <2>4, MoveStep DEF Moves
  <2>6. QED
    BY <2>1, <2>5 DEF SlotInv
<1>4. CASE DeliverCheck(s)
  BY <1>3, <1>4 DEF DeliverCheck, Running, Teardown
<1>5. CASE DeliverRefused(s) \/ SessionStops(s) \/ SessionFails(s)
  BY <1>3, <1>5 DEF DeliverRefused, SessionStops, SessionFails, Running, Teardown
<1>6. ASSUME NEW p, spc' = [spc EXCEPT ![s] = p],
             UNCHANGED <<accept, slotVars, owns, recvVars, accVars>>,
             p \in {"push", "up", "remove", "free", "finished"},
             p = "push" => s \in In /\ spc[s] = "run",
             spc[s] # "none"
      PROVE  CoreInv'
  BY <1>6, MoveStep
<1>7. CASE Establish(s)
  <2>1. TypeOK'
    <3>1. conn' \in [Sessions -> {"none", "open", "closed"}]
      BY <1>7 DEF Establish, SlotInv, TypeOK
    <3>2. result' \in [Sessions -> {"none", "conn", "err"}]
      BY <1>7 DEF Establish, SlotInv, TypeOK
    <3>3. spc' \in [Sessions -> {"none", "registered", "finished"} \cup Running]
      BY <1>7 DEF Establish, SlotInv, TypeOK, Running
    <3>4. QED
      BY <1>7, <3>1, <3>2, <3>3 DEF Establish, SlotInv, TypeOK
  <2>2. CoreInv'
    BY <1>6, <1>7 DEF Establish
  <2>3. QED
    BY <2>1, <2>2 DEF SlotInv
<1>8. CASE TeardownStream(s) \/ TeardownFinish(s)
  <2>1. TypeOK'
    <3>1. conn' \in [Sessions -> {"none", "open", "closed"}]
      BY <1>8 DEF TeardownStream, TeardownFinish, SlotInv, TypeOK
    <3>2. result' \in [Sessions -> {"none", "conn", "err"}]
      BY <1>8 DEF TeardownStream, TeardownFinish, SlotInv, TypeOK
    <3>3. spc' \in [Sessions -> {"none", "registered", "finished"} \cup Running]
      BY <1>8 DEF TeardownStream, TeardownFinish, SlotInv, TypeOK, Running, Teardown
    <3>4. QED
      BY <1>8, <3>1, <3>2, <3>3 DEF TeardownStream, TeardownFinish, SlotInv, TypeOK
  <2>2. CoreInv'
    BY <1>6, <1>8 DEF TeardownStream, TeardownFinish
  <2>3. QED
    BY <2>1, <2>2 DEF SlotInv
<1>9. CASE TeardownRemove(s)
  <2>1. TypeOK'
    BY <1>9 DEF TeardownRemove, SlotInv, TypeOK, Running, Teardown
  <2>2. CoreInv'
    BY <1>6, <1>9 DEF TeardownRemove
  <2>3. QED
    BY <2>1, <2>2 DEF SlotInv
<1>10. QED
  BY <1>1, <1>2, <1>4, <1>5, <1>7, <1>8, <1>9 DEF SessionStep, DeliverStep, TeardownStep

LEMMA ListenerSteps ==
  ASSUME SlotInv, NEW a \in Drainers,
         \/ AcceptStep(a) \/ AcceptCall(a) \/ Listen \/ LnCloseBegin \/ LnDetach
  PROVE  SlotInv'
<1> USE DEF regVars, lnVars, slotVars, sessVars, recvVars, dialVars, accVars, epVars
<1>1. LnCloser \in Drainers
  BY DEF Drainers
<1>2. ASSUME NEW p \in Holding, apc[a] \in {"wait", "drain"}, Take(a, p) PROVE SlotInv'
  <2>1. accept' \in Seq(In) /\ Len(accept') <= Backlog /\ Head(accept) \in In
    BY <1>2, BacklogAssumption DEF Take, SlotInv, TypeOK
  <2>2. TypeOK'
    BY <1>2, <2>1 DEF Take, SlotInv, TypeOK, Holding
  <2>3. apc[a] \notin Holding
    BY <1>2 DEF Holding
  <2>4. QED
    BY <1>2, <2>2, <2>3, TakeStep DEF SlotInv
<1>3. CASE AcceptTake(a) \/ DrainTake(a)
  BY <1>2, <1>3 DEF AcceptTake, DrainTake, Holding
<1>4. CASE AcceptReturn(a)
  <2>1. /\ CoreInv' /\ slots' \in 0 .. Backlog
        /\ slot' \in [Sessions -> {"none", "held", "freed"}]
    <3>1. /\ apc[a] \in Holding /\ Release(hand[a])
          /\ apc' = [apc EXCEPT ![a] = "done"] /\ hand' = hand
          /\ UNCHANGED <<accept, owns, spc, recvVars>>
      BY <1>4 DEF AcceptReturn, Holding
    <3>2. "done" \notin Holding
      BY DEF Holding
    <3>3. QED
      BY <3>1, <3>2, LetGoStep
  <2>2. TypeOK'
    BY <1>4, <2>1 DEF AcceptReturn, SlotInv, TypeOK
  <2>3. QED
    BY <2>1, <2>2 DEF SlotInv
<1>5. CASE DrainClose(a)
  <2>1. /\ CoreInv' /\ slots' \in 0 .. Backlog
        /\ slot' \in [Sessions -> {"none", "held", "freed"}]
    <3>1. /\ apc[a] \in Holding /\ Release(hand[a])
          /\ apc' = [apc EXCEPT ![a] = "drain"] /\ hand' = [hand EXCEPT ![a] = None]
          /\ UNCHANGED <<accept, owns, spc, recvVars>>
      BY <1>5 DEF DrainClose, Holding
    <3>2. "drain" \notin Holding
      BY DEF Holding
    <3>3. QED
      BY <3>1, <3>2, LetGoStep
  <2>2. hand[a] \in Sessions
    BY <1>5 DEF DrainClose, SlotInv, CoreInv, PlaceInv, Holding, Sessions
  <2>3. asked' \subseteq Sessions
    BY <1>5, <2>2 DEF DrainClose, CloseWith, SlotInv, TypeOK
  <2>4. conn' \in [Sessions -> {"none", "open", "closed"}]
    BY <1>5, <2>2 DEF DrainClose, SlotInv, TypeOK
  <2>5. TypeOK'
    BY <1>5, <2>1, <2>3, <2>4 DEF DrainClose, SlotInv, TypeOK
  <2>6. QED
    BY <2>1, <2>5 DEF SlotInv
<1>6. CASE AcceptCall(a) \/ AcceptClosed(a) \/ DrainEnd(a)
  <2>1. TypeOK'
    BY <1>6 DEF AcceptCall, AcceptClosed, DrainEnd, SlotInv, TypeOK
  <2>2. CoreInv'
    <3>1. PICK p \in {"wait", "drain", "done"} : apc' = [apc EXCEPT ![a] = p]
      BY <1>6 DEF AcceptCall, AcceptClosed, DrainEnd
    <3>2. p \notin Holding
      BY DEF Holding
    <3>3. UNCHANGED <<accept, slotVars, owns, spc, recvVars, hand>>
      BY <1>6 DEF AcceptCall, AcceptClosed, DrainEnd
    <3>4. QED
      BY <3>1, <3>2, <3>3, CallStep
  <2>3. QED
    BY <2>1, <2>2 DEF SlotInv
<1>7. CASE LnCloseBegin \/ LnDetach
  <2>1. TypeOK'
    <3>1. CASE LnCloseBegin
      BY <1>1, <3>1 DEF LnCloseBegin, SlotInv, TypeOK
    <3>2. CASE LnDetach
      <4>1. listener' = FALSE /\ apc' = [apc EXCEPT ![LnCloser] = "drain"]
        BY <3>2 DEF LnDetach
      <4>2. listener' \in BOOLEAN
        BY <4>1
      <4>3. apc' \in [Drainers -> {"idle", "wait", "take", "detach", "drain", "drop", "done"}]
        BY <4>1 DEF SlotInv, TypeOK
      <4>4. QED
        BY <3>2, <4>2, <4>3 DEF LnDetach, SlotInv, TypeOK
    <3>3. QED
      BY <1>7, <3>1, <3>2
  <2>2. CoreInv'
    <3>1. PICK p \in {"detach", "drain"} : apc' = [apc EXCEPT ![LnCloser] = p]
      BY <1>7 DEF LnCloseBegin, LnDetach
    <3>2. p \notin Holding
      BY DEF Holding
    <3>3. UNCHANGED <<accept, slotVars, owns, spc, recvVars, hand>>
      BY <1>7 DEF LnCloseBegin, LnDetach
    <3>4. QED
      BY <1>1, <3>1, <3>2, <3>3, CallStep
  <2>3. QED
    BY <2>1, <2>2 DEF SlotInv
<1>8. CASE Listen
  <2>1. TypeOK'
    BY <1>8 DEF Listen, SlotInv, TypeOK
  <2>2. CoreInv'
    BY <1>8, Frame DEF Listen, coreVars
  <2>3. QED
    BY <2>1, <2>2 DEF SlotInv
<1>9. QED
  BY <1>3, <1>4, <1>5, <1>6, <1>7, <1>8 DEF AcceptStep

LEMMA CloseSteps ==
  ASSUME SlotInv, EpClose \/ EpStep \/ \E s \in Sessions : ConnClose(s)
  PROVE  SlotInv'
<1> USE DEF regVars, lnVars, slotVars, sessVars, recvVars, dialVars, accVars, epVars
<1>1. CASE EpLnClose
  BY <1>1, ListenerSteps DEF EpLnClose, Drainers
<1>2. CASE EpClose \/ EpLnClosed \/ EpAsk \/ EpAwait \/ EpCancel \/ EpWait
  <2>1. TypeOK'
    <3>1. CASE EpClose
      BY <3>1 DEF EpClose, EpMoves, SlotInv, TypeOK
    <3>2. CASE EpLnClosed \/ EpWait
      BY <3>2 DEF EpLnClosed, EpWait, EpMoves, SlotInv, TypeOK
    <3>3. CASE EpAsk
      BY <3>3 DEF EpAsk, EpMoves, CloseWith, SlotInv, TypeOK
    <3>4. CASE EpAwait
      BY <3>4 DEF EpAwait, EpMoves, SlotInv, TypeOK
    <3>5. CASE EpCancel
      BY <3>5 DEF EpCancel, EpMoves, SlotInv, TypeOK
    <3>6. QED
      BY <1>2, <3>1, <3>2, <3>3, <3>4, <3>5
  <2>2. UNCHANGED coreVars
    BY <1>2 DEF EpClose, EpLnClosed, EpAsk, EpAwait, EpCancel, EpWait, EpMoves, coreVars
  <2>3. QED
    BY <2>1, <2>2, Frame DEF SlotInv
<1>3. CASE \E s \in Sessions : ConnClose(s)
  <2>1. PICK s \in Sessions : ConnClose(s)
    BY <1>3
  <2>2. TypeOK'
    BY <2>1 DEF ConnClose, CloseWith, SlotInv, TypeOK
  <2>3. UNCHANGED coreVars
    BY <2>1 DEF ConnClose, coreVars
  <2>4. QED
    BY <2>2, <2>3, Frame DEF SlotInv
<1>4. QED
  BY <1>1, <1>2, <1>3 DEF EpStep

LEMMA Step == SlotInv /\ [Next]_vars => SlotInv'
<1> SUFFICES ASSUME SlotInv, [Next]_vars PROVE SlotInv'
  OBVIOUS
<1>1. CASE Calls
  <2>1. CASE LnClose \/ Listen \/ \E a \in Accepters : AcceptCall(a)
    BY <2>1, ListenerSteps DEF LnClose, Drainers
  <2>2. CASE \E d \in Out : DialCall(d) \/ DialCancel(d)
    BY <2>2, DialSteps
  <2>3. CASE EpClose \/ \E s \in Sessions : ConnClose(s)
    BY <2>3, CloseSteps
  <2>4. QED
    BY <1>1, <2>1, <2>2, <2>3 DEF Calls
<1>2. CASE Steps
  <2>1. CASE LnDetach \/ \E a \in Drainers : AcceptStep(a)
    BY <2>1, ListenerSteps DEF Drainers
  <2>2. CASE ReceiveStep
    BY <2>2, ReceiveSteps
  <2>3. CASE \E d \in Out : DialStep(d)
    BY <2>3, DialSteps
  <2>4. CASE \E s \in Sessions : SessionStep(s)
    BY <2>4, SessionSteps
  <2>5. CASE EpStep
    BY <2>5, CloseSteps
  <2>6. QED
    BY <1>2, <2>1, <2>2, <2>3, <2>4, <2>5 DEF Steps
<1>3. CASE Environment
  BY <1>3, ReceiveSteps, SessionSteps DEF Environment
<1>4. CASE UNCHANGED vars
  <2>1. TypeOK'
    BY <1>4 DEF SlotInv, TypeOK, vars, regVars, lnVars, slotVars, sessVars, recvVars, dialVars,
       accVars, epVars
  <2>2. CoreInv'
    BY <1>4, Frame DEF coreVars, vars, sessVars
  <2>3. QED
    BY <2>1, <2>2 DEF SlotInv
<1>5. QED
  BY <1>1, <1>2, <1>3, <1>4 DEF Next

LEMMA SlotInvariant == Spec => []SlotInv
  BY Init1, Step, PTL DEF Spec

-----------------------------------------------------------------------------
(* The life of sessions, and what Endpoint.Close waits for.                *)

Listed == {"registered", "run", "push", "send", "up", "down", "remove"}

\* The registry holds a session up to the step of its teardown that takes it
\* out, and an open connection is never left behind by a teardown.
LifeInv ==
  /\ \A s \in sessions : spc[s] \in Listed
  /\ \A s \in Sessions : spc[s] = "registered" => s \in Out /\ s \in sessions
  /\ \A s \in Sessions : conn[s] = "open" => spc[s] \in {"push", "send", "up", "down"}
  /\ \A d \in Out : /\ dpc[d] = "idle" => spc[d] = "none"
                    /\ dpc[d] = "spawn" => spc[d] = "registered"
                    /\ dres[d] = "cancelled" => spc[d] = "finished"

\* No session is registered once the endpoint is closed.  A Dial that has still
\* to start its goroutine is in Close's copy of the registry, so that it is
\* waited for until the grace period is over.
CloseInv ==
  /\ epc # "idle" => epClosed
  /\ epClosed => \A s \in Sessions : spc[s] = "registered" => s \in snapshot
  /\ epc \in {"cancel", "wait", "done"} /\ ~graceOver => \A s \in snapshot : spc[s] = "finished"
  /\ epc = "done" => /\ rpc = "stopped"
                     /\ \A s \in Sessions : spc[s] \in Running => s \in Out /\ graceOver

EndsInv == SlotInv /\ LifeInv /\ CloseInv

\* Calls move on, connections are closed, and no session goroutine moves.
LEMMA LifeFrame ==
  ASSUME EndsInv, UNCHANGED <<sessions, epClosed, spc, epVars>>,
         rpc = "stopped" => rpc' = "stopped",
         \A s \in Sessions : conn'[s] = "open" => conn[s] = "open",
         \A d \in Out : /\ dpc'[d] = "idle" => dpc[d] = "idle"
                        /\ dpc'[d] = "spawn" => dpc[d] = "spawn"
                        /\ dres'[d] = "cancelled" => dres[d] = "cancelled" \/ spc[d] = "finished"
  PROVE  LifeInv' /\ CloseInv'
<1>1. LifeInv'
  BY DEF EndsInv, LifeInv
<1>2. CloseInv'
  BY DEF EndsInv, CloseInv, epVars
<1>3. QED
  BY <1>1, <1>2

\* A session goroutine moves on.
LEMMA LifeMove ==
  ASSUME EndsInv, NEW s \in Sessions, NEW p \in Running \cup {"finished"},
         spc[s] \in Running, spc' = [spc EXCEPT ![s] = p],
         UNCHANGED <<epClosed, rpc, dialVars, epVars>>,
         sessions' \subseteq sessions, s \in sessions' => p \in Listed,
         \A q \in Sessions : conn'[q] = "open" =>
           (q # s /\ conn[q] = "open") \/ (q = s /\ p \in {"push", "send", "up", "down"}),
         \A q \in sessions : q # s => q \in sessions'
  PROVE  LifeInv' /\ CloseInv'
<1>1. /\ spc \in [Sessions -> {"none", "registered", "finished"} \cup Running]
      /\ spc'[s] = p /\ \A q \in Sessions : q # s => spc'[q] = spc[q]
      /\ sessions \subseteq Sessions /\ Out \subseteq Sessions /\ snapshot \subseteq Sessions
  BY DEF EndsInv, SlotInv, TypeOK, Sessions
<1>2. /\ spc[s] \notin {"none", "registered", "finished"} /\ p \notin {"none", "registered"}
  BY DEF Running, Teardown
<1>3. LifeInv'
  <2>1. \A q \in sessions' : spc'[q] \in Listed
    BY <1>1 DEF EndsInv, LifeInv
  <2>2. \A q \in Sessions : spc'[q] = "registered" => q \in Out /\ q \in sessions'
    BY <1>1, <1>2 DEF EndsInv, LifeInv
  <2>3. \A q \in Sessions : conn'[q] = "open" => spc'[q] \in {"push", "send", "up", "down"}
    BY <1>1 DEF EndsInv, LifeInv
  <2>4. \A d \in Out : /\ dpc'[d] = "idle" => spc'[d] = "none"
                       /\ dpc'[d] = "spawn" => spc'[d] = "registered"
                       /\ dres'[d] = "cancelled" => spc'[d] = "finished"
    BY <1>1, <1>2 DEF EndsInv, LifeInv, dialVars
  <2>5. QED
    BY <2>1, <2>2, <2>3, <2>4 DEF LifeInv
<1>4. CloseInv'
  <2>1. epc' = epc /\ snapshot' = snapshot /\ graceOver' = graceOver
    BY DEF epVars
  <2>2. epClosed' => \A q \in Sessions : spc'[q] = "registered" => q \in snapshot'
    BY <1>1, <1>2, <2>1 DEF EndsInv, CloseInv
  <2>3. epc' \in {"cancel", "wait", "done"} /\ ~graceOver' => \A q \in snapshot' : spc'[q] = "finished"
    BY <1>1, <1>2, <2>1 DEF EndsInv, CloseInv
  <2>4. epc' = "done" => /\ rpc' = "stopped"
                         /\ \A q \in Sessions : spc'[q] \in Running => q \in Out /\ graceOver'
    BY <1>1, <1>2, <2>1 DEF EndsInv, CloseInv
  <2>5. QED
    BY <2>1, <2>2, <2>3, <2>4 DEF EndsInv, CloseInv
<1>5. QED
  BY <1>3, <1>4

LEMMA LifeReceive ==
  ASSUME EndsInv, Receive \/ ReceiveStep \/ SignalingLost
  PROVE  LifeInv' /\ CloseInv'
<1> USE DEF regVars, lnVars, slotVars, sessVars, recvVars, dialVars, accVars, epVars
<1>1. CASE Receive \/ Admit \/ TakeSlot \/ ReceiveStops \/ SignalingLost
  <2>1. /\ UNCHANGED <<sessions, epClosed, spc, conn, dialVars, epVars>>
        /\ rpc # "stopped"
    BY <1>1 DEF Receive, Admit, TakeSlot, ReceiveStops, SignalingLost
  <2>2. QED
    BY <2>1, LifeFrame
<1>2. CASE AddInbound /\ UNCHANGED <<sessions, spc>>
  <2>1. /\ UNCHANGED <<sessions, epClosed, spc, conn, dialVars, epVars>>
        /\ rpc # "stopped"
    BY <1>2 DEF AddInbound
  <2>2. QED
    BY <2>1, LifeFrame
<1>3. CASE AddInbound /\ sessions' = sessions \cup {offer} /\ spc' = [spc EXCEPT ![offer] = "run"]
  <2>1. /\ rpc = "add" /\ offer \in In /\ spc[offer] = "none" /\ offer \notin Out /\ offer \in Sessions
        /\ UNCHANGED <<epClosed, conn, dialVars, epVars>>
        /\ epc # "done"
    BY <1>3, SessionsAssumption
    DEF AddInbound, EndsInv, SlotInv, CoreInv, OfferInv, TypeOK, CloseInv, Sessions
  <2>2. /\ spc'[offer] = "run" /\ \A q \in Sessions : q # offer => spc'[q] = spc[q]
        /\ sessions \subseteq Sessions /\ Out \subseteq Sessions /\ snapshot \subseteq Sessions
    BY <1>3, <2>1 DEF EndsInv, SlotInv, TypeOK, Sessions
  <2>3. ~epClosed
    BY <1>3, <2>1, SessionsAssumption DEF AddInbound, Refused, OfferHandled, EndsInv, SlotInv, TypeOK
  <2>4. LifeInv'
    BY <1>3, <2>1, <2>2 DEF EndsInv, LifeInv, Listed
  <2>5. CloseInv'
    BY <2>1, <2>2, <2>3 DEF EndsInv, CloseInv
  <2>6. QED
    BY <2>4, <2>5
<1>4. QED
  BY <1>1, <1>2, <1>3 DEF ReceiveStep, AddInbound

LEMMA LifeDial ==
  ASSUME EndsInv, NEW d \in Out, DialCall(d) \/ DialCancel(d) \/ DialStep(d)
  PROVE  LifeInv' /\ CloseInv'
<1> USE DEF regVars, lnVars, slotVars, sessVars, recvVars, dialVars, accVars, epVars
<1>1. /\ d \in Sessions /\ Out \subseteq Sessions /\ sessions \subseteq Sessions
      /\ snapshot \subseteq Sessions
      /\ spc \in [Sessions -> {"none", "registered", "finished"} \cup Running]
      /\ conn \in [Sessions -> {"none", "open", "closed"}]
      /\ dpc \in [Out -> {"idle", "spawn", "wait", "cancel", "done"}]
      /\ dres \in [Out -> {"none", "conn", "err", "refused", "cancelled", "closed"}]
      /\ result \in [Sessions -> {"none", "conn", "err"}]
  BY DEF EndsInv, SlotInv, TypeOK, Sessions
<1>2. CASE UNCHANGED <<sessions, spc>>
  <2>1. UNCHANGED <<epClosed, rpc, epVars>>
    BY DEF DialCall, DialCancel, DialStep, DialSpawn, DialResult, DialCancelled, DialEndpointClosed
  <2>2. \A s \in Sessions : conn'[s] = "open" => conn[s] = "open"
    BY <1>1 DEF DialCall, DialCancel, DialStep, DialSpawn, DialResult, DialCancelled,
       DialEndpointClosed
  <2>3. dpc[d] # "spawn"
    BY <1>1, <1>2 DEF DialCall, DialCancel, DialStep, DialSpawn, DialResult, DialCancelled,
       DialEndpointClosed, EndsInv, LifeInv, Running, Teardown
  <2>4. \E p \in {"wait", "cancel", "done"} : dpc' = [dpc EXCEPT ![d] = p]
    BY <1>1, <1>2, <2>3 DEF DialCall, DialCancel, DialStep, DialSpawn, DialResult, DialCancelled,
       DialEndpointClosed, DialReturns, EndsInv, LifeInv
  <2>5. dres' = dres \/ \E e : dres' = [dres EXCEPT ![d] = e] /\ (e = "cancelled" => spc[d] = "finished")
    BY <1>1, <2>3 DEF DialCall, DialCancel, DialStep, DialSpawn, DialResult, DialCancelled,
       DialEndpointClosed, DialReturns
  <2>6. \A f \in Out : /\ dpc'[f] = "idle" => dpc[f] = "idle"
                       /\ dpc'[f] = "spawn" => dpc[f] = "spawn"
    BY <1>1, <2>4
  <2>7. \A f \in Out : dres'[f] = "cancelled" => dres[f] = "cancelled" \/ spc[f] = "finished"
    BY <1>1, <2>5
  <2>8. QED
    BY <1>2, <2>1, <2>2, <2>6, <2>7, LifeFrame
<1>3. CASE /\ DialCall(d) /\ ~Refused /\ sessions' = sessions \cup {d}
           /\ spc' = [spc EXCEPT ![d] = "registered"] /\ dpc' = [dpc EXCEPT ![d] = "spawn"]
           /\ UNCHANGED dres
  <2>1. /\ UNCHANGED <<epClosed, conn, rpc, epVars>> /\ dpc[d] = "idle" /\ ~epClosed
    BY <1>3 DEF DialCall, Refused
  <2>2. spc[d] = "none" /\ epc = "idle"
    BY <2>1 DEF EndsInv, LifeInv, CloseInv
  <2>3. /\ spc'[d] = "registered" /\ \A q \in Sessions : q # d => spc'[q] = spc[q]
        /\ dpc'[d] = "spawn" /\ \A f \in Out : f # d => dpc'[f] = dpc[f]
    BY <1>1, <1>3
  <2>4. LifeInv'
    BY <1>1, <1>3, <2>1, <2>2, <2>3 DEF EndsInv, LifeInv, Listed
  <2>5. CloseInv'
    BY <2>1, <2>2 DEF EndsInv, CloseInv
  <2>6. QED
    BY <2>4, <2>5
<1>4. CASE DialSpawn(d)
  <2>1. /\ UNCHANGED <<sessions, epClosed, conn, rpc, dres, epVars>>
        /\ dpc[d] = "spawn" /\ spc[d] = "registered"
        /\ spc' = [spc EXCEPT ![d] = "run"] /\ dpc' = [dpc EXCEPT ![d] = "wait"]
    BY <1>4 DEF DialSpawn, EndsInv, LifeInv
  <2>2. /\ spc'[d] = "run" /\ \A q \in Sessions : q # d => spc'[q] = spc[q]
        /\ dpc'[d] = "wait" /\ \A f \in Out : f # d => dpc'[f] = dpc[f]
    BY <1>1, <2>1
  <2>3. LifeInv'
    BY <1>1, <2>1, <2>2 DEF EndsInv, LifeInv, Listed
  <2>4. /\ epc # "idle" => d \in snapshot
        /\ epc \in {"cancel", "wait", "done"} => graceOver
    BY <1>1, <2>1 DEF EndsInv, CloseInv
  <2>5. CloseInv'
    BY <1>1, <2>1, <2>2, <2>4 DEF EndsInv, CloseInv
  <2>6. QED
    BY <2>3, <2>5
<1>5. QED
  BY <1>2, <1>3, <1>4 DEF DialCall, DialCancel, DialStep, DialResult, DialCancelled,
     DialEndpointClosed

LEMMA LifeSession ==
  ASSUME EndsInv, NEW s \in Sessions, Establish(s) \/ SessionFails(s) \/ SessionStep(s)
  PROVE  LifeInv' /\ CloseInv'
<1> USE DEF regVars, lnVars, slotVars, sessVars, recvVars, dialVars, accVars, epVars
<1>1. /\ spc \in [Sessions -> {"none", "registered", "finished"} \cup Running]
      /\ conn \in [Sessions -> {"none", "open", "closed"}]
      /\ \A q \in Sessions : conn[q] = "open" => spc[q] \in {"push", "send", "up", "down"}
      /\ \A q \in sessions : spc[q] \in Listed
  BY DEF EndsInv, SlotInv, TypeOK, LifeInv
<1>2. ASSUME NEW p \in {"send", "down"}, Moves(s, p), spc[s] \in {"run", "push", "send", "up"}
      PROVE  LifeInv' /\ CloseInv'
  <2>1. p \in Running /\ p \in Listed /\ spc[s] \in Running
    BY <1>2 DEF Running, Teardown, Listed
  <2>2. /\ spc' = [spc EXCEPT ![s] = p]
        /\ UNCHANGED <<epClosed, rpc, dialVars, epVars>> /\ sessions' = sessions /\ conn' = conn
    BY <1>2 DEF Moves
  <2>3. QED
    BY <1>1, <2>1, <2>2, LifeMove
<1>3. CASE DeliverCheck(s) \/ DeliverRefused(s) \/ SessionStops(s) \/ SessionFails(s)
  BY <1>2, <1>3 DEF DeliverCheck, DeliverRefused, SessionStops, SessionFails
<1>4. CASE DeliverPush(s)
  <2>1. "up" \in Running /\ "up" \in Listed /\ spc[s] \in Running
    BY <1>4 DEF DeliverPush, Running, Listed
  <2>2. /\ spc' = [spc EXCEPT ![s] = "up"]
        /\ UNCHANGED <<epClosed, rpc, dialVars, epVars>> /\ sessions' = sessions /\ conn' = conn
    BY <1>4 DEF DeliverPush
  <2>3. QED
    BY <1>1, <2>1, <2>2, LifeMove
<1>5. CASE Establish(s)
  <2>1. PICK p \in {"push", "up"} : spc' = [spc EXCEPT ![s] = p]
    BY <1>5 DEF Establish
  <2>2. p \in Running /\ p \in Listed /\ spc[s] \in Running
    BY <1>5 DEF Establish, Running, Listed
  <2>3. /\ UNCHANGED <<epClosed, rpc, dialVars, epVars>> /\ sessions' = sessions
        /\ conn' = [conn EXCEPT ![s] = "open"]
    BY <1>5 DEF Establish
  <2>4. \A q \in Sessions : conn'[q] = "open" =>
          (q # s /\ conn[q] = "open") \/ (q = s /\ p \in {"push", "send", "up", "down"})
    BY <1>1, <2>1, <2>3
  <2>5. /\ p \in Running \cup {"finished"} /\ sessions' \subseteq sessions
        /\ \A q \in sessions : q # s => q \in sessions'
    BY <2>2, <2>3
  <2>6. QED
    BY <2>1, <2>2, <2>3, <2>4, <2>5, LifeMove
<1>6. CASE TeardownStream(s)
  <2>1. "remove" \in Running /\ "remove" \in Listed /\ spc[s] \in Running
    BY <1>6 DEF TeardownStream, Running, Teardown, Listed
  <2>2. /\ spc' = [spc EXCEPT ![s] = "remove"] /\ sessions' = sessions
        /\ UNCHANGED <<epClosed, rpc, dialVars, epVars>>
    BY <1>6 DEF TeardownStream
  <2>3. \A q \in Sessions : conn'[q] = "open" => q # s /\ conn[q] = "open"
    BY <1>1, <1>6 DEF TeardownStream
  <2>4. QED
    BY <2>1, <2>2, <2>3, LifeMove
<1>7. CASE TeardownRemove(s)
  <2>1. "free" \in Running /\ spc[s] \in Running /\ conn[s] # "open"
    BY <1>1, <1>7 DEF TeardownRemove, Running, Teardown
  <2>2. /\ spc' = [spc EXCEPT ![s] = "free"] /\ sessions' = sessions \ {s} /\ conn' = conn
        /\ UNCHANGED <<epClosed, rpc, dialVars, epVars>>
    BY <1>7 DEF TeardownRemove
  <2>3. QED
    BY <1>1, <2>1, <2>2, LifeMove
<1>8. CASE TeardownSlot(s) \/ TeardownFinish(s)
  <2>1. PICK p \in {"tell", "finished"} : spc' = [spc EXCEPT ![s] = p]
    BY <1>8 DEF TeardownSlot, TeardownFinish
  <2>2. /\ p \in Running \cup {"finished"} /\ spc[s] \in Running /\ conn[s] # "open"
        /\ s \notin sessions
    BY <1>1, <1>8 DEF TeardownSlot, TeardownFinish, Running, Teardown, Listed
  <2>3. /\ UNCHANGED <<epClosed, rpc, dialVars, epVars>> /\ sessions' = sessions /\ conn' = conn
    BY <1>8 DEF TeardownSlot, TeardownFinish
  <2>4. QED
    BY <2>1, <2>2, <2>3, LifeMove
<1>9. QED
  BY <1>3, <1>4, <1>5, <1>6, <1>7, <1>8 DEF SessionStep, DeliverStep, TeardownStep

LEMMA LifeListener ==
  ASSUME EndsInv, NEW a \in Drainers,
         \/ AcceptStep(a) \/ AcceptCall(a) \/ Listen \/ LnCloseBegin \/ LnDetach
         \/ \E s \in Sessions : ConnClose(s)
  PROVE  LifeInv' /\ CloseInv'
<1> USE DEF regVars, lnVars, slotVars, sessVars, recvVars, dialVars, accVars, epVars
<1>1. UNCHANGED <<sessions, epClosed, spc, rpc, dialVars, epVars>>
  BY DEF AcceptStep, AcceptCall, Listen, LnCloseBegin, LnDetach, ConnClose, AcceptTake, DrainTake,
     Take, AcceptReturn, AcceptClosed, DrainClose, DrainEnd
<1>2. conn' = conn \/ \E s : conn' = [conn EXCEPT ![s] = "closed"]
  BY DEF AcceptStep, AcceptCall, Listen, LnCloseBegin, LnDetach, ConnClose, AcceptTake, DrainTake,
     Take, AcceptReturn, AcceptClosed, DrainClose, DrainEnd
<1>3. \A s \in Sessions : conn'[s] = "open" => conn[s] = "open"
  BY <1>2 DEF EndsInv, SlotInv, TypeOK
<1>4. QED
  BY <1>1, <1>3, LifeFrame

LEMMA LifeClose ==
  ASSUME EndsInv, EpClose \/ EpStep
  PROVE  LifeInv' /\ CloseInv'
<1> USE DEF regVars, lnVars, slotVars, sessVars, recvVars, dialVars, accVars, epVars
<1>1. CASE EpLnClose
  <2>1. LnCloser \in Drainers
    BY DEF Drainers
  <2>2. QED
    BY <1>1, <2>1, LifeListener DEF EpLnClose
<1>2. CASE EpClose \/ EpLnClosed \/ EpAsk \/ EpAwait \/ EpCancel \/ EpWait
  <2>1. UNCHANGED <<sessions, spc, conn, rpc, dialVars>>
    BY <1>2 DEF EpClose, EpLnClosed, EpAsk, EpAwait, EpCancel, EpWait, EpMoves
  <2>2. LifeInv'
    BY <2>1 DEF EndsInv, LifeInv
  <2>3. CloseInv'
    <3>1. CASE EpClose
      BY <2>1, <3>1 DEF EpClose, EpMoves, EndsInv, LifeInv, CloseInv
    <3>2. CASE EpLnClosed \/ EpAsk
      BY <2>1, <3>2 DEF EpLnClosed, EpAsk, EpMoves, EndsInv, CloseInv
    <3>3. CASE EpAwait
      BY <2>1, <3>3 DEF EpAwait, EpMoves, EndsInv, CloseInv
    <3>4. CASE EpCancel
      BY <2>1, <3>4 DEF EpCancel, EpMoves, EndsInv, CloseInv
    <3>5. CASE EpWait
      BY <2>1, <3>5 DEF EpWait, EpMoves, EndsInv, CloseInv
    <3>6. QED
      BY <1>2, <3>1, <3>2, <3>3, <3>4, <3>5
  <2>4. QED
    BY <2>2, <2>3
<1>3. QED
  BY <1>1, <1>2 DEF EpStep

LEMMA EndsInvariant == Spec => []EndsInv
<1>1. Init => EndsInv
  <2> SUFFICES ASSUME Init PROVE EndsInv
    OBVIOUS
  <2>1. LifeInv /\ CloseInv
    BY DEF Init, LifeInv, CloseInv, Sessions
  <2>2. QED
    BY <2>1, Init1 DEF EndsInv
<1>2. EndsInv /\ [Next]_vars => EndsInv'
  <2> SUFFICES ASSUME EndsInv, [Next]_vars PROVE LifeInv' /\ CloseInv'
    BY Step DEF EndsInv
  <2>0. LnCloser \in Drainers /\ Accepters \subseteq Drainers
    BY DEF Drainers
  <2>1. CASE Calls
    BY <2>0, <2>1, LifeDial, LifeListener, LifeClose DEF Calls, LnClose
  <2>2. CASE Steps
    BY <2>0, <2>2, LifeReceive, LifeDial, LifeSession, LifeListener, LifeClose DEF Steps
  <2>3. CASE Environment
    BY <2>3, LifeReceive, LifeSession DEF Environment
  <2>4. CASE UNCHANGED vars
    <3>1. UNCHANGED <<sessions, epClosed, spc, rpc, conn, dialVars, epVars>>
      BY <2>4 DEF vars, regVars, sessVars, recvVars
    <3>2. QED
      BY <3>1, LifeFrame DEF dialVars
  <2>5. QED
    BY <2>1, <2>2, <2>3, <2>4 DEF Next
<1>3. QED
  BY <1>1, <1>2, PTL DEF Spec

-----------------------------------------------------------------------------
(* The theorems.                                                           *)

\* The variables keep their types: in particular neither inboundSlots nor the
\* accept channel ever holds more than AcceptBacklog entries.
THEOREM TypeCorrect == Spec => []TypeOK
<1>1. SlotInv => TypeOK
  BY DEF SlotInv
<1>2. QED
  BY <1>1, SlotInvariant, PTL

\* The number of tokens in inboundSlots is the number of inbound sessions that
\* hold a slot, whoever gives slots back and in whichever order.
THEOREM SlotsCounted == Spec => []SlotsMatch
<1>1. SlotInv => SlotsMatch
  BY DEF SlotInv, CoreInv
<1>2. QED
  BY <1>1, SlotInvariant, PTL

\* push never finds the accept queue full: an established connection is refused
\* only because the listener is closed.
THEOREM AcceptQueueHasRoom == Spec => []QueueHasRoom
<1>1. SlotInv => QueueHasRoom
  BY Room DEF QueueHasRoom
<1>2. QED
  BY <1>1, SlotInvariant, PTL

\* After Endpoint.Close no session is left, but for a Dial that it gave up on
\* before the goroutine of its session was started.
THEOREM ClosedEndpointIsEmpty == Spec => []CloseReleasesAll
<1>1. EndsInv => CloseReleasesAll
  <2> SUFFICES ASSUME EndsInv, epc = "done", NEW s \in Sessions,
                      spc[s] \in Running \cup {"registered"} \/ s \in sessions
               PROVE  s \in Out /\ graceOver
    BY DEF CloseReleasesAll
  <2>1. spc[s] \in Running \cup {"registered"}
    BY DEF EndsInv, LifeInv, Listed, Running, Teardown
  <2>2. CASE spc[s] \in Running
    BY <2>2 DEF EndsInv, CloseInv
  <2>3. CASE spc[s] = "registered"
    BY <2>3 DEF EndsInv, LifeInv, CloseInv
  <2>4. QED
    BY <2>1, <2>2, <2>3
<1>2. QED
  BY <1>1, EndsInvariant, PTL

\* A Dial whose context ends returns only after its session has released
\* everything, also when the connection was established at the same time.
THEOREM CancelledDialLeavesNothing == Spec => []CancelledDialReleased
<1>1. EndsInv => CancelledDialReleased
  BY DEF EndsInv, LifeInv, CancelledDialReleased, Listed, Sessions
<1>2. QED
  BY <1>1, EndsInvariant, PTL
=============================================================================
