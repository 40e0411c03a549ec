----------------------------- MODULE InboxProofs -----------------------------
(***************************************************************************)
(* What TLAPS proves of Inbox, for any capacity, any number of signals and *)
(* callbacks and any number of deliveries.                                 *)
(***************************************************************************)
EXTENDS Inbox, FiniteSetTheorems, FunctionTheorems, TLAPS

(* The cache.  A remembered ID has the number of its last admission, so    *)
(* numbers are distinct; and the last MaxSeen \div 2 + 1 admissions are    *)
(* all remembered.                                                         *)

Half == MaxSeen \div 2

NumberInv ==
  /\ next = Len(admitted)
  /\ \A id \in DOMAIN seen : seen[id] \in 0 .. next - 1 /\ admitted[seen[id] + 1] = id
  /\ \A i \in 1 .. next : admitted[i] \in DOMAIN seen => seen[admitted[i]] >= i - 1

WindowInv ==
  \A i \in 1 .. next : i >= next - Half => admitted[i] \in DOMAIN seen

CacheInv == NumberInv /\ WindowInv /\ RepeatsFarApart

(* The mailbox.  Until the session ends, what was posted is what was       *)
(* handled, then the batch, then the queue, and then what overflowed.      *)

Live == lpc \in {"wait", "drain", "handle"}

ChainInv ==
  /\ Live => ~closed
  /\ HandledNoGap
  /\ Live =>
       /\ \A i \in 1 .. Len(batch) : batch[i] = posted[Len(handled) + i]
       /\ \A i \in 1 .. Len(items) : items[i] = posted[Len(handled) + Len(batch) + i]
       /\ Len(handled) + Len(batch) + Len(items) <= Len(posted)
       /\ ~overflow => Len(posted) = Len(handled) + Len(batch) + Len(items)
       /\ overflow => Len(items) = MaxMailbox
  /\ lpc \in {"wait", "drain"} => batch = <<>>

InboxInv == TypeOK /\ CacheInv /\ WakeupPending /\ ChainInv

-----------------------------------------------------------------------------
(* The cache.                                                              *)

CacheType ==
  /\ DOMAIN seen \subseteq Ids /\ seen \in [DOMAIN seen -> Nat]
  /\ Cardinality(DOMAIN seen) <= MaxSeen
  /\ next \in Nat /\ admitted \in Seq(Ids)

LEMMA HalfFacts == Half \in Nat /\ Half >= 1 /\ Half + 1 <= MaxSeen
  BY InboxAssumption DEF Half

\* The numbers of remembered IDs are distinct, so a set of IDs whose numbers
\* lie in an interval is finite and no larger than the interval.
LEMMA NumbersDistinct ==
  ASSUME CacheType, NumberInv, NEW S \in SUBSET DOMAIN seen, NEW lo \in Int,
         \A x \in S : seen[x] >= lo
  PROVE  IsFiniteSet(S) /\ Cardinality(S) <= Cardinality(lo .. next - 1)
<1> DEFINE f == [x \in S |-> seen[x]]
<1>1. \A x \in S : seen[x] \in lo .. next - 1
  BY DEF NumberInv, CacheType
<1>2. f \in [S -> lo .. next - 1]
  BY <1>1
<1>3. \A x, y \in S : f[x] = f[y] => x = y
  BY DEF NumberInv
<1>4. f \in Injection(S, lo .. next - 1)
  BY <1>2, <1>3, Fun_IsInj
<1>5. IsFiniteSet(lo .. next - 1)
  BY FS_Interval DEF CacheType
<1>6. QED
  BY <1>4, <1>5, FS_Injection

LEMMA KeptSize ==
  ASSUME CacheType, NumberInv, NEW id, id \notin DOMAIN seen
  PROVE  IsFiniteSet(Kept) /\ Cardinality(Kept \cup {id}) <= MaxSeen
<1>1. IsFiniteSet(DOMAIN seen)
  <2>1. \A x \in DOMAIN seen : seen[x] >= 0
    BY DEF NumberInv
  <2>2. QED
    BY <2>1, NumbersDistinct
<1>2. Kept \subseteq DOMAIN seen
  BY DEF Kept
<1>3. IsFiniteSet(Kept)
  BY <1>1, <1>2, FS_Subset
<1>4. Cardinality(Kept \cup {id}) = Cardinality(Kept) + 1
  BY <1>2, <1>3, FS_AddElement
<1>5. Cardinality(DOMAIN seen) \in Nat /\ Cardinality(Kept) \in Nat
  BY <1>1, <1>3, FS_CardinalityType
<1>6. CASE Cardinality(DOMAIN seen) >= MaxSeen
  <2>1. Kept = {x \in DOMAIN seen : seen[x] >= next - Half}
    BY <1>6 DEF Kept, Half
  <2>2. next - Half \in Int
    BY HalfFacts DEF CacheType
  <2>3. Cardinality(Kept) <= Cardinality((next - Half) .. (next - 1))
    BY <2>1, <2>2, NumbersDistinct
  <2>4. Cardinality((next - Half) .. (next - 1)) = Half
    <3>1. next - 1 \in Int /\ ~(next - Half > next - 1)
      BY HalfFacts DEF CacheType
    <3>2. Cardinality((next - Half) .. (next - 1)) = (next - 1) - (next - Half) + 1
      BY <2>2, <3>1, FS_Interval
    <3>3. QED
      BY <3>2, HalfFacts DEF CacheType
  <2>5. QED
    BY <1>3, <1>4, <1>5, <2>3, <2>4, HalfFacts, InboxAssumption
<1>7. CASE Cardinality(DOMAIN seen) < MaxSeen
  <2>1. Kept = DOMAIN seen
    BY <1>5, <1>7, InboxAssumption DEF Kept
  <2>2. QED
    BY <1>3, <1>4, <1>5, <1>7, <2>1, InboxAssumption
<1>8. QED
  BY <1>5, <1>6, <1>7, InboxAssumption

LEMMA RememberStep ==
  ASSUME CacheType, CacheInv, NEW id \in Ids, id \notin DOMAIN seen, Remember(id)
  PROVE  CacheType' /\ CacheInv'
<1>1. /\ seen' = [x \in Kept \cup {id} |-> IF x = id THEN next ELSE seen[x]]
      /\ next' = next + 1
      /\ admitted' = Append(admitted, id)
  BY DEF Remember
<1>2. Kept \subseteq DOMAIN seen /\ DOMAIN seen' = Kept \cup {id}
  BY <1>1 DEF Kept
<1>3. next = Len(admitted) /\ next \in Nat /\ admitted \in Seq(Ids)
  BY DEF CacheInv, NumberInv, CacheType
<1>4. /\ Len(admitted') = next + 1 /\ admitted'[next + 1] = id /\ admitted' \in Seq(Ids)
      /\ \A i \in 1 .. next : admitted'[i] = admitted[i]
  BY <1>1, <1>3
<1>5. \A i \in 1 .. next' : i \in 1 .. next \/ i = next + 1
  BY <1>1, <1>3
<1>6. /\ seen'[id] = next
      /\ \A x \in Kept : x # id /\ seen'[x] = seen[x]
      /\ \A x \in DOMAIN seen' : x = id \/ x \in Kept
  BY <1>1, <1>2
<1>7. CacheType'
  <2>1. DOMAIN seen' \subseteq Ids /\ seen' \in [DOMAIN seen' -> Nat]
    BY <1>1, <1>2, <1>3 DEF CacheType
  <2>2. Cardinality(DOMAIN seen') <= MaxSeen
    BY <1>2, KeptSize DEF CacheInv
  <2>3. QED
    BY <1>1, <1>3, <1>4, <2>1, <2>2 DEF CacheType
<1>8. NumberInv'
  <2>1. \A x \in DOMAIN seen' : seen'[x] \in 0 .. next' - 1 /\ admitted'[seen'[x] + 1] = x
    <3> SUFFICES ASSUME NEW x \in DOMAIN seen'
                 PROVE  seen'[x] \in 0 .. next' - 1 /\ admitted'[seen'[x] + 1] = x
      OBVIOUS
    <3>1. CASE x = id
      BY <1>1, <1>3, <1>4, <1>6, <3>1
    <3>2. CASE x \in Kept
      <4>1. seen'[x] = seen[x] /\ x \in DOMAIN seen
        BY <1>2, <1>6, <3>2
      <4>2. seen[x] \in 0 .. next - 1 /\ admitted[seen[x] + 1] = x
        BY <4>1 DEF CacheInv, NumberInv
      <4>3. seen[x] + 1 \in 1 .. next
        BY <1>3, <4>2
      <4>4. QED
        BY <1>1, <1>3, <1>4, <4>1, <4>2, <4>3
    <3>3. QED
      BY <1>6, <3>1, <3>2
  <2>2. \A i \in 1 .. next' : admitted'[i] \in DOMAIN seen' => seen'[admitted'[i]] >= i - 1
    <3> SUFFICES ASSUME NEW i \in 1 .. next', admitted'[i] \in DOMAIN seen'
                 PROVE  seen'[admitted'[i]] >= i - 1
      OBVIOUS
    <3>1. CASE admitted'[i] = id
      BY <1>1, <1>3, <1>6, <3>1
    <3>2. CASE admitted'[i] # id
      <4>1. i \in 1 .. next /\ admitted'[i] = admitted[i] /\ admitted[i] \in Kept
        BY <1>4, <1>5, <1>6, <3>2
      <4>2. QED
        BY <1>2, <1>6, <4>1 DEF CacheInv, NumberInv
    <3>3. QED
      BY <3>1, <3>2
  <2>3. QED
    BY <1>1, <1>4, <2>1, <2>2 DEF NumberInv
<1>9. WindowInv'
  <2> SUFFICES ASSUME NEW i \in 1 .. next', i >= next' - Half
               PROVE  admitted'[i] \in DOMAIN seen'
    BY DEF WindowInv, Half
  <2>1. CASE i = next + 1
    BY <1>2, <1>4, <2>1
  <2>2. CASE i \in 1 .. next
    <3>1. i >= next - Half /\ i - 1 >= next - Half
      BY <1>1, <1>3, <2>2, HalfFacts
    <3>2. admitted[i] \in DOMAIN seen /\ seen[admitted[i]] >= i - 1
      BY <2>2, <3>1 DEF CacheInv, WindowInv, NumberInv
    <3>3. seen[admitted[i]] >= next - Half
      BY <1>3, <2>2, <3>1, <3>2, HalfFacts DEF CacheType
    <3>4. admitted[i] \in Kept
      BY <3>2, <3>3 DEF Kept, Half
    <3>5. QED
      BY <1>2, <1>4, <2>2, <3>4
  <2>3. QED
    BY <1>5, <2>1, <2>2
<1>10. RepeatsFarApart'
  <2> SUFFICES ASSUME NEW i \in 1 .. next', NEW j \in 1 .. next', i < j,
                      admitted'[i] = admitted'[j]
               PROVE  j - i > Half + 1
    BY <1>1, <1>4 DEF RepeatsFarApart, Half
  <2>1. i \in 1 .. next /\ admitted'[i] = admitted[i]
    BY <1>1, <1>3, <1>4
  <2>2. CASE j \in 1 .. next
    BY <1>3, <1>4, <2>1, <2>2 DEF CacheInv, RepeatsFarApart, Half
  <2>3. CASE j = next + 1
    <3>1. admitted[i] \notin DOMAIN seen
      BY <1>4, <2>1, <2>3
    <3>2. ~(i >= next - Half)
      BY <2>1, <3>1 DEF CacheInv, WindowInv
    <3>3. QED
      BY <1>3, <2>1, <2>3, <3>2, HalfFacts
  <2>4. QED
    BY <1>5, <2>2, <2>3
<1>11. QED
  BY <1>7, <1>8, <1>9, <1>10 DEF CacheInv

\* Only a new signal touches the cache.
LEMMA CacheStep ==
  ASSUME CacheType, CacheInv, [Next]_vars
  PROVE  CacheType' /\ CacheInv'
<1>1. CASE UNCHANGED cacheVars
  BY <1>1 DEF CacheType, CacheInv, NumberInv, WindowInv, RepeatsFarApart, cacheVars, Half
<1>2. ASSUME NEW id \in Ids, Deliver(id) PROVE CacheType' /\ CacheInv'
  <2>1. CASE id \in DOMAIN seen
    BY <1>1, <1>2, <2>1 DEF Deliver
  <2>2. CASE id \notin DOMAIN seen
    BY <1>2, <2>2, RememberStep DEF Deliver
  <2>3. QED
    BY <2>1, <2>2
<1>3. QED
  BY <1>1, <1>2 DEF Next, Signals, LoopStep, CallbackPost, RouterSignal, CallbackSignal, Wake,
     Drain, Handle, HandledAll, LoopReturns, CloseBox, vars

-----------------------------------------------------------------------------
(* The mailbox and the session loop.                                       *)

BoxType ==
  /\ delivered \in 0 .. MaxDeliver
  /\ router \in {"receive", "signal"}
  /\ cpc \in [Callbacks -> {"idle", "signal", "done"}]
  /\ items \in Seq(Events) /\ Len(items) <= MaxMailbox
  /\ overflow \in BOOLEAN /\ closed \in BOOLEAN /\ notify \in BOOLEAN
  /\ lpc \in {"wait", "drain", "handle", "ending", "ended"}
  /\ batch \in Seq(Events) /\ posted \in Seq(Events) /\ handled \in Seq(Events)

BoxInv == BoxType /\ WakeupPending /\ ChainInv

LEMMA EmptySeq == <<>> \in Seq(Events) /\ Len(<<>>) = 0
  OBVIOUS

\* What Post leaves behind, while the loop stands still.
LEMMA PostStep ==
  ASSUME BoxType, ChainInv, NEW e \in Events, Post(e), UNCHANGED loopVars
  PROVE  /\ items' \in Seq(Events) /\ Len(items') <= MaxMailbox
         /\ overflow' \in BOOLEAN /\ closed' = closed /\ posted' \in Seq(Events)
         /\ closed => items' = items /\ overflow' = overflow
         /\ ChainInv'
<1> USE DEF loopVars
<1>1. CASE closed
  <2>1. UNCHANGED <<items, overflow, closed, posted, lpc, batch, handled>>
    BY <1>1 DEF Post, boxVars
  <2>2. ChainInv'
    BY <2>1 DEF ChainInv, Live, HandledNoGap
  <2>3. QED
    BY <1>1, <2>1, <2>2 DEF BoxType
<1>2. CASE ~closed
  <2>0. posted' = Append(posted, e) /\ closed' = closed /\ posted \in Seq(Events)
    BY <1>2 DEF Post, BoxType, boxVars
  <2>1. /\ posted' = Append(posted, e) /\ closed' = closed
        /\ Len(posted') = Len(posted) + 1 /\ posted' \in Seq(Events)
        /\ posted'[Len(posted) + 1] = e
        /\ \A i \in 1 .. Len(posted) : posted'[i] = posted[i]
    BY <2>0
  <2>2. Len(items) \in Nat /\ Len(posted) \in Nat /\ Len(batch) \in Nat /\ Len(handled) \in Nat
        /\ MaxMailbox \in Nat
    BY InboxAssumption DEF BoxType
  <2>3. HandledNoGap'
    BY <2>1, <2>2 DEF HandledNoGap, ChainInv
  <2>4. CASE Len(items) >= MaxMailbox
    <3>1. items' = items /\ overflow' = TRUE
      BY <1>2, <2>2, <2>4 DEF Post
    <3>2. ChainInv'
      BY <1>2, <2>1, <2>2, <2>3, <2>4, <3>1 DEF ChainInv, Live, BoxType
    <3>3. QED
      BY <1>2, <2>1, <3>1, <3>2 DEF BoxType
  <2>5. CASE Len(items) < MaxMailbox
    <3>1. items' = Append(items, e) /\ overflow' = overflow
      BY <1>2, <2>2, <2>5 DEF Post
    <3>2. /\ Len(items') = Len(items) + 1 /\ items' \in Seq(Events)
          /\ items'[Len(items) + 1] = e
          /\ \A i \in 1 .. Len(items) : items'[i] = items[i]
      BY <3>1 DEF BoxType
    <3>3. ChainInv'
      <4>1. CASE ~Live
        BY <1>2, <2>1, <2>3, <4>1 DEF ChainInv, Live
      <4>2. CASE Live
        <5>1. /\ ~overflow
              /\ Len(posted) = Len(handled) + Len(batch) + Len(items)
          BY <2>2, <2>5, <4>2 DEF ChainInv
        <5>2. \A i \in 1 .. Len(batch) : batch'[i] = posted'[Len(handled') + i]
          <6> SUFFICES ASSUME NEW i \in 1 .. Len(batch)
                       PROVE  batch'[i] = posted'[Len(handled') + i]
            OBVIOUS
          <6>1. batch' = batch /\ handled' = handled
            OBVIOUS
          <6>2. batch[i] = posted[Len(handled) + i]
            BY <4>2 DEF ChainInv
          <6>3. Len(handled) + i \in 1 .. Len(posted)
            BY <2>2, <5>1
          <6>4. QED
            BY <2>1, <6>1, <6>2, <6>3
        <5>3. \A i \in 1 .. Len(items') : items'[i] = posted'[Len(handled') + Len(batch') + i]
          <6> SUFFICES ASSUME NEW i \in 1 .. Len(items')
                       PROVE  items'[i] = posted'[Len(handled') + Len(batch') + i]
            OBVIOUS
          <6>1. CASE i = Len(items) + 1
            BY <2>1, <2>2, <3>2, <5>1, <6>1
          <6>2. CASE i \in 1 .. Len(items)
            <7>1. items'[i] = items[i] /\ items[i] = posted[Len(handled) + Len(batch) + i]
              BY <3>2, <4>2, <6>2 DEF ChainInv
            <7>2. Len(handled) + Len(batch) + i \in 1 .. Len(posted)
              BY <2>2, <5>1, <6>2
            <7>3. QED
              BY <2>1, <7>1, <7>2
          <6>3. QED
            BY <2>2, <3>2, <6>1, <6>2
        <5>4. QED
          <6>1. Len(posted') = Len(handled') + Len(batch') + Len(items')
            BY <2>1, <2>2, <3>2, <5>1
          <6>2. ~overflow' /\ ~closed' /\ (lpc' \in {"wait", "drain"} => batch' = <<>>)
            BY <1>2, <2>1, <3>1, <5>1 DEF ChainInv
          <6>3. Len(handled') + Len(batch') + Len(items') <= Len(posted')
            BY <2>1, <2>2, <3>2, <5>1
          <6>4. QED
            BY <2>3, <5>2, <5>3, <6>1, <6>2, <6>3 DEF ChainInv
      <4>3. QED
        BY <4>1, <4>2
    <3>4. QED
      BY <1>2, <2>1, <2>5, <2>2, <3>1, <3>2, <3>3 DEF BoxType
  <2>6. QED
    BY <2>2, <2>4, <2>5
<1>3. QED
  BY <1>1, <1>2

LEMMA DeliverStep ==
  ASSUME BoxInv, NEW id \in Ids, Deliver(id)
  PROVE  BoxInv'
<1>1. delivered' \in 0 .. MaxDeliver
  BY InboxAssumption DEF Deliver, BoxInv, BoxType
<1>2. UNCHANGED <<cpc, notify, lpc, batch, handled>>
  BY DEF Deliver, loopVars
<1>3. CASE id \in DOMAIN seen
  <2>1. UNCHANGED <<items, overflow, closed, posted, router>>
    BY <1>3 DEF Deliver, boxVars
  <2>2. BoxType'
    BY <1>1, <1>2, <2>1 DEF BoxInv, BoxType
  <2>3. WakeupPending' /\ ChainInv'
    BY <1>2, <2>1 DEF BoxInv, WakeupPending, ChainInv, Live, HandledNoGap
  <2>4. QED
    BY <2>2, <2>3 DEF BoxInv
<1>4. CASE id \notin DOMAIN seen
  <2>1. Post(id) /\ router' = (IF closed THEN "receive" ELSE "signal") /\ router = "receive"
    BY <1>4 DEF Deliver
  <2>2. id \in Events /\ UNCHANGED loopVars /\ BoxType /\ ChainInv
    BY <1>2 DEF Events, loopVars, BoxInv
  <2>3. /\ items' \in Seq(Events) /\ Len(items') <= MaxMailbox
        /\ overflow' \in BOOLEAN /\ closed' = closed /\ posted' \in Seq(Events)
        /\ closed => items' = items /\ overflow' = overflow
        /\ ChainInv'
    BY <2>1, <2>2, PostStep
  <2>4. BoxType'
    BY <1>1, <1>2, <2>1, <2>2, <2>3 DEF BoxType
  <2>5. WakeupPending'
    BY <1>2, <2>1, <2>3 DEF BoxInv, WakeupPending
  <2>6. QED
    BY <2>3, <2>4, <2>5 DEF BoxInv
<1>5. QED
  BY <1>3, <1>4

LEMMA CallbackStep ==
  ASSUME BoxInv, NEW c \in Callbacks, CallbackPost(c)
  PROVE  BoxInv'
<1>1. UNCHANGED <<delivered, router, notify, lpc, batch, handled>>
  BY DEF CallbackPost, loopVars
<1>2. /\ Post(c) /\ cpc[c] = "idle" /\ cpc' = [cpc EXCEPT ![c] = AfterPost]
      /\ c \in Events /\ UNCHANGED loopVars /\ BoxType /\ ChainInv
  BY DEF CallbackPost, Events, BoxInv
<1>3. /\ items' \in Seq(Events) /\ Len(items') <= MaxMailbox
      /\ overflow' \in BOOLEAN /\ closed' = closed /\ posted' \in Seq(Events)
      /\ closed => items' = items /\ overflow' = overflow
      /\ ChainInv'
  BY <1>2, PostStep
<1>4. AfterPost \in {"signal", "done"} /\ (~closed => AfterPost = "signal")
  BY DEF AfterPost
<1>5. /\ cpc' \in [Callbacks -> {"idle", "signal", "done"}]
      /\ ~closed => cpc'[c] = "signal"
      /\ \A d \in Callbacks : cpc[d] = "signal" => cpc'[d] = "signal"
  BY <1>2, <1>4 DEF BoxType
<1>6. BoxType'
  BY <1>1, <1>2, <1>3, <1>5 DEF BoxType
<1>7. WakeupPending'
  BY <1>1, <1>3, <1>5 DEF BoxInv, WakeupPending
<1>8. QED
  BY <1>3, <1>6, <1>7 DEF BoxInv

\* A wake-up token changes no event.
LEMMA SignalStep ==
  ASSUME BoxInv, Signals
  PROVE  BoxInv'
<1>1. notify' = TRUE /\ UNCHANGED <<delivered, items, overflow, closed, posted, lpc, batch, handled>>
  BY DEF Signals, RouterSignal, CallbackSignal, boxVars, loopVars
<1>2. /\ router' \in {"receive", "signal"}
      /\ cpc' \in [Callbacks -> {"idle", "signal", "done"}]
  BY DEF Signals, RouterSignal, CallbackSignal, BoxInv, BoxType
<1>3. BoxType'
  BY <1>1, <1>2 DEF BoxInv, BoxType
<1>4. WakeupPending'
  BY <1>1 DEF WakeupPending
<1>5. ChainInv'
  BY <1>1 DEF BoxInv, ChainInv, Live, HandledNoGap
<1>6. QED
  BY <1>3, <1>4, <1>5 DEF BoxInv

LEMMA LoopKeeps ==
  ASSUME BoxInv, LoopStep \/ LoopReturns
  PROVE  BoxInv'
<1> USE DEF boxVars, loopVars
<1>0. Len(items) \in Nat /\ Len(posted) \in Nat /\ Len(batch) \in Nat /\ Len(handled) \in Nat
  BY DEF BoxInv, BoxType
<1>1. CASE Wake
  <2>1. /\ lpc = "wait" /\ lpc' = "drain" /\ notify' = FALSE
        /\ UNCHANGED <<delivered, router, cpc, items, overflow, closed, posted, batch, handled>>
    BY <1>1 DEF Wake
  <2>2. BoxType'
    BY <2>1 DEF BoxInv, BoxType
  <2>3. WakeupPending' /\ ChainInv'
    BY <2>1 DEF BoxInv, WakeupPending, ChainInv, Live, HandledNoGap
  <2>4. QED
    BY <2>2, <2>3 DEF BoxInv
<1>2. CASE Drain
  <2>1. /\ lpc = "drain" /\ items' = <<>> /\ overflow' = FALSE
        /\ batch' = (IF overflow THEN <<>> ELSE items)
        /\ lpc' = (IF overflow THEN "ending" ELSE "handle")
        /\ UNCHANGED <<delivered, router, cpc, closed, posted, notify, handled>>
    BY <1>2 DEF Drain
  <2>2. BoxType'
    <3>1. /\ items' \in Seq(Events) /\ Len(items') <= MaxMailbox /\ batch' \in Seq(Events)
          /\ lpc' \in {"wait", "drain", "handle", "ending", "ended"}
      BY <2>1, EmptySeq, InboxAssumption DEF BoxInv, BoxType
    <3>2. QED
      BY <2>1, <3>1 DEF BoxInv, BoxType
  <2>3. WakeupPending'
    BY <2>1 DEF WakeupPending
  <2>4. HandledNoGap'
    BY <2>1 DEF BoxInv, ChainInv, HandledNoGap
  <2>5. CASE overflow
    BY <2>1, <2>2, <2>3, <2>4, <2>5 DEF BoxInv, ChainInv, Live
  <2>6. CASE ~overflow
    <3>1. batch = <<>> /\ batch' = items /\ lpc' = "handle" /\ Live
      BY <2>1, <2>6 DEF BoxInv, ChainInv, Live
    <3>2. Len(batch) = 0 /\ Len(items') = 0
      BY <2>1, <3>1
    <3>3. \A i \in 1 .. Len(batch') : batch'[i] = posted'[Len(handled') + i]
      BY <1>0, <2>1, <3>1, <3>2 DEF BoxInv, ChainInv
    <3>4. Len(posted') = Len(handled') + Len(batch') + Len(items')
      BY <1>0, <2>1, <2>6, <3>1, <3>2 DEF BoxInv, ChainInv
    <3>5. ~closed' /\ ~overflow'
      BY <2>1, <3>1 DEF BoxInv, ChainInv
    <3>6. ChainInv'
      BY <1>0, <2>1, <2>4, <3>1, <3>2, <3>3, <3>4, <3>5 DEF ChainInv, Live
    <3>7. QED
      BY <2>2, <2>3, <3>6 DEF BoxInv
  <2>7. QED
    BY <2>5, <2>6
<1>3. CASE Handle
  <2>1. /\ lpc = "handle" /\ batch # <<>> /\ handled' = Append(handled, Head(batch))
        /\ \/ batch' = Tail(batch) /\ lpc' = lpc
           \/ batch' = <<>> /\ lpc' = "ending"
        /\ UNCHANGED <<delivered, router, cpc, items, overflow, closed, posted, notify>>
    BY <1>3 DEF Handle
  <2>2. batch \in Seq(Events) /\ handled \in Seq(Events) /\ Live /\ ChainInv
    BY <2>1 DEF BoxInv, BoxType, Live
  <2>3. /\ Len(batch) >= 1 /\ Head(batch) = batch[1] /\ Head(batch) \in Events
        /\ Tail(batch) \in Seq(Events) /\ Len(Tail(batch)) = Len(batch) - 1
        /\ \A i \in 1 .. Len(Tail(batch)) : Tail(batch)[i] = batch[i + 1]
    BY <2>1, <2>2
  <2>4. /\ handled' \in Seq(Events) /\ Len(handled') = Len(handled) + 1
        /\ handled'[Len(handled) + 1] = batch[1]
        /\ \A i \in 1 .. Len(handled) : handled'[i] = handled[i]
    BY <2>1, <2>2, <2>3
  <2>5. BoxType'
    <3>1. batch' \in Seq(Events)
      BY <2>1, <2>3, EmptySeq
    <3>2. QED
      BY <2>1, <2>4, <3>1 DEF BoxInv, BoxType
  <2>6. WakeupPending'
    BY <2>1 DEF BoxInv, WakeupPending
  <2>7. HandledNoGap'
    <3>1. Len(handled') <= Len(posted')
      BY <1>0, <2>1, <2>2, <2>3, <2>4 DEF ChainInv
    <3>2. batch[1] = posted[Len(handled) + 1]
      BY <1>0, <2>2, <2>3 DEF ChainInv
    <3>3. \A i \in 1 .. Len(handled') : handled'[i] = posted'[i]
      BY <1>0, <2>1, <2>2, <2>4, <3>2 DEF ChainInv, HandledNoGap
    <3>4. QED
      BY <3>1, <3>3 DEF HandledNoGap
  <2>8. CASE batch' = <<>> /\ lpc' = "ending"
    BY <2>1, <2>2, <2>5, <2>6, <2>7, <2>8 DEF BoxInv, ChainInv, Live
  <2>9. CASE batch' = Tail(batch) /\ lpc' = lpc
    <3>1. \A i \in 1 .. Len(batch') : batch'[i] = posted'[Len(handled') + i]
      <4> SUFFICES ASSUME NEW i \in 1 .. Len(batch')
                   PROVE  batch'[i] = posted'[Len(handled') + i]
        OBVIOUS
      <4>1. batch'[i] = batch[i + 1] /\ i + 1 \in 1 .. Len(batch)
        BY <1>0, <2>3, <2>9
      <4>2. batch[i + 1] = posted[Len(handled) + (i + 1)]
        BY <2>2, <4>1 DEF ChainInv
      <4>3. Len(handled) + (i + 1) = Len(handled') + i
        BY <1>0, <2>3, <2>4, <2>9
      <4>4. QED
        BY <2>1, <4>1, <4>2, <4>3
    <3>2. Len(handled') + Len(batch') = Len(handled) + Len(batch)
      BY <1>0, <2>3, <2>4, <2>9
    <3>3. /\ \A i \in 1 .. Len(items') : items'[i] = posted'[Len(handled') + Len(batch') + i]
          /\ Len(handled') + Len(batch') + Len(items') <= Len(posted')
          /\ ~overflow' => Len(posted') = Len(handled') + Len(batch') + Len(items')
          /\ overflow' => Len(items') = MaxMailbox
          /\ ~closed'
      BY <2>1, <2>2, <3>2 DEF ChainInv
    <3>4. ChainInv'
      BY <2>1, <2>7, <2>9, <3>1, <3>3 DEF ChainInv, Live
    <3>5. QED
      BY <2>5, <2>6, <3>4 DEF BoxInv
  <2>10. QED
    BY <2>1, <2>8, <2>9
<1>4. CASE HandledAll
  <2>1. /\ lpc = "handle" /\ batch = <<>> /\ lpc' = "wait"
        /\ UNCHANGED <<delivered, router, cpc, items, overflow, closed, posted, notify, batch, handled>>
    BY <1>4 DEF HandledAll
  <2>2. BoxType'
    BY <2>1 DEF BoxInv, BoxType
  <2>3. WakeupPending' /\ ChainInv'
    BY <2>1 DEF BoxInv, WakeupPending, ChainInv, Live, HandledNoGap
  <2>4. QED
    BY <2>2, <2>3 DEF BoxInv
<1>5. CASE LoopReturns
  <2>1. /\ lpc = "wait" /\ lpc' = "ending"
        /\ UNCHANGED <<delivered, router, cpc, items, overflow, closed, posted, notify, batch, handled>>
    BY <1>5 DEF LoopReturns
  <2>2. BoxType'
    BY <2>1 DEF BoxInv, BoxType
  <2>3. WakeupPending' /\ ChainInv'
    BY <2>1 DEF BoxInv, WakeupPending, ChainInv, Live, HandledNoGap
  <2>4. QED
    BY <2>2, <2>3 DEF BoxInv
<1>6. CASE CloseBox
  <2>1. /\ lpc = "ending" /\ lpc' = "ended" /\ closed' = TRUE /\ items' = <<>>
        /\ UNCHANGED <<delivered, router, cpc, overflow, posted, notify, batch, handled>>
    BY <1>6 DEF CloseBox
  <2>2. BoxType'
    BY <2>1, InboxAssumption DEF BoxInv, BoxType
  <2>3. WakeupPending' /\ ChainInv'
    BY <2>1 DEF BoxInv, WakeupPending, ChainInv, Live, HandledNoGap
  <2>4. QED
    BY <2>2, <2>3 DEF BoxInv
<1>7. QED
  BY <1>1, <1>2, <1>3, <1>4, <1>5, <1>6 DEF LoopStep

-----------------------------------------------------------------------------
(* The invariant.                                                          *)

LEMMA Parts == InboxInv <=> CacheType /\ CacheInv /\ BoxInv
  BY DEF InboxInv, TypeOK, CacheType, BoxInv, BoxType

LEMMA InitInv == Init => InboxInv
<1> SUFFICES ASSUME Init PROVE CacheType /\ CacheInv /\ BoxInv
  BY Parts
<1>1. CacheType
  <2>1. DOMAIN seen = {}
    BY DEF Init
  <2>2. Cardinality(DOMAIN seen) = 0
    BY <2>1, FS_EmptySet
  <2>3. QED
    BY <2>1, <2>2, InboxAssumption DEF Init, CacheType
<1>2. CacheInv
  BY DEF Init, CacheInv, NumberInv, WindowInv, RepeatsFarApart
<1>3. BoxType
  <2>1. cpc \in [Callbacks -> {"idle", "signal", "done"}] /\ delivered \in 0 .. MaxDeliver
    BY InboxAssumption DEF Init
  <2>2. items \in Seq(Events) /\ batch \in Seq(Events) /\ posted \in Seq(Events) /\ handled \in Seq(Events)
        /\ Len(items) <= MaxMailbox
    BY EmptySeq, InboxAssumption DEF Init
  <2>3. QED
    BY <2>1, <2>2 DEF Init, BoxType
<1>4. WakeupPending /\ ChainInv
  BY InboxAssumption DEF Init, WakeupPending, ChainInv, Live, HandledNoGap
<1>5. QED
  BY <1>1, <1>2, <1>3, <1>4 DEF BoxInv

LEMMA StepInv == InboxInv /\ [Next]_vars => InboxInv'
<1> SUFFICES ASSUME CacheType, CacheInv, BoxInv, [Next]_vars
             PROVE  CacheType' /\ CacheInv' /\ BoxInv'
  BY Parts, PTL
<1>1. CacheType' /\ CacheInv'
  BY CacheStep
<1>2. CASE UNCHANGED vars
  <2>1. UNCHANGED <<delivered, router, cpc, items, overflow, closed, posted, notify, lpc, batch, handled>>
    BY <1>2 DEF vars, boxVars, loopVars
  <2>2. BoxType'
    BY <2>1 DEF BoxInv, BoxType
  <2>3. WakeupPending' /\ ChainInv'
    BY <2>1 DEF BoxInv, WakeupPending, ChainInv, Live, HandledNoGap
  <2>4. QED
    BY <1>1, <2>2, <2>3 DEF BoxInv
<1>3. CASE \E id \in Ids : Deliver(id)
  BY <1>1, <1>3, DeliverStep
<1>4. CASE \E c \in Callbacks : CallbackPost(c)
  BY <1>1, <1>4, CallbackStep
<1>5. CASE Signals
  BY <1>1, <1>5, SignalStep
<1>6. CASE LoopStep \/ LoopReturns
  BY <1>1, <1>6, LoopKeeps
<1>7. QED
  BY <1>2, <1>3, <1>4, <1>5, <1>6 DEF Next

LEMMA Invariant == Spec => []InboxInv
  BY InitInv, StepInv, PTL DEF Spec

\* The types, with the mailbox and the cache within their capacities
\* (maxMailbox, dedupeCacheSize), in every behaviour of the receive loop, the
\* callbacks and the session loop.
THEOREM TypeCorrect == Spec => []TypeOK
<1>1. InboxInv => TypeOK
  BY DEF InboxInv
<1>2. QED
  BY Invariant, <1>1, PTL

\* seenBefore lets a signal through twice only when more than half the cache's
\* capacity of other signals was let through in between.
THEOREM RepeatsApart == Spec => []RepeatsFarApart
<1>1. InboxInv => RepeatsFarApart
  BY DEF InboxInv, CacheInv
<1>2. QED
  BY Invariant, <1>1, PTL

\* post never loses the session loop's wake-up, although it signals after it
\* has released the mutex.
THEOREM NoLostWakeup == Spec => []WakeupPending
<1>1. InboxInv => WakeupPending
  BY DEF InboxInv
<1>2. QED
  BY Invariant, <1>1, PTL

\* The session handles a prefix of what was posted: an overflow ends it before
\* it can handle an event that came after a lost one.
THEOREM HandledInOrder == Spec => []HandledNoGap
<1>1. InboxInv => HandledNoGap
  BY DEF InboxInv, ChainInv
<1>2. QED
  BY Invariant, <1>1, PTL
=============================================================================
