------------------------------ MODULE SseProofs ------------------------------
(***************************************************************************)
(* What TLAPS proves of Sse, for any number of clients, posters, streams,  *)
(* records and signals, and any depth of the queue and the replay window.  *)
(***************************************************************************)
EXTENDS Sse, SequenceTheorems, TLAPS

RecordStates ==
  [made : BOOLEAN, seq : Nat, sentUpTo : Nat, log : Seq(Nat), stream : Streams \cup {None},
   down : BOOLEAN, timer : BOOLEAN, expire : {"idle", "fired", "forget"}]

GetStates ==
  [pc : {"none", "request", "attach", "take", "wait", "detach", "gone"},
   client : Clients \cup {None}, last : Nat, rec : Records \cup {None}, wake : BOOLEAN,
   end : {"none", "replaced", "shutdown"}, conn : {"up", "eof", "cut"}, wire : Seq(Events)]

PostStates == [pc : {"idle", "enqueue", "poke"}, rec : Records \cup {None},
               stream : Streams \cup {None}]

ClientStates ==
  [pc : {"connect", "stream", "over"}, get : Streams \cup {None}, lastID : Nat,
   from : Records \cup {None}, stale : BOOLEAN, floor : Nat]

Types ==
  /\ peers \in Records \cup {None} /\ closed \in BOOLEAN /\ doomed \subseteq Records
  /\ rec \in [Records -> RecordStates]
  /\ get \in [Streams -> GetStates]
  /\ post \in [Posters -> PostStates]
  /\ cli \in [Clients -> ClientStates]

(* The log of a record p.  What has been sent is at most ReplayDepth       *)
(* signals beyond what was let go of, as taking what is unsent trims the   *)
(* log: with the limit of enqueue this bounds the log.                     *)

Floor(p) == p.seq - Len(p.log)

LogInv(p) ==
  /\ Len(p.log) <= p.seq /\ p.sentUpTo <= p.seq
  /\ \A i \in 1 .. Len(p.log) : p.log[i] = Floor(p) + i
  /\ Len(p.log) <= QueueSize + ReplayDepth
  /\ p.down => p.log = <<>>
  /\ ~p.down => Floor(p) <= p.sentUpTo /\ p.sentUpTo <= Floor(p) + ReplayDepth

LogsInv == \A r \in Records : LogInv(rec[r])

(* Handlers.  A record's stream is a handler that serves that record and   *)
(* has not detached yet.                                                   *)

Numbered(w) == \A i \in 1 .. Len(w) : w[i].event = "signal" => w[i].id >= 1

AllSignals(w) == \A i \in 1 .. Len(w) : w[i].event = "signal"

HandlerInv(h) ==
  /\ h.pc \in {"request", "attach"} => h.client \in Clients /\ h.wire = <<>>
  /\ h.pc \in {"attach", "take", "wait", "detach"} => h.rec \in Records
  /\ h.pc \in Serving => AllSignals(h.wire)
  /\ h.conn = "cut" => h.wire = <<>>
  /\ Numbered(h.wire)

PostInv(p) ==
  /\ p.pc = "enqueue" => p.rec \in Records
  /\ p.pc = "poke" => p.stream \in Streams

RequestsInv ==
  /\ \A g \in Streams : HandlerInv(get[g])
  /\ \A p \in Posters : PostInv(post[p])
  /\ \A r \in Records : \A g \in Streams : rec[r].stream = g =>
       get[g].rec = r /\ get[g].pc \in {"take", "wait", "detach"}

(* Clients.  The signals on a wire w go on where the client is, at base b, *)
(* each at most one further than the one before; and the record goes on    *)
(* sending from the last of them.                                          *)

Chain(w, b) ==
  \A i \in 1 .. Len(w) : w[i].event = "signal" =>
    w[i].id <= 1 + (IF i = 1 THEN b ELSE w[i - 1].id)

End(w, b) == IF w = <<>> THEN b ELSE w[Len(w)].id

Base(c) == IF c.lastID > c.floor THEN c.lastID ELSE c.floor

\* The signals on the wire w are of one record, the one that the client knows.
OneRecord(w, from) ==
  /\ \A i \in 1 .. Len(w) : w[i].event = "signal" => from = None \/ from = w[i].rec
  /\ \A i, j \in 1 .. Len(w) :
       w[i].event = "signal" /\ w[j].event = "signal" => w[i].rec = w[j].rec

\* Handler h is at its record with client c at the other end.
AtRecord(h, from) ==
  /\ from = None \/ from = h.rec
  /\ \A i \in 1 .. Len(h.wire) : h.wire[i].rec = h.rec

Follows(c, h) ==
  /\ Chain(h.wire, Base(c))
  /\ OneRecord(h.wire, c.from)
  /\ h.pc \in Serving => AtRecord(h, c.from)

ClientInv(c) ==
  /\ cli[c].pc = "stream" <=> cli[c].get # None
  /\ cli[c].from = None <=> cli[c].lastID = 0
  /\ cli[c].get # None =>
       LET g == cli[c].get
       IN  /\ get[g].pc # "none"
           /\ get[g].pc \in {"request", "attach"} =>
                get[g].client = c /\ get[g].last = cli[c].lastID
           /\ ~cli[c].stale => Follows(cli[c], get[g])
           /\ ~cli[c].stale /\ get[g].pc \in Serving /\ get[g].conn = "up"
                /\ rec[get[g].rec].stream = g
                => rec[get[g].rec].sentUpTo <= End(get[g].wire, Base(cli[c]))

ClientsInv ==
  /\ \A c \in Clients : ClientInv(c)
  /\ \A c, d \in Clients : cli[c].get # None /\ cli[c].get = cli[d].get => c = d

SseInv == Types /\ LogsInv /\ RequestsInv /\ NoLostWake /\ ClientsInv

-----------------------------------------------------------------------------
(* What the operations do to the log of a record.                          *)

\* In a log of the numbers from F + 1 on, the first beyond u.
LEMMA FirstBeyond ==
  ASSUME NEW log \in Seq(Nat), NEW F \in Nat, NEW u \in Nat, F <= u, u < F + Len(log),
         \A i \in 1 .. Len(log) : log[i] = F + i
  PROVE  /\ (u - F) + 1 \in 1 .. Len(log)
         /\ Min({i \in DOMAIN log : log[i] > u}) = (u - F) + 1
<1> DEFINE later == {i \in DOMAIN log : log[i] > u}
<1>1. Len(log) \in Nat /\ DOMAIN log = 1 .. Len(log)
  OBVIOUS
<1>2. PICK k \in 1 .. Len(log) : k = (u - F) + 1
  BY <1>1
<1>3. log[k] = F + k
  BY <1>2
<1>4. k \in later
  BY <1>1, <1>2, <1>3
<1>5. ASSUME NEW i \in later PROVE k <= i
  <2>1. i \in 1 .. Len(log) /\ log[i] = F + i /\ log[i] > u
    BY <1>1
  <2>2. QED
    BY <1>2, <2>1
<1>6. Min(later) \in later /\ \A i \in later : Min(later) <= i
  BY <1>4, <1>5 DEF Min
<1>7. Min(later) <= k /\ k <= Min(later) /\ Min(later) \in Nat
  BY <1>1, <1>4, <1>5, <1>6
<1>8. QED
  BY <1>2, <1>7

\* The newest d numbers of such a log, of which q is the last.
LEMMA WindowOf ==
  ASSUME NEW log \in Seq(Nat), NEW q \in Nat, Len(log) <= q, NEW d \in Nat, d <= Len(log),
         \A i \in 1 .. Len(log) : log[i] = q - Len(log) + i
  PROVE  /\ SubSeq(log, Len(log) - d + 1, Len(log)) \in Seq(Nat)
         /\ Len(SubSeq(log, Len(log) - d + 1, Len(log))) = d
         /\ \A i \in 1 .. d : SubSeq(log, Len(log) - d + 1, Len(log))[i] = (q - d) + i
<1>1. PICK L \in Nat, k \in Nat : L = Len(log) /\ k = Len(log) - d + 1
  OBVIOUS
<1>2. \A i \in k .. L : log[i] \in Nat
  BY <1>1
<1>3. /\ SubSeq(log, k, L) \in Seq(Nat)
      /\ Len(SubSeq(log, k, L)) = IF k <= L THEN L - k + 1 ELSE 0
      /\ \A i \in 1 .. L - k + 1 : SubSeq(log, k, L)[i] = log[k + i - 1]
  BY <1>2, SubSeqProperties
<1>4. L - k + 1 = d /\ (k <= L <=> d > 0)
  BY <1>1
<1>5. Len(SubSeq(log, k, L)) = d
  BY <1>3, <1>4
<1>6. ASSUME NEW i \in 1 .. d
      PROVE  SubSeq(log, k, L)[i] = (q - d) + i
  <2>1. SubSeq(log, k, L)[i] = log[k + i - 1]
    BY <1>3, <1>4
  <2>2. k + i - 1 \in 1 .. L
    BY <1>1
  <2>3. log[k + i - 1] = q - L + (k + i - 1)
    BY <1>1, <2>2
  <2>4. q - L + (k + i - 1) = (q - d) + i
    BY <1>1
  <2>5. QED
    BY <2>1, <2>3, <2>4
<1>7. QED
  BY <1>1, <1>3, <1>5, <1>6

\* What is unsent is a run of numbers that ends with the newest.
LEMMA UnsentIs ==
  ASSUME NEW p \in RecordStates, LogInv(p)
  PROVE  /\ Unsent(p) \in Seq(Nat)
         /\ p.down => Unsent(p) = <<>>
         /\ ~p.down => Len(Unsent(p)) = p.seq - p.sentUpTo
         /\ \A i \in 1 .. Len(Unsent(p)) : Unsent(p)[i] = p.sentUpTo + i
<1>1. /\ p.log \in Seq(Nat) /\ p.seq \in Nat /\ p.sentUpTo \in Nat /\ p.down \in BOOLEAN
      /\ Len(p.log) \in Nat /\ Floor(p) \in Nat /\ DOMAIN p.log = 1 .. Len(p.log)
      /\ \A i \in 1 .. Len(p.log) : p.log[i] = Floor(p) + i
      /\ Floor(p) + Len(p.log) = p.seq
  BY DEF RecordStates, LogInv, Floor
<1>2. PICK log \in Seq(Nat), u \in Nat, F \in Nat, q \in Nat, L \in Nat :
             log = p.log /\ u = p.sentUpTo /\ F = Floor(p) /\ q = p.seq /\ L = Len(p.log)
  BY <1>1
<1> DEFINE later == {i \in DOMAIN log : log[i] > u}
<1>3. /\ \A i \in 1 .. Len(log) : log[i] = F + i
      /\ Len(log) = L /\ DOMAIN log = 1 .. L
  BY <1>1, <1>2
<1>0. F + L = q
  BY <1>1, <1>2
<1>4. /\ Unsent(p) = SubSeq(log, IF later = {} THEN L + 1 ELSE Min(later), L)
      /\ p.down => log = <<>>
      /\ ~p.down => F <= u /\ u <= q
  BY <1>2 DEF Unsent, LogInv
<1>5. CASE later = {}
  <2>1. Unsent(p) = SubSeq(log, L + 1, L)
    BY <1>4, <1>5
  <2>2. Unsent(p) = <<>> /\ Len(Unsent(p)) = 0
    BY <2>1, SubSeqEmpty
  <2>3. ~p.down => q = u
    <3> SUFFICES ASSUME ~p.down, q # u PROVE FALSE
      OBVIOUS
    <3>1. F <= u /\ u < F + L
      BY <1>0, <1>4
    <3>2. (u - F) + 1 \in 1 .. L
      BY <1>3, <3>1, FirstBeyond
    <3>3. log[(u - F) + 1] = F + ((u - F) + 1)
      BY <1>3, <3>2
    <3>4. (u - F) + 1 \in later
      BY <1>3, <3>2, <3>3
    <3>5. QED
      BY <1>5, <3>4
  <2>4. QED
    BY <1>1, <1>2, <2>2, <2>3
<1>6. CASE later # {}
  <2>1. PICK j \in 1 .. L : log[j] > u
    BY <1>3, <1>6
  <2>2. ~p.down
    BY <1>3, <1>4, <2>1, EmptySeq
  <2>3. F <= u /\ u < F + L
    BY <1>0, <1>3, <1>4, <2>1, <2>2
  <2>4. (u - F) + 1 \in 1 .. L /\ Min(later) = (u - F) + 1
    BY <1>3, <2>3, FirstBeyond
  <2>5. PICK m \in Nat : m = q - u
    BY <1>0, <2>3
  <2>6. /\ m <= L /\ L <= q /\ (u - F) + 1 = L - m + 1 /\ q - m = u
        /\ \A i \in 1 .. L : log[i] = q - L + i
    BY <1>0, <1>3, <2>3, <2>5
  <2>7. Unsent(p) = SubSeq(log, L - m + 1, L)
    BY <1>4, <1>6, <2>4, <2>6
  <2>8. /\ SubSeq(log, L - m + 1, L) \in Seq(Nat) /\ Len(SubSeq(log, L - m + 1, L)) = m
        /\ \A i \in 1 .. m : SubSeq(log, L - m + 1, L)[i] = (q - m) + i
    <3>1. Len(log) <= q /\ m <= Len(log) /\ \A i \in 1 .. Len(log) : log[i] = q - Len(log) + i
      BY <1>3, <2>6
    <3>2. /\ SubSeq(log, Len(log) - m + 1, Len(log)) \in Seq(Nat)
          /\ Len(SubSeq(log, Len(log) - m + 1, Len(log))) = m
          /\ \A i \in 1 .. m : SubSeq(log, Len(log) - m + 1, Len(log))[i] = (q - m) + i
      BY <3>1, WindowOf
    <3>3. QED
      BY <1>3, <3>2
  <2>9. Len(Unsent(p)) = p.seq - p.sentUpTo
    BY <1>2, <2>5, <2>7, <2>8
  <2>10. Unsent(p) \in Seq(Nat) /\ \A i \in 1 .. Len(Unsent(p)) : Unsent(p)[i] = (q - m) + i
    BY <2>7, <2>8
  <2>11. q - m = p.sentUpTo
    BY <1>2, <2>6
  <2>12. QED
    BY <2>2, <2>9, <2>10, <2>11
<1>7. QED
  BY <1>5, <1>6

\* takeUnsent: everything counts as sent, and the replay window is kept.
Taken(p) ==
  [p EXCEPT !.sentUpTo = IF Unsent(p) = <<>> THEN p.sentUpTo ELSE Last(Unsent(p)),
            !.log = IF Len(p.log) > ReplayDepth
                    THEN SubSeq(p.log, Len(p.log) - ReplayDepth + 1, Len(p.log))
                    ELSE p.log]

LEMMA TakenKeepsLog ==
  ASSUME NEW p \in RecordStates, LogInv(p)
  PROVE  /\ Taken(p) \in RecordStates /\ LogInv(Taken(p))
         /\ ~p.down => Taken(p).sentUpTo = p.seq
         /\ Taken(p).sentUpTo = p.sentUpTo + Len(Unsent(p))
<1> DEFINE L == Len(p.log)
           extra == L - ReplayDepth
           s == IF Unsent(p) = <<>> THEN p.sentUpTo ELSE Last(Unsent(p))
           l == IF L > ReplayDepth THEN SubSeq(p.log, extra + 1, L) ELSE p.log
<1>1. /\ p.log \in Seq(Nat) /\ p.seq \in Nat /\ p.sentUpTo \in Nat /\ p.down \in BOOLEAN
      /\ L \in Nat /\ L <= p.seq
      /\ \A i \in 1 .. L : p.log[i] = p.seq - L + i
      /\ ReplayDepth \in Nat \ {0} /\ QueueSize \in Nat
  BY SseAssumption DEF RecordStates, LogInv, Floor
<1>2. s \in Nat /\ s = p.sentUpTo + Len(Unsent(p)) /\ (~p.down => s = p.seq)
  <2>1. /\ Unsent(p) \in Seq(Nat)
        /\ ~p.down => Len(Unsent(p)) = p.seq - p.sentUpTo
        /\ \A i \in 1 .. Len(Unsent(p)) : Unsent(p)[i] = p.sentUpTo + i
        /\ p.down => Unsent(p) = <<>>
    BY UnsentIs
  <2>2. CASE Unsent(p) = <<>>
    BY <1>1, <2>1, <2>2
  <2>3. CASE Unsent(p) # <<>>
    <3>1. Len(Unsent(p)) \in Nat \ {0}
      BY <2>1, <2>3, EmptySeq
    <3>2. Last(Unsent(p)) = p.sentUpTo + Len(Unsent(p))
      BY <2>1, <3>1 DEF Last
    <3>3. QED
      BY <1>1, <2>1, <2>3, <3>1, <3>2
  <2>4. QED
    BY <2>2, <2>3
<1>3. /\ l \in Seq(Nat) /\ Len(l) \in Nat /\ Len(l) <= L
      /\ Len(l) <= ReplayDepth
      /\ \A i \in 1 .. Len(l) : l[i] = p.seq - Len(l) + i
  <2>1. CASE L <= ReplayDepth
    BY <1>1, <2>1
  <2>2. CASE L > ReplayDepth
    <3>1. l = SubSeq(p.log, extra + 1, L)
      BY <2>2
    <3>2. /\ SubSeq(p.log, extra + 1, L) \in Seq(Nat)
          /\ Len(SubSeq(p.log, extra + 1, L)) = ReplayDepth
          /\ \A i \in 1 .. ReplayDepth : SubSeq(p.log, extra + 1, L)[i] = (p.seq - ReplayDepth) + i
      <4>1. PICK log \in Seq(Nat), q \in Nat, d \in Nat :
              log = p.log /\ q = p.seq /\ d = ReplayDepth
        BY <1>1
      <4>2. Len(log) <= q /\ d < Len(log) /\ \A i \in 1 .. Len(log) : log[i] = q - Len(log) + i
        BY <1>1, <2>2, <4>1
      <4>3. /\ SubSeq(log, Len(log) - d + 1, Len(log)) \in Seq(Nat)
            /\ Len(SubSeq(log, Len(log) - d + 1, Len(log))) = d
            /\ \A i \in 1 .. d : SubSeq(log, Len(log) - d + 1, Len(log))[i] = (q - d) + i
        BY <4>2, WindowOf, SMTT(20)
      <4>4. QED
        BY <4>1, <4>3
    <3> HIDE DEF l
    <3>3. l \in Seq(Nat) /\ Len(l) = ReplayDepth
          /\ \A i \in 1 .. ReplayDepth : l[i] = (p.seq - ReplayDepth) + i
      BY <3>1, <3>2
    <3>4. Len(l) \in Nat /\ Len(l) <= L /\ Len(l) <= ReplayDepth
      BY <1>1, <2>2, <3>3
    <3>5. QED
      BY <3>3, <3>4
  <2>3. QED
    BY <1>1, <2>1, <2>2
<1>4. Taken(p) = [p EXCEPT !.sentUpTo = s, !.log = l]
  BY DEF Taken
<1> HIDE DEF s, l
<1>5. Taken(p) \in RecordStates
  BY <1>2, <1>3, <1>4 DEF RecordStates
<1>6. Taken(p).sentUpTo = s /\ Taken(p).log = l /\ Taken(p).seq = p.seq /\ Taken(p).down = p.down
  BY <1>4 DEF RecordStates
<1>7. p.down => l = <<>>
  BY <1>1 DEF l, LogInv
<1>8. s <= p.seq
  BY <1>1, <1>2, UnsentIs DEF LogInv
<1>9. LogInv(Taken(p))
  <2>1. PICK q : q = Taken(p)
    OBVIOUS
  <2>2. q.sentUpTo = s /\ q.log = l /\ q.seq = p.seq /\ q.down = p.down
    BY <1>6, <2>1
  <2>3. /\ Len(l) <= p.seq /\ Len(l) <= QueueSize + ReplayDepth
        /\ p.seq - Len(l) <= p.seq /\ p.seq <= (p.seq - Len(l)) + ReplayDepth
    BY <1>1, <1>3
  <2>4. LogInv(q)
    BY <1>2, <1>3, <1>7, <1>8, <2>2, <2>3 DEF LogInv, Floor
  <2>5. QED
    BY <2>1, <2>4
<1>10. QED
  BY <1>2, <1>5, <1>6, <1>9

\* attach: a rewound record goes on from what the stream has, or from the oldest
\* signal of its log.
LEMMA RewoundKeepsLog ==
  ASSUME NEW p \in RecordStates, LogInv(p), NEW last \in Nat, NEW q \in RecordStates,
         q.sentUpTo = Rewound(p, last), q.log = p.log, q.seq = p.seq, q.down = p.down
  PROVE  /\ LogInv(q)
         /\ Rewound(p, last) <= IF last > Floor(p) THEN last ELSE Floor(p)
<1>1. /\ p.log \in Seq(Nat) /\ p.seq \in Nat /\ p.sentUpTo \in Nat /\ p.down \in BOOLEAN
      /\ Len(p.log) \in Nat /\ Floor(p) \in Nat /\ Floor(p) = p.seq - Len(p.log)
      /\ ReplayDepth \in Nat \ {0}
  BY SseAssumption DEF RecordStates, LogInv, Floor
<1>2. (IF p.log = <<>> THEN p.seq ELSE p.log[1] - 1) = Floor(p)
  <2>1. CASE p.log = <<>>
    BY <1>1, <2>1
  <2>2. CASE p.log # <<>>
    <3>1. Len(p.log) >= 1
      BY <1>1, <2>2, EmptySeq
    <3>2. p.log[1] = Floor(p) + 1
      BY <1>1, <3>1 DEF LogInv
    <3>3. QED
      BY <1>1, <2>2, <3>2
  <2>3. QED
    BY <2>1, <2>2
<1>3. Rewound(p, last) = IF last < p.sentUpTo THEN (IF last > Floor(p) THEN last ELSE Floor(p))
                         ELSE p.sentUpTo
  BY <1>2 DEF Rewound
<1>4. Floor(q) = Floor(p)
  BY DEF Floor
<1>5. p.down => Floor(p) = p.seq
  BY <1>1 DEF LogInv
<1>6. Rewound(p, last) <= p.seq
  BY <1>1, <1>3 DEF LogInv
<1>7. ~p.down => Floor(p) <= Rewound(p, last) /\ Rewound(p, last) <= Floor(p) + ReplayDepth
  BY <1>1, <1>3 DEF LogInv
<1>8. LogInv(q)
  BY <1>4, <1>6, <1>7 DEF LogInv
<1>9. QED
  BY <1>1, <1>3, <1>8

\* enqueue
LEMMA EnqueuedKeepsLog ==
  ASSUME NEW p \in RecordStates, LogInv(p), ~p.down, p.seq - p.sentUpTo < QueueSize,
         NEW q \in RecordStates, q.seq = p.seq + 1, q.log = Append(p.log, p.seq + 1),
         q.sentUpTo = p.sentUpTo, q.down = p.down
  PROVE  LogInv(q)
<1>1. /\ p.log \in Seq(Nat) /\ p.seq \in Nat /\ p.sentUpTo \in Nat
      /\ Len(p.log) \in Nat /\ ReplayDepth \in Nat \ {0} /\ QueueSize \in Nat
  BY SseAssumption DEF RecordStates
<1>2. /\ Len(q.log) = Len(p.log) + 1
      /\ \A i \in 1 .. Len(p.log) : q.log[i] = p.log[i]
      /\ q.log[Len(p.log) + 1] = p.seq + 1
  BY <1>1, AppendProperties
<1>3. PICK F, L : F = Floor(p) /\ L = Len(p.log)
  OBVIOUS
<1>4. /\ F \in Nat /\ L \in Nat /\ F + L = p.seq /\ Floor(q) = F /\ Len(q.log) = L + 1
  <2>1. F = p.seq - L /\ Floor(q) = (p.seq + 1) - (L + 1) /\ L <= p.seq
    BY <1>2, <1>3 DEF Floor, LogInv
  <2>2. QED
    BY <1>1, <1>2, <1>3, <2>1, SMTT(20)
<1>5. \A i \in 1 .. L : q.log[i] = F + i
  BY <1>2, <1>3 DEF LogInv
<1>6. \A i \in 1 .. L + 1 : q.log[i] = F + i
  <2> SUFFICES ASSUME NEW i \in 1 .. L + 1 PROVE q.log[i] = F + i
    OBVIOUS
  <2>1. CASE i \in 1 .. L
    BY <1>5, <2>1
  <2>2. CASE i = L + 1
    BY <1>2, <1>3, <1>4, <2>2
  <2>3. QED
    BY <1>4, <2>1, <2>2
<1>7. /\ F <= p.sentUpTo /\ p.sentUpTo <= F + ReplayDepth /\ p.sentUpTo <= p.seq
  BY <1>3 DEF LogInv
<1>8. L + 1 <= QueueSize + ReplayDepth /\ L + 1 <= p.seq + 1 /\ p.sentUpTo <= p.seq + 1
  BY <1>1, <1>4, <1>7, SMTT(30)
<1>9. QED
  BY <1>4, <1>6, <1>7, <1>8 DEF LogInv

-----------------------------------------------------------------------------
(* What the operations do to the events on a wire.                         *)

LEMMA ElementsOf ==
  ASSUME NEW w \in Seq(Events)
  PROVE  \A i \in 1 .. Len(w) : w[i] \in Events /\ w[i].id \in Nat /\ w[i].rec \in Records
<1>1. \A i \in 1 .. Len(w) : w[i] \in Events
  BY ElementOfSeq
<1>2. \A e \in Events : e.id \in Nat /\ e.rec \in Records
  BY DEF Events
<1>3. QED
  BY <1>1, <1>2

\* The last event of a stream is added.
LEMMA EndedWire ==
  ASSUME NEW w \in Seq(Events), NEW b \in Nat, NEW from, Chain(w, b), OneRecord(w, from),
         Numbered(w), NEW e \in Events, e.event # "signal"
  PROVE  /\ Append(w, e) \in Seq(Events)
         /\ Chain(Append(w, e), b) /\ OneRecord(Append(w, e), from) /\ Numbered(Append(w, e))
<1>0. PICK L \in Nat : L = Len(w)
  OBVIOUS
<1>v. PICK v : v = Append(w, e)
  OBVIOUS
<1>1. L = Len(w) /\ v = Append(w, e)
  BY <1>0, <1>v
<1>2. /\ v \in Seq(Events) /\ Len(v) = L + 1 /\ v[L + 1] = e
      /\ \A i \in 1 .. L : v[i] = w[i]
  BY <1>1, AppendProperties
<1>3. \A i \in 1 .. Len(v) : v[i].event = "signal" => i \in 1 .. L /\ v[i] = w[i]
  BY <1>2
<1>4. Chain(v, b)
  <2> SUFFICES ASSUME NEW i \in 1 .. Len(v), v[i].event = "signal"
               PROVE  v[i].id <= 1 + (IF i = 1 THEN b ELSE v[i - 1].id)
    BY DEF Chain
  <2>1. i \in 1 .. Len(w) /\ v[i] = w[i]
    BY <1>1, <1>3
  <2>2. i # 1 => v[i - 1] = w[i - 1]
    BY <1>1, <1>2, <2>1
  <2>3. v[i].id <= 1 + (IF i = 1 THEN b ELSE w[i - 1].id)
    BY <2>1 DEF Chain
  <2>4. QED
    BY <2>2, <2>3
<1>5. OneRecord(v, from)
  BY <1>1, <1>3 DEF OneRecord
<1>6. Numbered(v)
  BY <1>1, <1>3 DEF Numbered
<1>7. QED
  BY <1>1, <1>2, <1>4, <1>5, <1>6

\* The client has read a signal.
LEMMA ReadWire ==
  ASSUME NEW w \in Seq(Events), w # <<>>, NEW b \in Nat, NEW from, Chain(w, b), OneRecord(w, from),
         w[1].event = "signal", NEW c \in Nat, w[1].id <= c
  PROVE  /\ Tail(w) \in Seq(Events)
         /\ Chain(Tail(w), c) /\ OneRecord(Tail(w), w[1].rec)
         /\ End(w, b) <= End(Tail(w), c)
         /\ w[1].id <= 1 + b /\ (from = None \/ from = w[1].rec)
<1>0. PICK L \in Nat : L = Len(w)
  OBVIOUS
<1>v. PICK v : v = Tail(w)
  OBVIOUS
<1>1. L = Len(w) /\ v = Tail(w)
  BY <1>0, <1>v
<1>2. L >= 1
  BY <1>1, EmptySeq
<1>3. /\ v \in Seq(Events) /\ Len(v) = L - 1
      /\ \A i \in 1 .. Len(v) : v[i] = w[i + 1]
  BY <1>1, HeadTailProperties
<1>4. /\ \A i \in 1 .. L : w[i] \in Events /\ w[i].id \in Nat
      /\ \A i \in 1 .. L : w[i].event = "signal" =>
           w[i].id <= 1 + (IF i = 1 THEN b ELSE w[i - 1].id)
  BY <1>1, ElementsOf DEF Chain
<1>5. Chain(v, c)
  <2> SUFFICES ASSUME NEW i \in 1 .. Len(v), v[i].event = "signal"
               PROVE  v[i].id <= 1 + (IF i = 1 THEN c ELSE v[i - 1].id)
    BY DEF Chain
  <2>1. i + 1 \in 1 .. L /\ v[i] = w[i + 1] /\ i + 1 # 1 /\ (i + 1) - 1 = i /\ i \in 1 .. L
    BY <1>2, <1>3
  <2>2. v[i].id <= 1 + w[i].id /\ v[i].id \in Nat
    BY <1>4, <2>1
  <2>3. CASE i = 1
    BY <1>2, <1>4, <2>2, <2>3
  <2>4. CASE i # 1
    <3>1. i - 1 \in 1 .. Len(v) /\ (i - 1) + 1 = i
      BY <1>3, <2>4
    <3>2. v[i - 1] = w[i]
      BY <1>3, <3>1
    <3>3. QED
      BY <2>2, <2>4, <3>2
  <2>5. QED
    BY <2>3, <2>4
<1>6. OneRecord(v, w[1].rec)
  <2>1. \A i \in 1 .. Len(v) : i + 1 \in 1 .. Len(w) /\ v[i] = w[i + 1]
    BY <1>1, <1>3
  <2>2. 1 \in 1 .. Len(w)
    BY <1>1, <1>2
  <2>3. \A i \in 1 .. Len(v) : v[i].event = "signal" => v[i].rec = w[1].rec
    BY <2>1, <2>2 DEF OneRecord
  <2>4. QED
    BY <2>3 DEF OneRecord
<1>7. End(w, b) <= End(v, c)
  <2>1. w[Len(w)].id \in Nat /\ w[1].id \in Nat
    BY <1>1, <1>2, <1>4
  <2>2. CASE L = 1
    <3>1. v = <<>>
      BY <1>3, <2>2, EmptySeq
    <3>2. QED
      BY <1>1, <2>1, <2>2, <3>1 DEF End
  <2>3. CASE L # 1
    <3>1. Len(v) \in 1 .. Len(v) /\ Len(v) + 1 = Len(w) /\ v # <<>>
      <4>1. PICK m \in Nat : m = Len(v)
        BY <1>3
      <4>2. m = L - 1 /\ m \in 1 .. m /\ m + 1 = L
        BY <1>2, <1>3, <2>3, <4>1
      <4>3. QED
        BY <1>1, <4>1, <4>2
    <3>2. v[Len(v)] = w[Len(w)]
      BY <1>3, <3>1
    <3>3. QED
      BY <2>1, <3>1, <3>2 DEF End
  <2>4. QED
    BY <2>2, <2>3
<1>8. w[1].id <= 1 + b /\ (from = None \/ from = w[1].rec)
  <2>1. 1 \in 1 .. Len(w)
    BY <1>1, <1>2
  <2>2. QED
    BY <2>1 DEF Chain, OneRecord
<1>9. QED
  BY <1>1, <1>3, <1>5, <1>6, <1>7, <1>8

\* The numbers ids go on from u.
Run(ids, u) == \A i \in 1 .. Len(ids) : ids[i] = u + i

\* The handler has written the signals ids, which go on from u.
LEMMA WrittenWire ==
  ASSUME NEW w \in Seq(Events), AllSignals(w), NEW r \in Records,
         NEW u \in Nat, NEW ids \in Seq(Nat), Run(ids, u),
         NEW ev, ev = [i \in DOMAIN ids |-> Event("signal", r, ids[i])]
  PROVE  /\ w \o ev \in Seq(Events) /\ AllSignals(w \o ev)
         /\ Numbered(w) => Numbered(w \o ev)
         /\ (\A i \in 1 .. Len(w) : w[i].rec = r) => \A i \in 1 .. Len(w \o ev) : (w \o ev)[i].rec = r
         /\ \A b \in Nat : Chain(w, b) /\ u <= End(w, b) =>
              Chain(w \o ev, b) /\ u + Len(ids) <= End(w \o ev, b)
<1>0. PICK L \in Nat, n \in Nat : L = Len(w) /\ n = Len(ids)
  OBVIOUS
<1>v. PICK v : v = w \o ev
  OBVIOUS
<1>1. L = Len(w) /\ n = Len(ids) /\ v = w \o ev
  BY <1>0, <1>v
<1>2. /\ ev \in Seq(Events) /\ Len(ev) = n
      /\ \A i \in 1 .. n : ev[i].event = "signal" /\ ev[i].rec = r /\ ev[i].id = u + i
  <2>1. DOMAIN ids = 1 .. n
    BY <1>1
  <2>2. \A i \in 1 .. n : ids[i] = u + i /\ ids[i] \in Nat
    BY <1>1 DEF Run
  <2>3. \A i \in 1 .. n : Event("signal", r, ids[i]) \in Events
    BY <2>2 DEF Event, Events
  <2>4. ev = [i \in 1 .. n |-> Event("signal", r, ids[i])]
    BY <2>1
  <2>5. ev \in Seq(Events) /\ Len(ev) = n
    BY <2>3, <2>4, IsASeq, LenProperties
  <2>6. \A i \in 1 .. n : ev[i] = Event("signal", r, ids[i])
    BY <2>4
  <2>7. QED
    BY <2>2, <2>5, <2>6 DEF Event
<1>3. /\ v \in Seq(Events) /\ Len(v) = L + n
      /\ \A i \in 1 .. L + n : v[i] = IF i <= L THEN w[i] ELSE ev[i - L]
  <2>1. ev \in Seq(Events)
    BY <1>2
  <2>2. /\ w \o ev \in Seq(Events)
        /\ Len(w \o ev) = Len(w) + Len(ev)
        /\ \A i \in 1 .. Len(w) + Len(ev) : (w \o ev)[i] =
             IF i <= Len(w) THEN w[i] ELSE ev[i - Len(w)]
    BY <2>1, ConcatProperties
  <2>3. QED
    BY <1>1, <1>2, <2>2
<1>4. \A i \in 1 .. L : v[i] = w[i]
  BY <1>3
<1>5. ASSUME NEW i \in L + 1 .. L + n
      PROVE  v[i].event = "signal" /\ v[i].rec = r /\ v[i].id = u + (i - L)
  <2>1. i - L \in 1 .. n /\ v[i] = ev[i - L]
    BY <1>3
  <2>2. QED
    BY <1>2, <2>1
<1>6. \A i \in 1 .. Len(v) : i \in 1 .. L \/ i \in L + 1 .. L + n
  BY <1>3
<1>7. AllSignals(v)
  BY <1>1, <1>4, <1>5, <1>6 DEF AllSignals
<1>8. Numbered(w) => Numbered(v)
  <2>1. \A i \in L + 1 .. L + n : v[i].id >= 1
    <3> SUFFICES ASSUME NEW i \in L + 1 .. L + n PROVE v[i].id >= 1
      OBVIOUS
    <3>1. v[i].id = u + (i - L)
      BY <1>5
    <3>2. QED
      BY <3>1
  <2>2. QED
    BY <1>1, <1>4, <1>6, <2>1 DEF Numbered
<1>9. (\A i \in 1 .. Len(w) : w[i].rec = r) => \A i \in 1 .. Len(v) : v[i].rec = r
  BY <1>1, <1>4, <1>5, <1>6
<1>10. ASSUME NEW b \in Nat, Chain(w, b), u <= End(w, b)
       PROVE  Chain(v, b) /\ u + n <= End(v, b)
  <2>1. \A i \in 1 .. L : w[i].id \in Nat
    BY <1>1, ElementsOf
  <2>2. Chain(v, b)
    <3> SUFFICES ASSUME NEW i \in 1 .. Len(v)
                 PROVE  v[i].id <= 1 + (IF i = 1 THEN b ELSE v[i - 1].id)
      BY DEF Chain
    <3>1. CASE i \in 1 .. L
      <4>1. v[i] = w[i] /\ w[i].event = "signal" /\ i \in 1 .. Len(w)
        BY <1>1, <1>4, <3>1 DEF AllSignals
      <4>2. i # 1 => v[i - 1] = w[i - 1]
        BY <1>4, <3>1
      <4>3. w[i].id <= 1 + (IF i = 1 THEN b ELSE w[i - 1].id)
        BY <1>10, <4>1 DEF Chain
      <4>4. QED
        BY <4>1, <4>2, <4>3
    <3>2. CASE i = L + 1
      <4>1. v[i].id = u + 1
        BY <1>3, <1>5, <3>2
      <4>2. CASE L = 0
        <5>1. u <= b
          BY <1>1, <1>10, <4>2, EmptySeq DEF End
        <5>2. QED
          BY <3>2, <4>1, <4>2, <5>1
      <4>3. CASE L # 0
        <5>1. u <= w[L].id /\ w[L].id \in Nat
          BY <1>1, <1>10, <2>1, <4>3, EmptySeq DEF End
        <5>2. v[i - 1] = w[L] /\ i # 1
          BY <1>4, <3>2, <4>3
        <5>3. QED
          BY <4>1, <5>1, <5>2
      <4>4. QED
        BY <4>2, <4>3
    <3>3. CASE i \in L + 2 .. L + n
      <4>1. i \in L + 1 .. L + n /\ i - 1 \in L + 1 .. L + n /\ i # 1
        BY <3>3
      <4>2. v[i].id = u + (i - L) /\ v[i - 1].id = u + ((i - 1) - L)
        BY <1>5, <4>1
      <4>3. QED
        BY <4>1, <4>2
    <3>4. QED
      BY <1>3, <3>1, <3>2, <3>3
  <2>3. u + n <= End(v, b)
    <3>1. CASE n = 0
      <4>1. CASE L = 0
        <5>1. v = <<>> /\ w = <<>>
          BY <1>1, <1>3, <3>1, <4>1, EmptySeq
        <5>2. QED
          BY <1>10, <3>1, <5>1 DEF End
      <4>2. CASE L # 0
        <5>1. v # <<>> /\ w # <<>> /\ Len(v) = L /\ v[L] = w[L]
          BY <1>1, <1>3, <1>4, <3>1, <4>2, EmptySeq
        <5>2. QED
          BY <1>1, <1>10, <3>1, <5>1 DEF End
      <4>3. QED
        BY <4>1, <4>2
    <3>2. CASE n # 0
      <4>1. v # <<>> /\ L + n \in L + 1 .. L + n
        BY <1>3, <3>2, EmptySeq
      <4>2. v[L + n].id = u + ((L + n) - L)
        BY <1>5, <4>1
      <4>3. QED
        BY <1>3, <4>1, <4>2 DEF End
    <3>3. QED
      BY <3>1, <3>2
  <2>4. QED
    BY <2>2, <2>3
<1>11. QED
  BY <1>1, <1>3, <1>7, <1>8, <1>9, <1>10

-----------------------------------------------------------------------------
(* What a step that changes handlers has to show of each of them.          *)

Attached == {"take", "wait", "detach"}
Asking   == {"request", "attach"}

SameRecord(r) ==
  /\ rec'[r].seq = rec[r].seq /\ rec'[r].sentUpTo = rec[r].sentUpTo /\ rec'[r].log = rec[r].log
  /\ rec'[r].stream = rec[r].stream /\ rec'[r].down = rec[r].down

\* A handler that is a record's stream stays it, and is not put to sleep.
Moves(f) ==
  /\ HandlerInv(get'[f])
  /\ (\E r \in Records : rec[r].stream = f) =>
       /\ get'[f].rec = get[f].rec /\ get'[f].pc \in Attached
       /\ \/ get'[f].pc \in {"take", "detach"} \/ get'[f].wake
          \/ get'[f].pc = get[f].pc /\ get'[f].wake = get[f].wake

\* The client of a handler can follow what the handler does.
Leads(f) ==
  /\ get[f].pc # "none" => get'[f].pc # "none"
  /\ get'[f].pc \in Asking =>
       get[f].pc \in Asking /\ get'[f].client = get[f].client /\ get'[f].last = get[f].last
  /\ \A c \in Clients : cli[c].get = f /\ ~cli[c].stale =>
       /\ Follows(cli[c], get'[f])
       /\ get'[f].pc \in Serving /\ get'[f].conn = "up" /\ rec'[get'[f].rec].stream = f =>
            rec'[get'[f].rec].sentUpTo <= End(get'[f].wire, Base(cli[c]))

Stays(f) ==
  /\ get'[f] = get[f]
  /\ get[f].pc \in Serving /\ rec'[get[f].rec].stream = f =>
       rec[get[f].rec].stream = f /\ rec'[get[f].rec].sentUpTo = rec[get[f].rec].sentUpTo

LEMMA FrameRequests ==
  ASSUME Types, LogsInv, RequestsInv, NoLostWake, Types',
         \A r \in Records : SameRecord(r),
         \A f \in Streams : get'[f] = get[f] \/ Moves(f),
         \A p \in Posters : post'[p] = post[p] \/ (post[p].pc # "poke" /\ PostInv(post'[p]))
  PROVE  LogsInv' /\ RequestsInv' /\ NoLostWake'
<1>1. LogsInv'
  BY DEF LogsInv, LogInv, Floor, SameRecord
<1>2. \A f \in Streams : HandlerInv(get'[f])
  BY DEF RequestsInv, Moves
<1>3. \A p \in Posters : PostInv(post'[p])
  BY DEF RequestsInv
<1>4. ASSUME NEW r \in Records, NEW g \in Streams, rec'[r].stream = g
      PROVE  get'[g].rec = r /\ get'[g].pc \in Attached
  BY <1>4 DEF RequestsInv, Moves, SameRecord, Attached
<1>5. RequestsInv'
  BY <1>2, <1>3, <1>4 DEF RequestsInv, Attached
<1>6. NoLostWake'
  <2> SUFFICES ASSUME NEW r \in Records, NEW g \in Streams, rec'[r].stream = g,
                      ~rec'[r].down, rec'[r].sentUpTo < rec'[r].seq
               PROVE  \/ get'[g].pc \in {"take", "detach"} \/ get'[g].wake
                      \/ \E p \in Posters : post'[p].pc = "poke" /\ post'[p].stream = g
    BY DEF NoLostWake
  <2>1. \/ get[g].pc \in {"take", "detach"} \/ get[g].wake
        \/ \E p \in Posters : post[p].pc = "poke" /\ post[p].stream = g
    BY DEF NoLostWake, SameRecord
  <2>2. \/ get'[g].pc \in {"take", "detach"} \/ get'[g].wake
        \/ get'[g].pc = get[g].pc /\ get'[g].wake = get[g].wake
    BY DEF Moves, SameRecord
  <2>3. (\E p \in Posters : post[p].pc = "poke" /\ post[p].stream = g)
        => \E p \in Posters : post'[p].pc = "poke" /\ post'[p].stream = g
    OBVIOUS
  <2>4. QED
    BY <2>1, <2>2, <2>3
<1>7. QED
  BY <1>1, <1>5, <1>6

LEMMA FrameClients ==
  ASSUME Types, ClientsInv, UNCHANGED cli, \A f \in Streams : Stays(f) \/ Leads(f)
  PROVE  ClientsInv'
<1>1. ASSUME NEW c \in Clients PROVE ClientInv(c)'
  <2>1. cli[c] \in ClientStates /\ cli'[c] = cli[c] /\ ClientInv(c)
    BY DEF Types, ClientsInv
  <2>2. CASE cli[c].get = None
    BY <2>1, <2>2 DEF ClientInv
  <2>3. CASE cli[c].get # None
    <3>1. PICK g \in Streams : g = cli[c].get
      BY <2>1, <2>3 DEF ClientStates
    <3>2. CASE Stays(g)
      BY <2>1, <2>3, <3>1, <3>2 DEF ClientInv, Stays
    <3>3. CASE Leads(g)
      BY <2>1, <2>3, <3>1, <3>3 DEF ClientInv, Leads, Asking
    <3>4. QED
      BY <3>2, <3>3
  <2>4. QED
    BY <2>2, <2>3
<1>2. QED
  BY <1>1 DEF ClientsInv

\* A handler that does not write.
LEMMA QuietLeads ==
  ASSUME Types, ClientsInv, NEW f \in Streams,
         \A r \in Records : SameRecord(r),
         get[f].pc # "none" => get'[f].pc # "none",
         get'[f].pc \in Asking =>
           get[f].pc \in Asking /\ get'[f].client = get[f].client /\ get'[f].last = get[f].last,
         get'[f].wire = get[f].wire \/ get'[f].wire = <<>>,
         get'[f].pc \in Serving =>
           get[f].pc \in Serving /\ get'[f].rec = get[f].rec /\ get[f].rec \in Records,
         get'[f].conn = "up" => get[f].conn = "up" /\ get'[f].wire = get[f].wire
  PROVE  Leads(f)
<1> SUFFICES ASSUME NEW c \in Clients, cli[c].get = f, ~cli[c].stale
             PROVE  /\ Follows(cli[c], get'[f])
                    /\ get'[f].pc \in Serving /\ get'[f].conn = "up" /\ rec'[get'[f].rec].stream = f =>
                         rec'[get'[f].rec].sentUpTo <= End(get'[f].wire, Base(cli[c]))
  BY DEF Leads
<1>1. /\ Follows(cli[c], get[f])
      /\ get[f].pc \in Serving /\ get[f].conn = "up" /\ rec[get[f].rec].stream = f =>
           rec[get[f].rec].sentUpTo <= End(get[f].wire, Base(cli[c]))
  BY DEF ClientsInv, ClientInv, None, Streams
<1>2. Follows(cli[c], get'[f])
  <2>1. CASE get'[f].wire = get[f].wire
    BY <1>1, <2>1 DEF Follows, AtRecord
  <2>2. CASE get'[f].wire = <<>>
    <3>1. Len(<<>>) = 0 /\ \A i \in 1 .. 0 : FALSE
      OBVIOUS
    <3>2. QED
      BY <1>1, <2>2, <3>1 DEF Follows, AtRecord, Chain, OneRecord
  <2>3. QED
    BY <2>1, <2>2
<1>3. QED
  BY <1>1, <1>2 DEF SameRecord

-----------------------------------------------------------------------------
(* The steps of a handler.                                                 *)

LEMMA ReturnsIs ==
  ASSUME NEW h \in GetStates
  PROVE  /\ Returns(h) \in GetStates /\ Returns(h).pc = "detach" /\ Returns(h).rec = h.rec
         /\ Returns(h).wire = h.wire
         /\ Returns(h).conn = IF h.conn = "up" THEN "eof" ELSE h.conn
<1>1. <<>> \in Seq(Events)
  OBVIOUS
<1>2. NewGet \in GetStates
  BY <1>1 DEF NewGet, GetStates, None
<1>3. h.wire \in Seq(Events) /\ h.rec \in Records \cup {None} /\ h.conn \in {"up", "eof", "cut"}
  BY DEF GetStates
<1>4. QED
  BY <1>2, <1>3 DEF Returns, NewGet, GetStates

LEMMA GoneIs ==
  ASSUME NEW h \in GetStates
  PROVE  /\ Gone(h) \in GetStates /\ Gone(h).pc = "gone"
         /\ Gone(h).wire = h.wire /\ Gone(h).conn = h.conn
<1>1. <<>> \in Seq(Events)
  OBVIOUS
<1>2. NewGet \in GetStates
  BY <1>1 DEF NewGet, GetStates, None
<1>3. h.wire \in Seq(Events) /\ h.conn \in {"up", "eof", "cut"}
  BY DEF GetStates
<1>4. QED
  BY <1>2, <1>3 DEF Gone, NewGet, GetStates

\* A handler moves on and writes nothing.
LEMMA OneHandler ==
  ASSUME SseInv, NEW g \in Streams, NEW h \in GetStates, get' = [get EXCEPT ![g] = h],
         UNCHANGED <<post, cli>>,
         peers' \in Records \cup {None}, closed' \in BOOLEAN, doomed' \subseteq Records,
         rec' \in [Records -> RecordStates], \A r \in Records : SameRecord(r),
         HandlerInv(h), h.pc # "none",
         (\E r \in Records : rec[r].stream = g) =>
           /\ h.rec = get[g].rec /\ h.pc \in Attached
           /\ \/ h.pc \in {"take", "detach"} \/ h.wake
              \/ h.pc = get[g].pc /\ h.wake = get[g].wake,
         h.pc \in Asking => get[g].pc \in Asking /\ h.client = get[g].client /\ h.last = get[g].last,
         h.wire = get[g].wire \/ h.wire = <<>>,
         h.pc \in Serving => get[g].pc \in Serving /\ h.rec = get[g].rec,
         h.conn = "up" => get[g].conn = "up" /\ h.wire = get[g].wire
  PROVE  SseInv'
<1>1. Types /\ LogsInv /\ RequestsInv /\ NoLostWake /\ ClientsInv
  BY DEF SseInv
<1>2. get'[g] = h /\ \A f \in Streams : f # g => get'[f] = get[f]
  BY <1>1 DEF Types
<1>3. Types'
  BY <1>1 DEF Types
<1>4. \A f \in Streams : get'[f] = get[f] \/ Moves(f)
  BY <1>2 DEF Moves
<1>5. LogsInv' /\ RequestsInv' /\ NoLostWake'
  BY <1>1, <1>3, <1>4, FrameRequests
<1>6. h.pc \in Serving => get[g].rec \in Records
  BY <1>1 DEF RequestsInv, HandlerInv, Serving
<1>7. Leads(g)
  BY <1>1, <1>2, <1>6, QuietLeads
<1>8. \A f \in Streams : get[f].pc \in Serving => get[f].rec \in Records
  BY <1>1 DEF RequestsInv, HandlerInv, Serving
<1>9. \A f \in Streams : f # g => Stays(f)
  BY <1>2, <1>8 DEF Stays, SameRecord
<1>10. ClientsInv'
  BY <1>1, <1>7, <1>9, FrameClients
<1>11. QED
  BY <1>3, <1>5, <1>10 DEF SseInv

LEMMA AdmitStep ==
  ASSUME SseInv, NEW g \in Streams, Admit(g)
  PROVE  SseInv'
<1>1. /\ get[g].pc = "request" /\ get[g] \in GetStates /\ HandlerInv(get[g])
      /\ UNCHANGED <<closed, doomed, post, cli>>
      /\ peers \in Records \cup {None} /\ closed \in BOOLEAN /\ doomed \subseteq Records
      /\ rec \in [Records -> RecordStates] /\ get \in [Streams -> GetStates]
  BY DEF Admit, SseInv, Types, RequestsInv
<1>2. ~\E r \in Records : rec[r].stream = g
  BY <1>1 DEF SseInv, RequestsInv
<1>3. ASSUME NEW r \in Records, get' = [get EXCEPT ![g].pc = "attach", ![g].rec = r],
             peers' \in Records \cup {None}, rec' \in [Records -> RecordStates],
             \A q \in Records : SameRecord(q)
      PROVE  SseInv'
  <2>1. PICK h \in GetStates : h = [get[g] EXCEPT !.pc = "attach", !.rec = r]
    BY <1>1 DEF GetStates
  <2>2. /\ h.pc = "attach" /\ h.rec = r /\ h.client = get[g].client /\ h.last = get[g].last
        /\ h.wire = get[g].wire /\ h.conn = get[g].conn
    BY <1>1, <2>1 DEF GetStates
  <2>3. get' = [get EXCEPT ![g] = h]
    BY <1>1, <1>3, <2>1
  <2>4. HandlerInv(h)
    BY <1>1, <2>2 DEF HandlerInv, Serving
  <2>5. QED
    BY <1>1, <1>2, <1>3, <2>2, <2>3, <2>4, OneHandler DEF Asking, Serving
<1>4. CASE get' = [get EXCEPT ![g] = Gone(Returns(get[g]))] /\ UNCHANGED <<peers, rec>>
  <2>1. PICK h \in GetStates : h = Gone(Returns(get[g]))
    BY <1>1, ReturnsIs, GoneIs
  <2>2. /\ h.pc = "gone" /\ h.wire = get[g].wire
        /\ h.conn = IF get[g].conn = "up" THEN "eof" ELSE get[g].conn
    BY <1>1, <2>1, ReturnsIs, GoneIs
  <2>3. HandlerInv(h)
    BY <1>1, <2>2 DEF HandlerInv, Serving
  <2>4. \A q \in Records : SameRecord(q)
    BY <1>4 DEF SameRecord
  <2>5. QED
    BY <1>1, <1>2, <1>4, <2>1, <2>2, <2>3, <2>4, OneHandler DEF Asking, Serving
<1>5. CASE /\ peers # None
           /\ get' = [get EXCEPT ![g].pc = "attach", ![g].rec = peers]
           /\ UNCHANGED <<peers, rec>>
  <2>1. \A q \in Records : SameRecord(q)
    BY <1>5 DEF SameRecord
  <2>2. QED
    BY <1>1, <1>3, <1>5, <2>1
<1>6. ASSUME NEW r \in Records, peers' = r,
             rec' = [rec EXCEPT ![r].made = TRUE, ![r].timer = TRUE],
             get' = [get EXCEPT ![g].pc = "attach", ![g].rec = r]
      PROVE  SseInv'
  <2>1. rec' \in [Records -> RecordStates] /\ \A q \in Records : SameRecord(q)
    BY <1>1, <1>6, ZenonT(60) DEF SameRecord, RecordStates
  <2>2. QED
    BY <1>3, <1>6, <2>1
<1>7. QED
  BY <1>4, <1>5, <1>6 DEF Admit

LEMMA StreamFailsStep ==
  ASSUME SseInv, NEW g \in Streams, StreamFails(g)
  PROVE  SseInv'
<1>1. /\ get[g] \in GetStates /\ HandlerInv(get[g])
      /\ UNCHANGED <<peers, closed, doomed, rec, post, cli>>
      /\ peers \in Records \cup {None} /\ closed \in BOOLEAN /\ doomed \subseteq Records
      /\ rec \in [Records -> RecordStates] /\ get \in [Streams -> GetStates]
  BY DEF StreamFails, SseInv, Types, RequestsInv
<1>2. \A q \in Records : SameRecord(q)
  BY <1>1 DEF SameRecord
<1>3. CASE get[g].pc = "attach" /\ get' = [get EXCEPT ![g] = Gone(Returns(get[g]))]
  <2>1. PICK h \in GetStates : h = Gone(Returns(get[g]))
    BY <1>1, ReturnsIs, GoneIs
  <2>2. /\ h.pc = "gone" /\ h.wire = get[g].wire
        /\ h.conn = IF get[g].conn = "up" THEN "eof" ELSE get[g].conn
    BY <1>1, <2>1, ReturnsIs, GoneIs
  <2>3. HandlerInv(h)
    BY <1>1, <2>2 DEF HandlerInv, Serving
  <2>4. ~\E r \in Records : rec[r].stream = g
    BY <1>3 DEF SseInv, RequestsInv
  <2>5. QED
    BY <1>1, <1>2, <1>3, <2>1, <2>2, <2>3, <2>4, OneHandler DEF Asking, Serving
<1>4. CASE get[g].pc \in Serving /\ get' = [get EXCEPT ![g] = Returns(get[g])]
  <2>1. PICK h \in GetStates : h = Returns(get[g])
    BY <1>1, ReturnsIs
  <2>2. /\ h.pc = "detach" /\ h.rec = get[g].rec /\ h.wire = get[g].wire
        /\ h.conn = IF get[g].conn = "up" THEN "eof" ELSE get[g].conn
    BY <1>1, <2>1, ReturnsIs
  <2>3. HandlerInv(h)
    BY <1>1, <1>4, <2>2 DEF HandlerInv, Serving
  <2>4. QED
    BY <1>1, <1>2, <1>4, <2>1, <2>2, <2>3, OneHandler DEF Asking, Attached, Serving
<1>5. QED
  BY <1>3, <1>4 DEF StreamFails

LEMMA BaseType ==
  ASSUME NEW k \in ClientStates
  PROVE  Base(k) \in Nat /\ Base(k) >= k.lastID /\ Base(k) >= k.floor
         /\ (Base(k) = k.lastID \/ Base(k) = k.floor)
  BY DEF ClientStates, Base

LEMMA WakeStep ==
  ASSUME SseInv, NEW g \in Streams, Wake(g)
  PROVE  SseInv'
<1>1. /\ get[g].pc = "wait" /\ get[g] \in GetStates /\ HandlerInv(get[g])
      /\ get[g].rec \in Records
      /\ UNCHANGED <<peers, closed, doomed, rec, post, cli>>
      /\ peers \in Records \cup {None} /\ closed \in BOOLEAN /\ doomed \subseteq Records
      /\ rec \in [Records -> RecordStates] /\ get \in [Streams -> GetStates]
      /\ cli \in [Clients -> ClientStates] /\ post \in [Posters -> PostStates]
      /\ get[g].end \in {"none", "replaced", "shutdown"}
  BY DEF Wake, SseInv, Types, RequestsInv, HandlerInv, GetStates
<1>2. \A q \in Records : SameRecord(q)
  BY <1>1 DEF SameRecord
<1>3. CASE get' = [get EXCEPT ![g].pc = "take", ![g].wake = FALSE]
  <2>1. PICK h \in GetStates : h = [get[g] EXCEPT !.pc = "take", !.wake = FALSE]
    BY <1>1 DEF GetStates
  <2>2. /\ h.pc = "take" /\ h.rec = get[g].rec /\ h.wire = get[g].wire
        /\ h.conn = get[g].conn
    BY <1>1, <2>1 DEF GetStates
  <2>3. HandlerInv(h)
    BY <1>1, <2>2 DEF HandlerInv, Serving
  <2>4. get' = [get EXCEPT ![g] = h]
    BY <1>1, <1>3, <2>1
  <2>5. QED
    BY <1>1, <1>2, <2>2, <2>3, <2>4, OneHandler DEF Asking, Attached, Serving
<1>4. CASE get[g].end # "none" /\ get' = [get EXCEPT ![g] = Returns(Told(get[g]))]
  <2>1. PICK t \in GetStates : t = Told(get[g])
    <3>1. Event(get[g].end, get[g].rec, 0) \in Events
      BY <1>1, <1>4 DEF Event, Events
    <3>2. get[g].wire \in Seq(Events)
      BY <1>1 DEF GetStates
    <3>3. Append(get[g].wire, Event(get[g].end, get[g].rec, 0)) \in Seq(Events)
      BY <3>1, <3>2, AppendProperties
    <3>4. QED
      BY <1>1, <3>3 DEF Told, GetStates
  <2>2. PICK h \in GetStates : h = Returns(t)
    BY <2>1, ReturnsIs
  <2>3. /\ h.pc = "detach" /\ h.rec = get[g].rec /\ h.wire = t.wire
        /\ h.conn = IF get[g].conn = "up" THEN "eof" ELSE get[g].conn
        /\ t.wire = IF get[g].conn = "up"
                    THEN Append(get[g].wire, Event(get[g].end, get[g].rec, 0)) ELSE get[g].wire
    <3>1. t.rec = get[g].rec /\ t.conn = get[g].conn
          /\ t.wire = IF get[g].conn = "up"
                      THEN Append(get[g].wire, Event(get[g].end, get[g].rec, 0)) ELSE get[g].wire
      BY <1>1, <2>1 DEF Told, GetStates
    <3>2. QED
      BY <2>2, <3>1, ReturnsIs
  <2>4. get' = [get EXCEPT ![g] = h] /\ get'[g] = h /\ \A f \in Streams : f # g => get'[f] = get[f]
    BY <1>1, <1>4, <2>1, <2>2
  <2>5. \A b \in Nat, from \in Records \cup {None} :
          Chain(get[g].wire, b) /\ OneRecord(get[g].wire, from) =>
            Chain(h.wire, b) /\ OneRecord(h.wire, from)
    <3>1. Event(get[g].end, get[g].rec, 0) \in Events
          /\ Event(get[g].end, get[g].rec, 0).event # "signal"
      BY <1>1, <1>4 DEF Event, Events
    <3>2. get[g].wire \in Seq(Events) /\ Numbered(get[g].wire)
      BY <1>1 DEF GetStates, HandlerInv
    <3>3. QED
      BY <2>3, <3>1, <3>2, EndedWire
  <2>6. Numbered(h.wire)
    <3>1. Event(get[g].end, get[g].rec, 0).event # "signal"
      BY <1>1, <1>4 DEF Event
    <3>2. get[g].wire \in Seq(Events) /\ Numbered(get[g].wire)
      BY <1>1 DEF GetStates, HandlerInv
    <3>3. CASE get[g].conn # "up"
      BY <2>3, <3>2, <3>3
    <3>4. CASE get[g].conn = "up"
      <4>1. PICK e : e = Event(get[g].end, get[g].rec, 0)
        OBVIOUS
      <4>2. h.wire = Append(get[g].wire, e) /\ e.event # "signal"
        BY <2>3, <3>1, <3>4, <4>1
      <4>3. /\ Len(h.wire) = Len(get[g].wire) + 1
            /\ h.wire[Len(get[g].wire) + 1] = e
            /\ \A i \in 1 .. Len(get[g].wire) : h.wire[i] = get[g].wire[i]
        BY <3>2, <4>2
      <4>4. QED
        BY <3>2, <4>2, <4>3 DEF Numbered
    <3>5. QED
      BY <3>3, <3>4
  <2>7. HandlerInv(h)
    BY <1>1, <2>3, <2>6 DEF HandlerInv, Serving
  <2>8. Types'
    BY <1>1, <2>4 DEF SseInv, Types
  <2>9. \A f \in Streams : get'[f] = get[f] \/ Moves(f)
    BY <2>3, <2>4, <2>7 DEF Moves, Attached
  <2>10. LogsInv' /\ RequestsInv' /\ NoLostWake'
    BY <1>1, <1>2, <2>8, <2>9, FrameRequests DEF SseInv
  <2>11. Leads(g)
    <3>1. ASSUME NEW c \in Clients, cli[c].get = g, ~cli[c].stale
          PROVE  Follows(cli[c], h)
      <4>1. Follows(cli[c], get[g])
        BY <3>1 DEF SseInv, ClientsInv, ClientInv, None, Streams
      <4>2. Base(cli[c]) \in Nat /\ cli[c].from \in Records \cup {None}
        BY <1>1, BaseType DEF ClientStates
      <4>3. Chain(h.wire, Base(cli[c])) /\ OneRecord(h.wire, cli[c].from)
        BY <2>5, <4>1, <4>2 DEF Follows
      <4>4. QED
        BY <2>3, <4>3 DEF Follows, Serving
    <3>2. QED
      BY <2>3, <2>4, <3>1 DEF Leads, Asking, Serving
  <2>12. \A f \in Streams : f # g => Stays(f)
    BY <1>1, <2>4 DEF Stays
  <2>13. ClientsInv'
    BY <1>1, <2>11, <2>12, FrameClients DEF SseInv
  <2>14. QED
    BY <2>8, <2>10, <2>13 DEF SseInv
<1>5. QED
  BY <1>3, <1>4 DEF Wake

LEMMA NetworkCutStep ==
  ASSUME SseInv, NEW g \in Streams, NetworkCut(g)
  PROVE  SseInv'
<1>1. /\ get[g].pc # "none" /\ get[g] \in GetStates /\ HandlerInv(get[g])
      /\ get' = [get EXCEPT ![g].conn = "cut", ![g].wire = <<>>]
      /\ UNCHANGED <<peers, closed, doomed, rec, post, cli>>
      /\ peers \in Records \cup {None} /\ closed \in BOOLEAN /\ doomed \subseteq Records
      /\ rec \in [Records -> RecordStates] /\ get \in [Streams -> GetStates]
  BY DEF NetworkCut, Cut, SseInv, Types, RequestsInv
<1>2. PICK h \in GetStates : h = [get[g] EXCEPT !.conn = "cut", !.wire = <<>>]
  <2>1. <<>> \in Seq(Events)
    OBVIOUS
  <2>2. QED
    BY <1>1, <2>1 DEF GetStates
<1>3. /\ h.pc = get[g].pc /\ h.rec = get[g].rec /\ h.wire = <<>> /\ h.wake = get[g].wake
      /\ h.conn = "cut" /\ h.client = get[g].client /\ h.last = get[g].last
  BY <1>1, <1>2 DEF GetStates
<1>4. HandlerInv(h)
  <2>1. Len(<<>>) = 0 /\ \A i \in 1 .. 0 : FALSE
    OBVIOUS
  <2>2. QED
    BY <1>1, <1>3, <2>1 DEF HandlerInv, AllSignals, Numbered
<1>5. get' = [get EXCEPT ![g] = h]
  BY <1>1, <1>2
<1>6. \A q \in Records : SameRecord(q)
  BY <1>1 DEF SameRecord
<1>7. (\E r \in Records : rec[r].stream = g) => get[g].pc \in Attached
  BY DEF SseInv, RequestsInv, Attached
<1>8. QED
  BY <1>1, <1>3, <1>4, <1>5, <1>6, <1>7, OneHandler

LEMMA DetachStep ==
  ASSUME SseInv, NEW g \in Streams, Detach(g)
  PROVE  SseInv'
<1>1. /\ get[g].pc = "detach" /\ get[g] \in GetStates /\ HandlerInv(get[g])
      /\ get' = [get EXCEPT ![g] = Gone(get[g])]
      /\ UNCHANGED <<peers, closed, doomed, post, cli>>
      /\ rec \in [Records -> RecordStates] /\ get \in [Streams -> GetStates]
  BY DEF Detach, SseInv, Types, RequestsInv
<1>2. PICK r \in Records : r = get[g].rec
  BY <1>1 DEF HandlerInv
<1>3. rec' = IF rec[r].stream = g
             THEN [rec EXCEPT ![r].stream = None, ![r].timer = @ \/ ~rec[r].down] ELSE rec
  BY <1>2 DEF Detach
<1>4. PICK h \in GetStates : h = Gone(get[g])
  BY <1>1, GoneIs
<1>5. h.pc = "gone" /\ h.wire = get[g].wire /\ h.conn = get[g].conn
  BY <1>1, <1>4, GoneIs
<1>6. get'[g] = h /\ \A f \in Streams : f # g => get'[f] = get[f]
  BY <1>1, <1>4
<1>7. /\ rec' \in [Records -> RecordStates]
      /\ \A q \in Records : /\ rec'[q].seq = rec[q].seq /\ rec'[q].sentUpTo = rec[q].sentUpTo
                            /\ rec'[q].log = rec[q].log /\ rec'[q].down = rec[q].down
                            /\ rec'[q].stream = rec[q].stream \/ rec'[q].stream = None
      /\ rec'[r].stream # g
  <2>1. CASE rec[r].stream # g
    BY <1>1, <1>3, <2>1
  <2>2. CASE rec[r].stream = g
    <3>1. PICK p \in RecordStates : p = [rec[r] EXCEPT !.stream = None,
                                                       !.timer = rec[r].timer \/ ~rec[r].down]
      <4>1. (rec[r].timer \/ ~rec[r].down) \in BOOLEAN
        OBVIOUS
      <4>2. QED
        BY <1>1, <4>1 DEF RecordStates
    <3>2. /\ p.seq = rec[r].seq /\ p.sentUpTo = rec[r].sentUpTo /\ p.log = rec[r].log
          /\ p.down = rec[r].down /\ p.stream = None
      BY <1>1, <3>1 DEF RecordStates
    <3>3. rec' = [rec EXCEPT ![r] = p]
      BY <1>1, <1>3, <2>2, <3>1
    <3>4. QED
      BY <1>1, <3>2, <3>3 DEF None, Streams
  <2>3. QED
    BY <2>1, <2>2
<1>8. \A q \in Records : rec'[q].stream # g
  <2> SUFFICES ASSUME NEW q \in Records, rec'[q].stream = g PROVE FALSE
    OBVIOUS
  <2>1. rec[q].stream = g
    BY <1>7 DEF None, Streams
  <2>2. q = r
    BY <1>2, <2>1 DEF SseInv, RequestsInv
  <2>3. QED
    BY <1>7, <2>2
<1>9. Types'
  BY <1>1, <1>4, <1>7 DEF SseInv, Types
<1>10. LogsInv'
  BY <1>7 DEF SseInv, LogsInv, LogInv, Floor
<1>11. HandlerInv(h)
  BY <1>1, <1>5 DEF HandlerInv, Serving
<1>12. \A q \in Records, f \in Streams : rec'[q].stream = f => f # g /\ rec[q].stream = f
  BY <1>7, <1>8 DEF None, Streams
<1>13. RequestsInv'
  <2>1. \A f \in Streams : HandlerInv(get'[f])
    BY <1>6, <1>11 DEF SseInv, RequestsInv
  <2>2. \A q \in Records : \A f \in Streams : rec'[q].stream = f =>
          get'[f].rec = q /\ get'[f].pc \in {"take", "wait", "detach"}
    BY <1>6, <1>12 DEF SseInv, RequestsInv
  <2>3. \A p \in Posters : PostInv(post'[p])
    BY <1>1 DEF SseInv, RequestsInv
  <2>4. QED
    BY <2>1, <2>2, <2>3 DEF RequestsInv
<1>14. NoLostWake'
  BY <1>1, <1>6, <1>7, <1>12 DEF SseInv, NoLostWake
<1>15. Leads(g)
  <2>1. ASSUME NEW c \in Clients, cli[c].get = g, ~cli[c].stale
        PROVE  Follows(cli[c], h)
    <3>1. Follows(cli[c], get[g])
      BY <2>1 DEF SseInv, ClientsInv, ClientInv, None, Streams
    <3>2. QED
      BY <1>5, <3>1 DEF Follows, Serving
  <2>2. QED
    BY <1>5, <1>6, <2>1 DEF Leads, Asking, Serving
<1>16. \A f \in Streams : f # g => Stays(f)
  <2>1. \A f \in Streams : get[f].pc \in Serving => get[f].rec \in Records
    BY DEF SseInv, RequestsInv, HandlerInv, Serving
  <2>2. QED
    BY <1>6, <1>7, <1>12, <2>1 DEF Stays
<1>17. ClientsInv'
  BY <1>1, <1>15, <1>16, FrameClients DEF SseInv
<1>18. QED
  BY <1>9, <1>10, <1>13, <1>14, <1>17 DEF SseInv

\* The handler of stream h has written the signals ids, which go on from u.
LEMMA WrittenIs ==
  ASSUME NEW h \in GetStates, HandlerInv(h), h.pc \in Serving,
         NEW u \in Nat, NEW ids \in Seq(Nat), Run(ids, u),
         NEW v, v = Written(h, ids)
  PROVE  /\ v \in GetStates /\ HandlerInv(v)
         /\ v.pc = h.pc /\ v.rec = h.rec /\ v.conn = h.conn
         /\ \A k \in ClientStates : Follows(k, h) /\ (h.conn = "up" => u <= End(h.wire, Base(k))) =>
              /\ Follows(k, v)
              /\ h.conn = "up" => u + Len(ids) <= End(v.wire, Base(k))
<1>1. h.wire \in Seq(Events) /\ h.rec \in Records /\ AllSignals(h.wire) /\ Numbered(h.wire)
  BY DEF GetStates, HandlerInv, Serving
<1>2. CASE h.conn # "up"
  <2>1. v = h
    BY <1>2 DEF Written
  <2>2. QED
    BY <1>2, <2>1
<1>3. CASE h.conn = "up"
  <2>1. PICK r \in Records, w \in Seq(Events) : r = h.rec /\ w = h.wire
    BY <1>1
  <2>2. PICK ev : ev = [i \in DOMAIN ids |-> Event("signal", r, ids[i])]
    OBVIOUS
  <2>3. v = [h EXCEPT !.wire = w \o ev]
    BY <1>3, <2>1, <2>2 DEF Written
  <2>4. AllSignals(w) /\ Numbered(w)
    BY <1>1, <2>1
  <2>5. /\ w \o ev \in Seq(Events) /\ AllSignals(w \o ev) /\ Numbered(w \o ev)
        /\ (\A i \in 1 .. Len(w) : w[i].rec = r) => \A i \in 1 .. Len(w \o ev) : (w \o ev)[i].rec = r
        /\ \A b \in Nat : Chain(w, b) /\ u <= End(w, b) =>
             Chain(w \o ev, b) /\ u + Len(ids) <= End(w \o ev, b)
    BY <2>2, <2>4, WrittenWire, SMTT(20)
  <2>6. v \in GetStates
    BY <2>3, <2>5 DEF GetStates
  <2>7. v.wire = w \o ev /\ v.pc = h.pc /\ v.rec = h.rec /\ v.conn = h.conn /\ v.client = h.client
    BY <2>3 DEF GetStates
  <2>8. HandlerInv(v)
    BY <1>3, <2>1, <2>5, <2>7 DEF HandlerInv, Serving
  <2>9. ASSUME NEW k \in ClientStates, Follows(k, h), u <= End(h.wire, Base(k))
        PROVE  Follows(k, v) /\ u + Len(ids) <= End(v.wire, Base(k))
    <3>1. Base(k) \in Nat
      BY BaseType
    <3>2. Chain(w, Base(k)) /\ AtRecord(h, k.from) /\ u <= End(w, Base(k))
      BY <2>1, <2>9 DEF Follows
    <3>3. Chain(v.wire, Base(k)) /\ u + Len(ids) <= End(v.wire, Base(k))
      BY <2>5, <2>7, <3>1, <3>2
    <3>4. \A i \in 1 .. Len(v.wire) : v.wire[i].rec = v.rec
      BY <2>1, <2>5, <2>7, <3>2 DEF AtRecord
    <3>5. AtRecord(v, k.from)
      BY <2>7, <3>2, <3>4 DEF AtRecord
    <3>6. OneRecord(v.wire, k.from)
      BY <3>4, <3>5 DEF AtRecord, OneRecord
    <3>7. QED
      BY <3>3, <3>5, <3>6 DEF Follows
  <2>10. QED
    BY <1>3, <2>6, <2>7, <2>8, <2>9
<1>4. QED
  BY <1>2, <1>3

LEMMA TakeUnsentStep ==
  ASSUME SseInv, NEW g \in Streams, TakeUnsent(g)
  PROVE  SseInv'
<1>1. /\ get[g].pc = "take" /\ get[g] \in GetStates /\ HandlerInv(get[g])
      /\ get[g].rec \in Records
      /\ UNCHANGED <<peers, closed, doomed, post, cli>>
      /\ peers \in Records \cup {None} /\ closed \in BOOLEAN /\ doomed \subseteq Records
      /\ rec \in [Records -> RecordStates] /\ get \in [Streams -> GetStates]
      /\ cli \in [Clients -> ClientStates] /\ post \in [Posters -> PostStates]
  BY DEF TakeUnsent, SseInv, Types, RequestsInv, HandlerInv
<1>2. PICK r \in Records : r = get[g].rec
  BY <1>1
<1>3. CASE /\ rec[r].stream # g
           /\ get' = [get EXCEPT ![g].pc = "wait"] /\ UNCHANGED rec
  <2>1. PICK h \in GetStates : h = [get[g] EXCEPT !.pc = "wait"]
    BY <1>1 DEF GetStates
  <2>2. /\ h.pc = "wait" /\ h.rec = get[g].rec /\ h.wire = get[g].wire
        /\ h.conn = get[g].conn
    BY <1>1, <2>1 DEF GetStates
  <2>3. HandlerInv(h)
    BY <1>1, <2>2 DEF HandlerInv, Serving
  <2>4. get' = [get EXCEPT ![g] = h]
    BY <1>1, <1>3, <2>1
  <2>5. ~\E q \in Records : rec[q].stream = g
    BY <1>2, <1>3 DEF SseInv, RequestsInv
  <2>6. \A q \in Records : SameRecord(q)
    BY <1>3 DEF SameRecord
  <2>7. QED
    BY <1>1, <1>3, <2>2, <2>3, <2>4, <2>5, <2>6, OneHandler DEF Asking, Serving
<1>4. ASSUME rec[r].stream = g, rec' = [rec EXCEPT ![r] = Taken(rec[r])],
             NEW h \in GetStates, get' = [get EXCEPT ![g] = h], HandlerInv(h), h.rec = r,
             h.pc \in {"wait", "detach"},
             \A c \in Clients : cli[c].get = g /\ ~cli[c].stale =>
               /\ Follows(cli[c], h)
               /\ h.pc \in Serving /\ h.conn = "up" =>
                    Taken(rec[r]).sentUpTo <= End(h.wire, Base(cli[c]))
      PROVE  SseInv'
  <2>1. /\ rec[r] \in RecordStates /\ LogInv(rec[r])
    BY <1>1 DEF SseInv, LogsInv
  <2>2. PICK p \in RecordStates : p = Taken(rec[r])
    BY <2>1, TakenKeepsLog
  <2>3. /\ LogInv(p) /\ p.stream = g /\ p.down = rec[r].down /\ p.seq = rec[r].seq
        /\ ~p.down => p.sentUpTo = p.seq
    <3>1. LogInv(p) /\ (~rec[r].down => p.sentUpTo = rec[r].seq)
      BY <2>1, <2>2, TakenKeepsLog
    <3>2. p.stream = rec[r].stream /\ p.down = rec[r].down /\ p.seq = rec[r].seq
      BY <2>1, <2>2 DEF Taken, RecordStates
    <3>3. QED
      BY <1>4, <3>1, <3>2
  <2>4. rec'[r] = p /\ \A q \in Records : q # r => rec'[q] = rec[q]
    BY <1>1, <1>4, <2>2
  <2>5. get'[g] = h /\ \A f \in Streams : f # g => get'[f] = get[f]
    BY <1>1, <1>4
  <2>6. Types'
    <3>1. rec' \in [Records -> RecordStates]
      BY <1>1, <1>4, <2>2
    <3>2. QED
      BY <1>1, <1>4, <3>1 DEF Types
  <2>7. LogsInv'
    BY <2>3, <2>4 DEF SseInv, LogsInv
  <2>8. \A q \in Records, f \in Streams : rec'[q].stream = f =>
          rec[q].stream = f /\ (f = g => q = r)
    BY <1>2, <1>4, <2>3, <2>4 DEF SseInv, RequestsInv
  <2>9. RequestsInv'
    <3>1. \A f \in Streams : HandlerInv(get'[f])
      BY <1>4, <2>5 DEF SseInv, RequestsInv
    <3>2. \A q \in Records : \A f \in Streams : rec'[q].stream = f =>
            get'[f].rec = q /\ get'[f].pc \in {"take", "wait", "detach"}
      BY <1>4, <2>5, <2>8 DEF SseInv, RequestsInv
    <3>3. \A a \in Posters : PostInv(post'[a])
      BY <1>1 DEF SseInv, RequestsInv
    <3>4. QED
      BY <3>1, <3>2, <3>3 DEF RequestsInv
  <2>10. NoLostWake'
    <3> SUFFICES ASSUME NEW q \in Records, NEW f \in Streams, rec'[q].stream = f,
                        ~rec'[q].down, rec'[q].sentUpTo < rec'[q].seq
                 PROVE  \/ get'[f].pc \in {"take", "detach"} \/ get'[f].wake
                        \/ \E a \in Posters : post'[a].pc = "poke" /\ post'[a].stream = f
      BY DEF NoLostWake
    <3>1. q # r
      <4> SUFFICES ASSUME q = r PROVE FALSE
        OBVIOUS
      <4>1. p.sentUpTo < p.seq /\ ~p.down /\ p.seq \in Nat
        BY <2>4 DEF RecordStates
      <4>2. QED
        BY <2>3, <4>1
    <3>2. f # g /\ rec'[q] = rec[q] /\ get'[f] = get[f]
      BY <2>4, <2>5, <2>8, <3>1
    <3>3. QED
      BY <1>1, <3>2 DEF SseInv, NoLostWake
  <2>11. Leads(g)
    <3>1. rec'[h.rec].sentUpTo = Taken(rec[r]).sentUpTo
      BY <1>4, <2>2, <2>4
    <3>2. QED
      BY <1>4, <2>5, <3>1 DEF Leads, Asking
  <2>12. \A f \in Streams : f # g => Stays(f)
    <3>1. \A f \in Streams : get[f].pc \in Serving => get[f].rec \in Records
      BY DEF SseInv, RequestsInv, HandlerInv, Serving
    <3>2. QED
      BY <1>4, <2>3, <2>4, <2>5, <3>1 DEF Stays
  <2>13. ClientsInv'
    BY <1>1, <2>11, <2>12, FrameClients DEF SseInv
  <2>14. QED
    BY <2>6, <2>7, <2>9, <2>10, <2>13 DEF SseInv
<1>5. CASE /\ rec[r].stream = g
           /\ rec' = [rec EXCEPT ![r] = Taken(rec[r])]
           /\ \/ get' = [get EXCEPT ![g] = [Written(get[g], Unsent(rec[r])) EXCEPT !.pc = "wait"]]
              \/ \E n \in 0 .. Len(Unsent(rec[r])) - 1 :
                   get' = [get EXCEPT ![g] = Returns(Written(get[g], SubSeq(Unsent(rec[r]), 1, n)))]
  <2>1. /\ rec[r] \in RecordStates /\ LogInv(rec[r])
    BY <1>1 DEF SseInv, LogsInv
  <2>2. PICK u \in Nat, out \in Seq(Nat) : u = rec[r].sentUpTo /\ out = Unsent(rec[r])
    BY <2>1, UnsentIs DEF RecordStates
  <2>3. Run(out, u)
    BY <2>1, <2>2, UnsentIs DEF Run
  <2>4. u + Len(out) = Taken(rec[r]).sentUpTo
    BY <2>1, <2>2, TakenKeepsLog
  <2>5. \A c \in Clients : cli[c].get = g /\ ~cli[c].stale =>
          Follows(cli[c], get[g]) /\ (get[g].conn = "up" => u <= End(get[g].wire, Base(cli[c])))
    BY <1>1, <1>2, <1>5, <2>2 DEF SseInv, ClientsInv, ClientInv, None, Streams, Serving
  <2>6. CASE get' = [get EXCEPT ![g] = [Written(get[g], out) EXCEPT !.pc = "wait"]]
    <3>1. PICK v : v = Written(get[g], out)
      OBVIOUS
    <3>2. /\ v \in GetStates /\ HandlerInv(v) /\ v.pc = "take" /\ v.rec = r /\ v.conn = get[g].conn
          /\ \A k \in ClientStates :
               Follows(k, get[g]) /\ (get[g].conn = "up" => u <= End(get[g].wire, Base(k))) =>
                 Follows(k, v) /\ (get[g].conn = "up" => u + Len(out) <= End(v.wire, Base(k)))
      <4>1. get[g].pc \in Serving
        BY <1>1 DEF Serving
      <4>2. QED
        BY <1>1, <1>2, <2>3, <3>1, <4>1, WrittenIs
    <3>3. PICK h \in GetStates : h = [v EXCEPT !.pc = "wait"]
      BY <3>2 DEF GetStates
    <3>4. h.pc = "wait" /\ h.rec = r /\ h.conn = v.conn /\ h.wire = v.wire
      BY <3>2, <3>3 DEF GetStates
    <3>5. HandlerInv(h)
      BY <3>2, <3>4 DEF HandlerInv, Serving
    <3>6. get' = [get EXCEPT ![g] = h]
      BY <2>6, <3>1, <3>3
    <3>7. ASSUME NEW c \in Clients, cli[c].get = g, ~cli[c].stale
          PROVE  /\ Follows(cli[c], h)
                 /\ h.conn = "up" => Taken(rec[r]).sentUpTo <= End(h.wire, Base(cli[c]))
      <4>1. cli[c] \in ClientStates
        BY <1>1
      <4>2. Follows(cli[c], v) /\ (get[g].conn = "up" => u + Len(out) <= End(v.wire, Base(cli[c])))
        BY <2>5, <3>2, <3>7, <4>1
      <4>3. Follows(cli[c], h)
        BY <3>2, <3>4, <4>2 DEF Follows, AtRecord, Serving
      <4>4. QED
        BY <2>4, <3>2, <3>4, <4>2, <4>3
    <3>8. QED
      BY <1>4, <1>5, <3>4, <3>5, <3>6, <3>7
  <2>7. ASSUME NEW n \in 0 .. Len(out) - 1,
               get' = [get EXCEPT ![g] = Returns(Written(get[g], SubSeq(out, 1, n)))]
        PROVE  SseInv'
    <3>0. PICK ids \in Seq(Nat) : ids = SubSeq(out, 1, n) /\ Run(ids, u)
      <4>1. \A i \in 1 .. n : out[i] \in Nat
        BY <2>2
      <4>2. /\ SubSeq(out, 1, n) \in Seq(Nat) /\ Len(SubSeq(out, 1, n)) = n
            /\ \A i \in 1 .. n : SubSeq(out, 1, n)[i] = out[i]
        <5>1. n \in Int /\ 1 \in Int /\ n >= 0
          OBVIOUS
        <5>2. /\ SubSeq(out, 1, n) \in Seq(Nat)
              /\ Len(SubSeq(out, 1, n)) = IF 1 <= n THEN n - 1 + 1 ELSE 0
              /\ \A i \in 1 .. n - 1 + 1 : SubSeq(out, 1, n)[i] = out[1 + i - 1]
          BY <4>1, <5>1, SubSeqProperties
        <5>3. QED
          BY <5>1, <5>2
      <4>3. \A i \in 1 .. n : i \in 1 .. Len(out)
        OBVIOUS
      <4>4. QED
        BY <2>3, <4>2, <4>3 DEF Run
    <3>1. PICK v : v = Written(get[g], ids)
      OBVIOUS
    <3>2. /\ v \in GetStates /\ HandlerInv(v) /\ v.pc = "take" /\ v.rec = r /\ v.conn = get[g].conn
          /\ \A k \in ClientStates :
               Follows(k, get[g]) /\ (get[g].conn = "up" => u <= End(get[g].wire, Base(k))) =>
                 Follows(k, v) /\ (get[g].conn = "up" => u + Len(ids) <= End(v.wire, Base(k)))
      <4>1. get[g].pc \in Serving
        BY <1>1 DEF Serving
      <4>2. QED
        <5>1. Run(ids, u)
          BY <3>0
        <5>2. QED
          BY <1>1, <1>2, <3>1, <4>1, <5>1, WrittenIs
    <3>3. PICK h \in GetStates : h = Returns(v)
      BY <3>2, ReturnsIs
    <3>4. /\ h.pc = "detach" /\ h.rec = r /\ h.wire = v.wire
          /\ h.conn = IF v.conn = "up" THEN "eof" ELSE v.conn
      BY <3>2, <3>3, ReturnsIs
    <3>5. HandlerInv(h)
      BY <3>2, <3>4 DEF HandlerInv, Serving
    <3>6. get' = [get EXCEPT ![g] = h]
      BY <2>7, <3>0, <3>1, <3>3
    <3>7. ASSUME NEW c \in Clients, cli[c].get = g, ~cli[c].stale
          PROVE  Follows(cli[c], h)
      <4>1. cli[c] \in ClientStates
        BY <1>1
      <4>2. Follows(cli[c], v)
        BY <2>5, <3>2, <3>7, <4>1
      <4>3. QED
        BY <3>4, <4>2 DEF Follows, Serving
    <3>8. h.pc \notin Serving
      BY <3>4 DEF Serving
    <3>9. QED
      BY <1>4, <1>5, <3>4, <3>5, <3>6, <3>7, <3>8
  <2>8. QED
    BY <1>5, <2>2, <2>6, <2>7
<1>6. QED
  <2>1. CASE rec[r].stream # g
    BY <1>2, <1>3, <2>1 DEF TakeUnsent
  <2>2. CASE rec[r].stream = g
    <3>1. rec' = [rec EXCEPT ![r] = Taken(rec[r])]
      BY <1>1, <1>2, <2>2 DEF TakeUnsent, Taken
    <3>2. QED
      BY <1>2, <1>5, <2>2, <3>1 DEF TakeUnsent
  <2>3. QED
    BY <2>1, <2>2

LEMMA AttachStep ==
  ASSUME SseInv, NEW g \in Streams, Attach(g)
  PROVE  SseInv'
<1>1. /\ get[g].pc = "attach" /\ get[g] \in GetStates /\ HandlerInv(get[g])
      /\ get[g].rec \in Records /\ get[g].client \in Clients /\ get[g].wire = <<>>
      /\ get[g].last \in Nat
      /\ UNCHANGED <<peers, closed, doomed, post>>
      /\ rec \in [Records -> RecordStates] /\ get \in [Streams -> GetStates]
      /\ cli \in [Clients -> ClientStates] /\ post \in [Posters -> PostStates]
  BY DEF Attach, SseInv, Types, RequestsInv, HandlerInv, GetStates
<1>2. PICK r \in Records, c \in Clients : r = get[g].rec /\ c = get[g].client
  BY <1>1
<1>3. rec[r] \in RecordStates /\ LogInv(rec[r]) /\ cli[c] \in ClientStates
  BY <1>1 DEF SseInv, LogsInv
<1>4. Rewound(rec[r], get[g].last) \in Nat
  BY <1>1, <1>3 DEF Rewound, RecordStates
<1>5. PICK q \in RecordStates : q = [rec[r] EXCEPT !.stream = g, !.timer = FALSE,
                                                   !.sentUpTo = Rewound(rec[r], get[g].last)]
  BY <1>3, <1>4 DEF RecordStates
<1>6. /\ q.stream = g /\ q.sentUpTo = Rewound(rec[r], get[g].last)
      /\ q.log = rec[r].log /\ q.seq = rec[r].seq /\ q.down = rec[r].down
  BY <1>3, <1>5 DEF RecordStates
<1>7. rec' = [rec EXCEPT ![r] = q]
  BY <1>1, <1>2, <1>5 DEF Attach
<1>8. rec'[r] = q /\ \A p \in Records : p # r => rec'[p] = rec[p]
  BY <1>1, <1>7
<1>9. PICK h \in GetStates : h = [get[g] EXCEPT !.pc = "take", !.last = 0]
  BY <1>1 DEF GetStates
<1>10. h.pc = "take" /\ h.rec = r /\ h.wire = <<>> /\ h.conn = get[g].conn
  BY <1>1, <1>2, <1>9 DEF GetStates
<1>11. /\ get' \in [Streams -> GetStates] /\ get'[g] = h
       /\ \A f \in Streams : f # g =>
            /\ get'[f].pc = get[f].pc /\ get'[f].client = get[f].client /\ get'[f].last = get[f].last
            /\ get'[f].rec = get[f].rec /\ get'[f].wake = get[f].wake
            /\ get'[f].conn = get[f].conn /\ get'[f].wire = get[f].wire
  <2>1. get' = [f \in Streams |->
                  IF f = g THEN h
                  ELSE IF f = rec[r].stream THEN [get[f] EXCEPT !.end = "replaced"]
                  ELSE get[f]]
    BY <1>2, <1>9 DEF Attach
  <2>2. \A f \in Streams : get[f] \in GetStates
    BY <1>1
  <2>3. \A e \in GetStates :
          /\ [e EXCEPT !.end = "replaced"] \in GetStates
          /\ [e EXCEPT !.end = "replaced"].pc = e.pc
          /\ [e EXCEPT !.end = "replaced"].client = e.client
          /\ [e EXCEPT !.end = "replaced"].last = e.last
          /\ [e EXCEPT !.end = "replaced"].rec = e.rec
          /\ [e EXCEPT !.end = "replaced"].wake = e.wake
          /\ [e EXCEPT !.end = "replaced"].conn = e.conn
          /\ [e EXCEPT !.end = "replaced"].wire = e.wire
    BY DEF GetStates
  <2>4. QED
    BY <2>1, <2>2, <2>3
<1>12. PICK k \in ClientStates :
         k = [cli[c] EXCEPT !.stale = @ \/ (get[g].last > 0 /\ cli[c].from # r),
                            !.floor = IF cli[c].get = g THEN Trimmed(r) ELSE @]
  <2>1. Trimmed(r) \in Nat
    BY <1>3 DEF Trimmed, LogInv, RecordStates
  <2>2. (cli[c].stale \/ (get[g].last > 0 /\ cli[c].from # r)) \in BOOLEAN
    OBVIOUS
  <2>3. QED
    BY <1>3, <2>1, <2>2 DEF ClientStates
<1>13. /\ k.pc = cli[c].pc /\ k.get = cli[c].get /\ k.lastID = cli[c].lastID /\ k.from = cli[c].from
       /\ ~k.stale => ~cli[c].stale /\ (get[g].last = 0 \/ cli[c].from = r)
       /\ k.floor = IF cli[c].get = g THEN Trimmed(r) ELSE cli[c].floor
  <2>1. /\ k.pc = cli[c].pc /\ k.get = cli[c].get /\ k.lastID = cli[c].lastID /\ k.from = cli[c].from
        /\ k.floor = IF cli[c].get = g THEN Trimmed(r) ELSE cli[c].floor
    BY <1>3, <1>12 DEF ClientStates
  <2>2. k.stale = (cli[c].stale \/ (get[g].last > 0 /\ cli[c].from # r))
    BY <1>3, <1>12 DEF ClientStates
  <2>3. ~(get[g].last > 0) => get[g].last = 0
    BY <1>1
  <2>4. QED
    BY <2>1, <2>2, <2>3
<1>14. cli' = [cli EXCEPT ![c] = k]
  BY <1>1, <1>2, <1>12 DEF Attach
<1>15. cli'[c] = k /\ \A d \in Clients : d # c => cli'[d] = cli[d]
  BY <1>1, <1>14
<1>16. Types'
  <2>1. rec' \in [Records -> RecordStates] /\ cli' \in [Clients -> ClientStates]
    BY <1>1, <1>7, <1>14
  <2>2. QED
    BY <1>1, <1>11, <2>1 DEF SseInv, Types
<1>17. /\ LogInv(q)
       /\ q.sentUpTo <= IF get[g].last > Floor(rec[r]) THEN get[g].last ELSE Floor(rec[r])
  BY <1>1, <1>3, <1>6, RewoundKeepsLog
<1>18. LogsInv'
  BY <1>8, <1>17 DEF SseInv, LogsInv
<1>19. \A p \in Records, f \in Streams : rec'[p].stream = f =>
         (p = r /\ f = g) \/ (p # r /\ f # g /\ rec'[p] = rec[p])
  BY <1>1, <1>6, <1>8 DEF SseInv, RequestsInv
<1>20. RequestsInv'
  <2>1. HandlerInv(h)
    <3>1. Len(<<>>) = 0 /\ \A i \in 1 .. 0 : FALSE
      OBVIOUS
    <3>2. QED
      BY <1>1, <1>10, <3>1 DEF HandlerInv, AllSignals, Numbered
  <2>2. \A f \in Streams : HandlerInv(get'[f])
    BY <1>11, <2>1 DEF SseInv, RequestsInv, HandlerInv
  <2>3. \A p \in Records : \A f \in Streams : rec'[p].stream = f =>
          get'[f].rec = p /\ get'[f].pc \in {"take", "wait", "detach"}
    BY <1>10, <1>11, <1>19 DEF SseInv, RequestsInv
  <2>4. \A p \in Posters : PostInv(post'[p])
    BY <1>1 DEF SseInv, RequestsInv
  <2>5. QED
    BY <2>2, <2>3, <2>4 DEF RequestsInv
<1>21. NoLostWake'
  BY <1>1, <1>10, <1>11, <1>19 DEF SseInv, NoLostWake
<1>22. ASSUME NEW d \in Clients, cli[d].get # g,
              cli'[d].pc = cli[d].pc, cli'[d].get = cli[d].get, cli'[d].lastID = cli[d].lastID,
              cli'[d].from = cli[d].from, cli'[d].floor = cli[d].floor,
              ~cli'[d].stale => ~cli[d].stale
       PROVE  ClientInv(d)'
  <2>1. ClientInv(d) /\ cli[d] \in ClientStates
    BY <1>1 DEF SseInv, ClientsInv
  <2>2. CASE cli[d].get = None
    BY <1>22, <2>1, <2>2 DEF ClientInv
  <2>3. CASE cli[d].get # None
    <3>1. PICK f \in Streams : f = cli[d].get /\ f # g
      BY <1>22, <2>1, <2>3 DEF ClientStates
    <3>2. Base(cli'[d]) = Base(cli[d])
      BY <1>22 DEF Base
    <3>3. Follows(cli[d], get[f]) => Follows(cli'[d], get'[f])
      BY <1>11, <1>22, <3>1, <3>2 DEF Follows, AtRecord
    <3>4. get[f].pc \in Serving => get[f].rec \in Records
      BY DEF SseInv, RequestsInv, HandlerInv, Serving
    <3>5. get'[f].pc \in Serving /\ rec'[get'[f].rec].stream = f => rec'[get[f].rec] = rec[get[f].rec]
      BY <1>11, <1>19, <3>1, <3>4
    <3>6. QED
      BY <1>11, <1>22, <2>1, <2>3, <3>1, <3>2, <3>3, <3>5 DEF ClientInv
  <2>4. QED
    BY <2>2, <2>3
<1>23. CASE cli[c].get = g
  <2>1. ClientInv(c) /\ get[g].last = cli[c].lastID
    BY <1>1, <1>2, <1>23 DEF SseInv, ClientsInv, ClientInv, None, Streams
  <2>2. Len(<<>>) = 0 /\ \A i \in 1 .. 0 : FALSE
    OBVIOUS
  <2>3. ~k.stale => k.from = None \/ k.from = r
    BY <1>13, <2>1 DEF ClientInv
  <2>4. ~k.stale => Follows(k, h)
    BY <1>10, <2>2, <2>3 DEF Follows, AtRecord, Chain, OneRecord
  <2>5. q.sentUpTo <= Base(k)
    <3>1. k.floor = Floor(rec[r]) /\ k.lastID = get[g].last
      BY <1>13, <1>23, <2>1 DEF Trimmed, Floor
    <3>2. QED
      BY <1>17, <3>1 DEF Base
  <2>6. End(h.wire, Base(k)) = Base(k)
    BY <1>10 DEF End
  <2>7. ClientInv(c)'
    BY <1>8, <1>10, <1>11, <1>13, <1>15, <1>23, <2>1, <2>4, <2>5, <2>6 DEF ClientInv
  <2>8. ASSUME NEW d \in Clients, d # c PROVE cli[d].get # g
    BY <1>23, <2>8 DEF SseInv, ClientsInv, None, Streams
  <2>9. \A d \in Clients : d # c => ClientInv(d)'
    BY <1>15, <1>22, <2>8
  <2>10. \A d, e \in Clients : cli'[d].get # None /\ cli'[d].get = cli'[e].get => d = e
    BY <1>13, <1>15 DEF SseInv, ClientsInv
  <2>11. ClientsInv'
    BY <2>7, <2>9, <2>10 DEF ClientsInv
  <2>12. QED
    BY <1>16, <1>18, <1>20, <1>21, <2>11 DEF SseInv
<1>24. CASE cli[c].get # g
  <2>1. ASSUME NEW d \in Clients, d # c PROVE cli[d].get # g
    BY <1>1, <1>2, <2>1 DEF SseInv, ClientsInv, ClientInv, None, Streams
  <2>2. \A d \in Clients : d # c => ClientInv(d)'
    BY <1>15, <1>22, <2>1
  <2>3. ClientInv(c)'
    BY <1>13, <1>15, <1>22, <1>24
  <2>4. \A d, e \in Clients : cli'[d].get # None /\ cli'[d].get = cli'[e].get => d = e
    BY <1>13, <1>15 DEF SseInv, ClientsInv
  <2>5. ClientsInv'
    BY <2>2, <2>3, <2>4 DEF ClientsInv
  <2>6. QED
    BY <1>16, <1>18, <1>20, <1>21, <2>5 DEF SseInv
<1>25. QED
  BY <1>23, <1>24

-----------------------------------------------------------------------------
(* The steps of posters, of the reaper and of Close.                       *)

\* Neither handlers nor clients move, and the records' logs and streams stay.
LEMMA QuietStep ==
  ASSUME SseInv, UNCHANGED <<get, cli>>,
         peers' \in Records \cup {None}, closed' \in BOOLEAN, doomed' \subseteq Records,
         rec' \in [Records -> RecordStates], post' \in [Posters -> PostStates],
         \A r \in Records : SameRecord(r),
         \A p \in Posters : post'[p] = post[p] \/ (post[p].pc # "poke" /\ PostInv(post'[p]))
  PROVE  SseInv'
<1>1. Types /\ LogsInv /\ RequestsInv /\ NoLostWake /\ ClientsInv
  BY DEF SseInv
<1>2. Types'
  BY <1>1 DEF Types
<1>3. \A f \in Streams : get'[f] = get[f] \/ Moves(f)
  OBVIOUS
<1>4. LogsInv' /\ RequestsInv' /\ NoLostWake'
  BY <1>1, <1>2, <1>3, FrameRequests
<1>5. \A f \in Streams : get[f].pc \in Serving => get[f].rec \in Records
  BY <1>1 DEF RequestsInv, HandlerInv, Serving
<1>6. \A f \in Streams : Stays(f)
  BY <1>5 DEF Stays, SameRecord
<1>7. ClientsInv'
  BY <1>1, <1>6, FrameClients
<1>8. QED
  BY <1>2, <1>4, <1>7 DEF SseInv

LEMMA LookupStep ==
  ASSUME SseInv, NEW p \in Posters, Lookup(p)
  PROVE  SseInv'
<1>1. /\ Types /\ post[p].pc = "idle" /\ peers \in Records
      /\ post' = [post EXCEPT ![p].pc = "enqueue", ![p].rec = peers]
      /\ UNCHANGED <<peers, closed, doomed, rec, get, cli>>
  BY DEF Lookup, SseInv, Types
<1>2. post[p] \in PostStates /\ post \in [Posters -> PostStates]
  BY <1>1 DEF Types
<1>3. PICK q \in PostStates : q = [post[p] EXCEPT !.pc = "enqueue", !.rec = peers]
  BY <1>1, <1>2 DEF PostStates
<1>4. q.pc = "enqueue" /\ q.rec = peers
  BY <1>2, <1>3 DEF PostStates
<1>5. post' = [post EXCEPT ![p] = q]
  BY <1>1, <1>2, <1>3
<1>6. post' \in [Posters -> PostStates] /\ post'[p] = q /\ \A a \in Posters : a # p => post'[a] = post[a]
  BY <1>2, <1>5
<1>7. \A a \in Posters : post'[a] = post[a] \/ (post[a].pc # "poke" /\ PostInv(post'[a]))
  BY <1>1, <1>4, <1>6 DEF PostInv
<1>8. \A r \in Records : SameRecord(r)
  BY <1>1 DEF SameRecord
<1>9. QED
  BY <1>1, <1>6, <1>7, <1>8, QuietStep DEF Types

LEMMA NewPostIs == NewPost \in PostStates /\ PostInv(NewPost) /\ NewPost.pc = "idle"
  BY DEF NewPost, PostStates, PostInv, None

LEMMA EnqueueStep ==
  ASSUME SseInv, NEW p \in Posters, Enqueue(p)
  PROVE  SseInv'
<1>1. /\ Types /\ LogsInv /\ RequestsInv /\ NoLostWake /\ ClientsInv
      /\ post[p].pc = "enqueue"
      /\ UNCHANGED <<peers, closed, doomed, get, cli>>
  BY DEF Enqueue, SseInv
<1>2. /\ rec \in [Records -> RecordStates] /\ post \in [Posters -> PostStates]
      /\ post[p] \in PostStates
  BY <1>1 DEF Types
<1>3. PICK r \in Records : r = post[p].rec
  BY <1>1 DEF RequestsInv, PostInv
<1>4. rec[r] \in RecordStates /\ LogInv(rec[r])
  BY <1>1, <1>2 DEF LogsInv
<1>5. CASE post' = [post EXCEPT ![p] = NewPost] /\ UNCHANGED rec
  <2>1. \A q \in Records : SameRecord(q)
    BY <1>5 DEF SameRecord
  <2>2. post' \in [Posters -> PostStates]
    BY <1>2, <1>5, NewPostIs
  <2>3. \A a \in Posters : post'[a] = post[a] \/ (post[a].pc # "poke" /\ PostInv(post'[a]))
    BY <1>1, <1>2, <1>5, NewPostIs
  <2>4. QED
    BY <1>1, <1>5, <2>1, <2>2, <2>3, QuietStep DEF Types
<1>6. CASE /\ ~rec[r].down /\ ~(rec[r].seq - rec[r].sentUpTo >= QueueSize)
           /\ rec' = [rec EXCEPT ![r].seq = @ + 1, ![r].log = Append(@, rec[r].seq + 1)]
           /\ post' = [post EXCEPT ![p] =
                         IF rec[r].stream = None THEN NewPost
                         ELSE [NewPost EXCEPT !.pc = "poke", !.stream = rec[r].stream]]
  <2>1. /\ rec[r].seq \in Nat /\ rec[r].sentUpTo \in Nat /\ QueueSize \in Nat
        /\ rec[r].log \in Seq(Nat) /\ rec[r].stream \in Streams \cup {None}
    BY <1>4, SseAssumption DEF RecordStates
  <2>2. PICK q \in RecordStates :
          q = [rec[r] EXCEPT !.seq = rec[r].seq + 1, !.log = Append(rec[r].log, rec[r].seq + 1)]
    <3>1. rec[r].seq + 1 \in Nat
      BY <2>1
    <3>2. Append(rec[r].log, rec[r].seq + 1) \in Seq(Nat)
      BY <2>1, <3>1, AppendProperties
    <3>3. QED
      BY <1>4, <3>1, <3>2 DEF RecordStates
  <2>3. /\ q.seq = rec[r].seq + 1 /\ q.log = Append(rec[r].log, rec[r].seq + 1)
        /\ q.sentUpTo = rec[r].sentUpTo /\ q.down = rec[r].down /\ q.stream = rec[r].stream
    BY <1>4, <2>2 DEF RecordStates
  <2>4. rec' = [rec EXCEPT ![r] = q]
    BY <1>2, <1>6, <2>2
  <2>5. /\ rec' \in [Records -> RecordStates] /\ rec'[r] = q
        /\ \A s \in Records : s # r => rec'[s] = rec[s]
    BY <1>2, <2>4
  <2>6. rec[r].seq - rec[r].sentUpTo < QueueSize
    BY <1>6, <2>1
  <2>7. LogInv(q)
    BY <1>4, <1>6, <2>3, <2>6, EnqueuedKeepsLog
  <2>8. LogsInv'
    BY <1>1, <2>5, <2>7 DEF LogsInv
  <2>9. PICK z \in PostStates :
          z = IF rec[r].stream = None THEN NewPost
              ELSE [NewPost EXCEPT !.pc = "poke", !.stream = rec[r].stream]
    BY <2>1, NewPostIs DEF NewPost, PostStates
  <2>10. PostInv(z) /\ (rec[r].stream # None => z.pc = "poke" /\ z.stream = rec[r].stream)
    BY <2>1, <2>9, NewPostIs DEF NewPost, PostInv
  <2>11. post' = [post EXCEPT ![p] = z]
    BY <1>6, <2>9
  <2>12. /\ post' \in [Posters -> PostStates] /\ post'[p] = z
         /\ \A a \in Posters : a # p => post'[a] = post[a]
    BY <1>2, <2>11
  <2>13. Types'
    BY <1>1, <2>5, <2>12 DEF Types
  <2>14. \A s \in Records : rec'[s].stream = rec[s].stream /\ rec'[s].sentUpTo = rec[s].sentUpTo
    BY <2>3, <2>5
  <2>15. RequestsInv'
    BY <1>1, <2>10, <2>12, <2>14 DEF RequestsInv
  <2>16. NoLostWake'
    <3> SUFFICES ASSUME NEW s \in Records, NEW g \in Streams, rec'[s].stream = g,
                        ~rec'[s].down, rec'[s].sentUpTo < rec'[s].seq
                 PROVE  \/ get'[g].pc \in {"take", "detach"} \/ get'[g].wake
                        \/ \E a \in Posters : post'[a].pc = "poke" /\ post'[a].stream = g
      BY DEF NoLostWake
    <3>1. CASE s = r
      <4>1. g = rec[r].stream /\ g # None
        BY <2>14, <3>1 DEF None, Streams
      <4>2. QED
        BY <2>10, <2>12, <4>1
    <3>2. CASE s # r
      <4>1. rec'[s] = rec[s]
        BY <2>5, <3>2
      <4>2. \/ get[g].pc \in {"take", "detach"} \/ get[g].wake
            \/ \E a \in Posters : post[a].pc = "poke" /\ post[a].stream = g
        BY <1>1, <4>1 DEF NoLostWake
      <4>3. QED
        BY <1>1, <2>12, <4>2
    <3>3. QED
      BY <3>1, <3>2
  <2>17. ClientsInv'
    <3>1. \A f \in Streams : get[f].pc \in Serving => get[f].rec \in Records
      BY <1>1 DEF RequestsInv, HandlerInv, Serving
    <3>2. \A f \in Streams : Stays(f)
      BY <1>1, <2>14, <3>1 DEF Stays
    <3>3. QED
      BY <1>1, <3>2, FrameClients
  <2>18. QED
    BY <2>8, <2>13, <2>15, <2>16, <2>17 DEF SseInv
<1>7. QED
  BY <1>3, <1>5, <1>6 DEF Enqueue

\* Of a handler only the wake-up or the reason of the end changes.
SameHandler(f) ==
  /\ get'[f].pc = get[f].pc /\ get'[f].client = get[f].client /\ get'[f].last = get[f].last
  /\ get'[f].rec = get[f].rec /\ get'[f].conn = get[f].conn /\ get'[f].wire = get[f].wire

LEMMA SameLeads ==
  ASSUME Types, ClientsInv, NEW f \in Streams, SameHandler(f),
         get[f].pc \in Serving /\ rec'[get[f].rec].stream = f =>
           rec[get[f].rec].stream = f /\ rec'[get[f].rec].sentUpTo = rec[get[f].rec].sentUpTo
  PROVE  Leads(f)
<1> SUFFICES ASSUME NEW c \in Clients, cli[c].get = f, ~cli[c].stale
             PROVE  /\ Follows(cli[c], get'[f])
                    /\ get'[f].pc \in Serving /\ get'[f].conn = "up" /\ rec'[get'[f].rec].stream = f =>
                         rec'[get'[f].rec].sentUpTo <= End(get'[f].wire, Base(cli[c]))
  BY DEF Leads, SameHandler
<1>1. /\ Follows(cli[c], get[f])
      /\ get[f].pc \in Serving /\ get[f].conn = "up" /\ rec[get[f].rec].stream = f =>
           rec[get[f].rec].sentUpTo <= End(get[f].wire, Base(cli[c]))
  BY DEF ClientsInv, ClientInv, None, Streams
<1>2. Follows(cli[c], get'[f])
  BY <1>1 DEF Follows, AtRecord, SameHandler
<1>3. QED
  BY <1>1, <1>2 DEF SameHandler

LEMMA PokeStep ==
  ASSUME SseInv, NEW p \in Posters, Poke(p)
  PROVE  SseInv'
<1>1. /\ Types /\ LogsInv /\ RequestsInv /\ NoLostWake /\ ClientsInv
      /\ post[p].pc = "poke" /\ post' = [post EXCEPT ![p] = NewPost]
      /\ UNCHANGED <<peers, closed, doomed, rec, cli>>
  BY DEF Poke, SseInv
<1>2. /\ get \in [Streams -> GetStates] /\ post \in [Posters -> PostStates]
  BY <1>1 DEF Types
<1>3. PICK g \in Streams : g = post[p].stream
  BY <1>1 DEF RequestsInv, PostInv
<1>4. PICK h \in GetStates :
        h = IF get[g].pc \in Serving THEN [get[g] EXCEPT !.wake = TRUE] ELSE get[g]
  <2>1. get[g] \in GetStates
    BY <1>2
  <2>2. QED
    BY <2>1 DEF GetStates
<1>5. /\ h.pc = get[g].pc /\ h.client = get[g].client /\ h.last = get[g].last
      /\ h.rec = get[g].rec /\ h.conn = get[g].conn /\ h.wire = get[g].wire
      /\ get[g].pc \in Serving => h.wake
  <2>1. get[g] \in GetStates
    BY <1>2
  <2>2. QED
    BY <1>4, <2>1 DEF GetStates
<1>6. get' = [get EXCEPT ![g] = h]
  BY <1>2, <1>3, <1>4 DEF Poke
<1>7. /\ get' \in [Streams -> GetStates] /\ get'[g] = h
      /\ \A f \in Streams : f # g => get'[f] = get[f]
  BY <1>2, <1>6
<1>8. /\ post' \in [Posters -> PostStates] /\ PostInv(post'[p])
      /\ \A a \in Posters : a # p => post'[a] = post[a]
  BY <1>1, <1>2, NewPostIs
<1>9. Types'
  BY <1>1, <1>7, <1>8 DEF Types
<1>10. LogsInv'
  BY <1>1 DEF LogsInv
<1>11. \A f \in Streams : SameHandler(f)
  BY <1>5, <1>7 DEF SameHandler
<1>12. RequestsInv'
  <2>1. \A f \in Streams : HandlerInv(get'[f])
    BY <1>1, <1>11 DEF RequestsInv, HandlerInv, SameHandler
  <2>2. \A a \in Posters : PostInv(post'[a])
    BY <1>1, <1>8 DEF RequestsInv
  <2>3. \A r \in Records : \A f \in Streams : rec'[r].stream = f =>
          get'[f].rec = r /\ get'[f].pc \in {"take", "wait", "detach"}
    BY <1>1, <1>11 DEF RequestsInv, SameHandler
  <2>4. QED
    BY <2>1, <2>2, <2>3 DEF RequestsInv
<1>13. NoLostWake'
  <2> SUFFICES ASSUME NEW s \in Records, NEW f \in Streams, rec'[s].stream = f,
                      ~rec'[s].down, rec'[s].sentUpTo < rec'[s].seq
               PROVE  \/ get'[f].pc \in {"take", "detach"} \/ get'[f].wake
                      \/ \E a \in Posters : post'[a].pc = "poke" /\ post'[a].stream = f
    BY DEF NoLostWake
  <2>1. \/ get[f].pc \in {"take", "detach"} \/ get[f].wake
        \/ \E a \in Posters : post[a].pc = "poke" /\ post[a].stream = f
    BY <1>1 DEF NoLostWake
  <2>2. CASE f = g
    <3>1. get[f].pc \in {"take", "wait", "detach"}
      BY <1>1 DEF RequestsInv
    <3>2. QED
      BY <1>5, <1>7, <2>2, <3>1 DEF Serving
  <2>3. CASE f # g
    BY <1>3, <1>7, <1>8, <2>1, <2>3
  <2>4. QED
    BY <2>2, <2>3
<1>14. \A f \in Streams : Leads(f)
  BY <1>1, <1>11, SameLeads
<1>15. ClientsInv'
  BY <1>1, <1>14, FrameClients
<1>16. QED
  BY <1>9, <1>10, <1>12, <1>13, <1>15 DEF SseInv

LEMMA ReaperFiresStep ==
  ASSUME SseInv, NEW r \in Records, ReaperFires(r)
  PROVE  SseInv'
<1>1. /\ Types /\ rec \in [Records -> RecordStates]
      /\ rec' = [rec EXCEPT ![r].timer = FALSE, ![r].expire = "fired"]
      /\ UNCHANGED <<peers, closed, doomed, get, post, cli>>
  BY DEF ReaperFires, SseInv, Types
<1>2. rec' \in [Records -> RecordStates] /\ \A q \in Records : SameRecord(q)
  BY <1>1, ZenonT(60) DEF RecordStates, SameRecord
<1>3. QED
  BY <1>1, <1>2, QuietStep DEF Types

LEMMA ForgetStep ==
  ASSUME SseInv, NEW r \in Records, Forget(r)
  PROVE  SseInv'
<1>1. /\ Types /\ rec \in [Records -> RecordStates] /\ peers' \in Records \cup {None}
      /\ rec' = [rec EXCEPT ![r].expire = "idle"]
      /\ UNCHANGED <<closed, doomed, get, post, cli>>
  BY DEF Forget, SseInv, Types
<1>2. rec' \in [Records -> RecordStates] /\ \A q \in Records : SameRecord(q)
  BY <1>1, ZenonT(60) DEF RecordStates, SameRecord
<1>3. QED
  BY <1>1, <1>2, QuietStep DEF Types

LEMMA ServerCloseStep ==
  ASSUME SseInv, ServerClose
  PROVE  SseInv'
<1>1. /\ Types /\ peers' \in Records \cup {None} /\ closed' \in BOOLEAN /\ doomed' \subseteq Records
      /\ UNCHANGED <<rec, get, post, cli>>
  BY DEF ServerClose, SseInv, Types
<1>2. \A q \in Records : SameRecord(q)
  BY <1>1 DEF SameRecord
<1>3. QED
  BY <1>1, <1>2, QuietStep DEF Types

\* A record that is taken down lets go of its log, and has no stream.
LEMMA TakenDown ==
  ASSUME SseInv, NEW r \in Records, NEW q \in RecordStates, rec' = [rec EXCEPT ![r] = q],
         q.down, q.log = <<>>, q.stream = None, q.seq = rec[r].seq, q.sentUpTo = rec[r].sentUpTo,
         peers' \in Records \cup {None}, closed' \in BOOLEAN, doomed' \subseteq Records,
         get' \in [Streams -> GetStates], UNCHANGED <<post, cli>>,
         \A f \in Streams : SameHandler(f) /\ get'[f].wake = get[f].wake
  PROVE  SseInv'
<1>1. Types /\ LogsInv /\ RequestsInv /\ NoLostWake /\ ClientsInv
  BY DEF SseInv
<1>2. /\ rec \in [Records -> RecordStates] /\ rec[r] \in RecordStates /\ LogInv(rec[r])
  BY <1>1 DEF Types, LogsInv
<1>3. /\ rec' \in [Records -> RecordStates] /\ rec'[r] = q
      /\ \A s \in Records : s # r => rec'[s] = rec[s]
  BY <1>2
<1>4. Types'
  BY <1>1, <1>3 DEF Types
<1>5. LogInv(q)
  <2>1. Len(<<>>) = 0 /\ \A i \in 1 .. 0 : FALSE
    OBVIOUS
  <2>2. /\ q.seq \in Nat /\ q.sentUpTo <= q.seq /\ QueueSize \in Nat /\ ReplayDepth \in Nat
    BY <1>2, SseAssumption DEF RecordStates, LogInv
  <2>3. QED
    BY <2>1, <2>2 DEF LogInv
<1>6. LogsInv'
  BY <1>1, <1>3, <1>5 DEF LogsInv
<1>7. \A s \in Records, f \in Streams : rec'[s].stream = f => s # r /\ rec'[s] = rec[s]
  BY <1>3 DEF None, Streams
<1>8. RequestsInv'
  <2>1. \A f \in Streams : HandlerInv(get'[f])
    BY <1>1 DEF RequestsInv, HandlerInv, SameHandler
  <2>2. \A a \in Posters : PostInv(post'[a])
    BY <1>1 DEF RequestsInv
  <2>3. \A s \in Records : \A f \in Streams : rec'[s].stream = f =>
          get'[f].rec = s /\ get'[f].pc \in {"take", "wait", "detach"}
    BY <1>1, <1>7 DEF RequestsInv, SameHandler
  <2>4. QED
    BY <2>1, <2>2, <2>3 DEF RequestsInv
<1>9. NoLostWake'
  <2> SUFFICES ASSUME NEW s \in Records, NEW f \in Streams, rec'[s].stream = f,
                      ~rec'[s].down, rec'[s].sentUpTo < rec'[s].seq
               PROVE  \/ get'[f].pc \in {"take", "detach"} \/ get'[f].wake
                      \/ \E a \in Posters : post'[a].pc = "poke" /\ post'[a].stream = f
    BY DEF NoLostWake
  <2>1. rec'[s] = rec[s]
    BY <1>7
  <2>2. \/ get[f].pc \in {"take", "detach"} \/ get[f].wake
        \/ \E a \in Posters : post[a].pc = "poke" /\ post[a].stream = f
    BY <1>1, <2>1 DEF NoLostWake
  <2>3. QED
    BY <2>2 DEF SameHandler
<1>10. \A f \in Streams : get[f].pc \in Serving => get[f].rec \in Records
  BY <1>1 DEF RequestsInv, HandlerInv, Serving
<1>11. \A f \in Streams : Leads(f)
  BY <1>1, <1>7, <1>10, SameLeads
<1>12. ClientsInv'
  BY <1>1, <1>11, FrameClients
<1>13. QED
  BY <1>4, <1>6, <1>8, <1>9, <1>12 DEF SseInv

LEMMA ExpireStep ==
  ASSUME SseInv, NEW r \in Records, Expire(r)
  PROVE  SseInv'
<1>1. /\ Types /\ rec \in [Records -> RecordStates] /\ rec[r] \in RecordStates
      /\ UNCHANGED <<peers, closed, doomed, get, post, cli>>
  BY DEF Expire, SseInv, Types
<1>2. CASE rec[r].stream # None \/ rec[r].down
  <2>1. rec' = [rec EXCEPT ![r].expire = "idle"]
    BY <1>2 DEF Expire
  <2>2. rec' \in [Records -> RecordStates] /\ \A q \in Records : SameRecord(q)
    BY <1>1, <2>1 DEF RecordStates, SameRecord
  <2>3. QED
    BY <1>1, <2>2, QuietStep DEF Types
<1>3. CASE rec[r].stream = None /\ ~rec[r].down
  <2>1. rec' = [rec EXCEPT ![r].expire = "forget", ![r].down = TRUE, ![r].log = <<>>]
    BY <1>3 DEF Expire
  <2>2. <<>> \in Seq(Nat)
    OBVIOUS
  <2>3. PICK q \in RecordStates : q = [rec[r] EXCEPT !.expire = "forget", !.down = TRUE, !.log = <<>>]
    BY <1>1, <2>2 DEF RecordStates
  <2>4. /\ q.down /\ q.log = <<>> /\ q.stream = None /\ q.seq = rec[r].seq
        /\ q.sentUpTo = rec[r].sentUpTo
    BY <1>1, <1>3, <2>3 DEF RecordStates
  <2>5. rec' = [rec EXCEPT ![r] = q]
    BY <1>1, <2>1, <2>3
  <2>6. \A f \in Streams : SameHandler(f) /\ get'[f].wake = get[f].wake
    BY <1>1 DEF SameHandler
  <2>7. QED
    BY <1>1, <2>4, <2>5, <2>6, TakenDown DEF Types
<1>4. QED
  BY <1>2, <1>3

LEMMA ShutdownStep ==
  ASSUME SseInv, NEW r \in Records, Shutdown(r)
  PROVE  SseInv'
<1>1. /\ Types /\ rec \in [Records -> RecordStates] /\ rec[r] \in RecordStates
      /\ get \in [Streams -> GetStates]
      /\ doomed' \subseteq Records
      /\ rec' = [rec EXCEPT ![r].down = TRUE, ![r].log = <<>>, ![r].timer = FALSE, ![r].stream = None]
      /\ UNCHANGED <<peers, closed, post, cli>>
  BY DEF Shutdown, SseInv, Types
<1>2. <<>> \in Seq(Nat)
  OBVIOUS
<1>3. PICK q \in RecordStates :
        q = [rec[r] EXCEPT !.down = TRUE, !.log = <<>>, !.timer = FALSE, !.stream = None]
  BY <1>1, <1>2 DEF RecordStates
<1>4. /\ q.down /\ q.log = <<>> /\ q.stream = None /\ q.seq = rec[r].seq
      /\ q.sentUpTo = rec[r].sentUpTo
  BY <1>1, <1>3 DEF RecordStates
<1>5. rec' = [rec EXCEPT ![r] = q]
  BY <1>1, <1>3
<1>6. /\ get' \in [Streams -> GetStates]
      /\ \A f \in Streams : SameHandler(f) /\ get'[f].wake = get[f].wake
  <2>1. CASE rec[r].stream = None
    BY <1>1, <2>1 DEF Shutdown, SameHandler
  <2>2. CASE rec[r].stream # None
    <3>1. PICK g \in Streams : g = rec[r].stream
      BY <1>1, <2>2 DEF RecordStates
    <3>2. get' = [get EXCEPT ![g].end = "shutdown"]
      BY <2>2, <3>1 DEF Shutdown
    <3>3. QED
      BY <1>1, <3>2, ZenonT(60) DEF GetStates, SameHandler
  <2>3. QED
    BY <2>1, <2>2
<1>7. QED
  BY <1>1, <1>4, <1>5, <1>6, TakenDown DEF Types

-----------------------------------------------------------------------------
(* The steps of a client.                                                  *)

LEMMA ClientKept ==
  ASSUME NEW d \in Clients, ClientInv(d), cli'[d] = cli[d], UNCHANGED rec,
         cli[d].get # None => get'[cli[d].get] = get[cli[d].get]
  PROVE  ClientInv(d)'
  BY DEF ClientInv

\* A client leaves its stream, if it has one, and the stream is cut.
LEMMA Leaves ==
  ASSUME SseInv, NEW c \in Clients, NEW k \in ClientStates, cli' = [cli EXCEPT ![c] = k],
         k.pc # "stream", k.get = None, k.lastID = cli[c].lastID, k.from = cli[c].from,
         get' = IF cli[c].get = None THEN get ELSE Cut(cli[c].get),
         UNCHANGED <<peers, closed, doomed, rec, post>>
  PROVE  SseInv'
<1>1. Types /\ LogsInv /\ RequestsInv /\ NoLostWake /\ ClientsInv
  BY DEF SseInv
<1>2. /\ cli \in [Clients -> ClientStates] /\ get \in [Streams -> GetStates]
      /\ cli[c] \in ClientStates
  BY <1>1 DEF Types
<1>3. /\ cli' \in [Clients -> ClientStates] /\ cli'[c] = k
      /\ \A d \in Clients : d # c => cli'[d] = cli[d]
  BY <1>2
<1>4. \A q \in Records : SameRecord(q)
  BY DEF SameRecord
<1>5. /\ get' \in [Streams -> GetStates]
      /\ \A f \in Streams : f # cli[c].get => get'[f] = get[f]
      /\ \A f \in Streams : f = cli[c].get =>
           /\ get'[f].pc = get[f].pc /\ get'[f].rec = get[f].rec /\ get'[f].wake = get[f].wake
           /\ get'[f].client = get[f].client /\ get'[f].wire = <<>>
  <2>1. CASE cli[c].get = None
    BY <1>2, <2>1 DEF None, Streams
  <2>2. CASE cli[c].get # None
    <3>1. PICK g \in Streams : g = cli[c].get
      BY <1>2, <2>2 DEF ClientStates
    <3>2. get' = [get EXCEPT ![g].conn = "cut", ![g].wire = <<>>]
      BY <2>2, <3>1 DEF Cut
    <3>3. <<>> \in Seq(Events)
      OBVIOUS
    <3>4. get[g] \in GetStates
      BY <1>2
    <3>5. PICK h \in GetStates : h = [get[g] EXCEPT !.conn = "cut", !.wire = <<>>]
      BY <3>3, <3>4 DEF GetStates
    <3>6. /\ h.pc = get[g].pc /\ h.rec = get[g].rec /\ h.wake = get[g].wake
          /\ h.client = get[g].client /\ h.wire = <<>>
      BY <3>4, <3>5 DEF GetStates
    <3>7. get' = [get EXCEPT ![g] = h]
      BY <1>2, <3>2, <3>5
    <3>8. QED
      BY <1>2, <3>1, <3>6, <3>7
  <2>3. QED
    BY <2>1, <2>2
<1>6. Types'
  BY <1>1, <1>3, <1>5 DEF Types
<1>7. ASSUME NEW f \in Streams, f = cli[c].get PROVE Moves(f)
  <2>1. Len(<<>>) = 0 /\ \A i \in 1 .. 0 : FALSE
    OBVIOUS
  <2>2. HandlerInv(get[f])
    BY <1>1 DEF RequestsInv
  <2>3. HandlerInv(get'[f])
    BY <1>5, <1>7, <2>1, <2>2 DEF HandlerInv, AllSignals, Numbered
  <2>4. (\E r \in Records : rec[r].stream = f) => get[f].pc \in Attached
    BY <1>1 DEF RequestsInv, Attached
  <2>5. QED
    BY <1>5, <1>7, <2>3, <2>4 DEF Moves
<1>8. \A f \in Streams : get'[f] = get[f] \/ Moves(f)
  BY <1>5, <1>7
<1>9. LogsInv' /\ RequestsInv' /\ NoLostWake'
  BY <1>1, <1>4, <1>6, <1>8, FrameRequests
<1>10. ClientInv(c)'
  <2>1. ClientInv(c)
    BY <1>1 DEF ClientsInv
  <2>2. QED
    BY <1>3, <2>1 DEF ClientInv
<1>11. ASSUME NEW d \in Clients, d # c PROVE ClientInv(d)'
  <2>1. ClientInv(d) /\ cli'[d] = cli[d] /\ cli[d] \in ClientStates
    BY <1>1, <1>2, <1>3, <1>11 DEF ClientsInv
  <2>2. cli[d].get # None => cli[d].get \in Streams /\ cli[d].get # cli[c].get
    BY <1>1, <1>11, <2>1 DEF ClientsInv, ClientStates
  <2>3. QED
    BY <1>5, <2>1, <2>2, ClientKept
<1>12. \A d, e \in Clients : cli'[d].get # None /\ cli'[d].get = cli'[e].get => d = e
  BY <1>1, <1>3 DEF ClientsInv
<1>13. ClientsInv'
  BY <1>10, <1>11, <1>12 DEF ClientsInv
<1>14. QED
  BY <1>6, <1>9, <1>13 DEF SseInv

LEMMA StreamOverStep ==
  ASSUME SseInv, NEW c \in Clients, StreamOver(c)
  PROVE  SseInv'
<1>1. /\ cli \in [Clients -> ClientStates] /\ cli[c] \in ClientStates /\ cli[c].get # None
      /\ get' = Cut(cli[c].get) /\ cli' = [cli EXCEPT ![c].pc = "connect", ![c].get = None]
      /\ UNCHANGED <<peers, closed, doomed, rec, post>>
  BY DEF StreamOver, SseInv, Types, ClientsInv, ClientInv
<1>2. PICK k \in ClientStates : k = [cli[c] EXCEPT !.pc = "connect", !.get = None]
  BY <1>1 DEF ClientStates
<1>3. k.pc = "connect" /\ k.get = None /\ k.lastID = cli[c].lastID /\ k.from = cli[c].from
  BY <1>1, <1>2 DEF ClientStates
<1>4. cli' = [cli EXCEPT ![c] = k]
  BY <1>1, <1>2
<1>5. QED
  BY <1>1, <1>3, <1>4, Leaves

LEMMA ClientCloseStep ==
  ASSUME SseInv, NEW c \in Clients, ClientClose(c)
  PROVE  SseInv'
<1>1. /\ cli \in [Clients -> ClientStates] /\ cli[c] \in ClientStates
      /\ get' = IF cli[c].get = None THEN get ELSE Cut(cli[c].get)
      /\ cli' = [cli EXCEPT ![c].pc = "over", ![c].get = None]
      /\ UNCHANGED <<peers, closed, doomed, rec, post>>
  BY DEF ClientClose, SseInv, Types
<1>2. PICK k \in ClientStates : k = [cli[c] EXCEPT !.pc = "over", !.get = None]
  BY <1>1 DEF ClientStates
<1>3. k.pc = "over" /\ k.get = None /\ k.lastID = cli[c].lastID /\ k.from = cli[c].from
  BY <1>1, <1>2 DEF ClientStates
<1>4. cli' = [cli EXCEPT ![c] = k]
  BY <1>1, <1>2
<1>5. QED
  BY <1>1, <1>3, <1>4, Leaves

LEMMA OpenStep ==
  ASSUME SseInv, NEW c \in Clients, Open(c)
  PROVE  SseInv'
<1>1. Types /\ LogsInv /\ RequestsInv /\ NoLostWake /\ ClientsInv
  BY DEF SseInv
<1>2. /\ cli \in [Clients -> ClientStates] /\ get \in [Streams -> GetStates]
      /\ cli[c] \in ClientStates /\ cli[c].pc = "connect" /\ ClientInv(c)
      /\ UNCHANGED <<peers, closed, doomed, rec, post>>
  BY <1>1 DEF Open, Types, ClientsInv
<1>3. PICK g \in Streams :
        /\ get[g].pc = "none"
        /\ get' = [get EXCEPT ![g] = [NewGet EXCEPT !.pc = "request", !.client = c,
                                                    !.last = cli[c].lastID]]
        /\ cli' = [cli EXCEPT ![c].pc = "stream", ![c].get = g]
  BY DEF Open
<1>4. PICK h : h = [NewGet EXCEPT !.pc = "request", !.client = c, !.last = cli[c].lastID]
  OBVIOUS
<1>5. h \in GetStates /\ h.pc = "request" /\ h.client = c /\ h.last = cli[c].lastID /\ h.wire = <<>>
  <2>1. <<>> \in Seq(Events) /\ cli[c].lastID \in Nat
    BY <1>2 DEF ClientStates
  <2>2. QED
    BY <1>4, <2>1 DEF NewGet, GetStates, None
<1>6. /\ get' \in [Streams -> GetStates] /\ get'[g] = h
      /\ \A f \in Streams : f # g => get'[f] = get[f]
  BY <1>2, <1>3, <1>4, <1>5
<1>7. PICK k \in ClientStates : k = [cli[c] EXCEPT !.pc = "stream", !.get = g]
  BY <1>2 DEF ClientStates
<1>8. k.pc = "stream" /\ k.get = g /\ k.lastID = cli[c].lastID /\ k.from = cli[c].from
  BY <1>2, <1>7 DEF ClientStates
<1>9. /\ cli' \in [Clients -> ClientStates] /\ cli'[c] = k
      /\ \A d \in Clients : d # c => cli'[d] = cli[d]
  BY <1>2, <1>3, <1>7
<1>10. Types'
  BY <1>1, <1>2, <1>6, <1>9 DEF Types
<1>11. \A q \in Records : SameRecord(q)
  BY <1>2 DEF SameRecord
<1>12. Len(<<>>) = 0 /\ \A i \in 1 .. 0 : FALSE
  OBVIOUS
<1>13. HandlerInv(h)
  BY <1>5, <1>12 DEF HandlerInv, Numbered, Serving
<1>14. ~\E r \in Records : rec[r].stream = g
  BY <1>1, <1>3 DEF RequestsInv
<1>15. \A f \in Streams : get'[f] = get[f] \/ Moves(f)
  BY <1>6, <1>13, <1>14 DEF Moves
<1>16. LogsInv' /\ RequestsInv' /\ NoLostWake'
  BY <1>1, <1>2, <1>10, <1>11, <1>15, FrameRequests
<1>17. Follows(k, h)
  BY <1>5, <1>12 DEF Follows, Chain, OneRecord, Serving
<1>18. ClientInv(c)'
  BY <1>2, <1>5, <1>6, <1>8, <1>9, <1>17 DEF ClientInv, Serving, None, Streams
<1>19. \A d \in Clients : cli[d].get # g
  BY <1>1, <1>3 DEF ClientsInv, ClientInv, None, Streams
<1>20. ASSUME NEW d \in Clients, d # c PROVE ClientInv(d)'
  <2>1. ClientInv(d) /\ cli'[d] = cli[d] /\ cli[d] \in ClientStates
    BY <1>1, <1>2, <1>9, <1>20 DEF ClientsInv
  <2>2. cli[d].get # None => cli[d].get \in Streams /\ cli[d].get # g
    BY <1>19, <2>1 DEF ClientStates
  <2>3. QED
    BY <1>2, <1>6, <2>1, <2>2, ClientKept
<1>21. \A d, e \in Clients : cli'[d].get # None /\ cli'[d].get = cli'[e].get => d = e
  BY <1>1, <1>8, <1>9, <1>19 DEF ClientsInv
<1>22. ClientsInv'
  BY <1>18, <1>20, <1>21 DEF ClientsInv
<1>23. QED
  BY <1>10, <1>16, <1>22 DEF SseInv

LEMMA TailWire ==
  ASSUME NEW w \in Seq(Events), w # <<>>
  PROVE  /\ Tail(w) \in Seq(Events) /\ Head(w) = w[1] /\ w[1] \in Events
         /\ AllSignals(w) => AllSignals(Tail(w))
         /\ Numbered(w) => Numbered(Tail(w)) /\ (w[1].event = "signal" => w[1].id >= 1)
         /\ \A r : (\A i \in 1 .. Len(w) : w[i].rec = r) =>
              w[1].rec = r /\ \A i \in 1 .. Len(Tail(w)) : Tail(w)[i].rec = r
<1>1. PICK L \in Nat : L = Len(w)
  OBVIOUS
<1>2. PICK v : v = Tail(w)
  OBVIOUS
<1>3. L >= 1
  BY <1>1, EmptySeq
<1>4. /\ v \in Seq(Events) /\ Len(v) = L - 1 /\ \A i \in 1 .. Len(v) : v[i] = w[i + 1]
      /\ Head(w) = w[1]
  BY <1>1, <1>2, HeadTailProperties
<1>5. 1 \in 1 .. Len(w) /\ \A i \in 1 .. Len(v) : i + 1 \in 1 .. Len(w)
  BY <1>1, <1>3, <1>4
<1>6. w[1] \in Events
  BY <1>5, ElementsOf
<1>7. AllSignals(w) => AllSignals(v)
  BY <1>4, <1>5 DEF AllSignals
<1>8. Numbered(w) => Numbered(v) /\ (w[1].event = "signal" => w[1].id >= 1)
  BY <1>4, <1>5 DEF Numbered
<1>9. \A r : (\A i \in 1 .. Len(w) : w[i].rec = r) =>
        w[1].rec = r /\ \A i \in 1 .. Len(v) : v[i].rec = r
  BY <1>4, <1>5
<1>10. QED
  BY <1>2, <1>4, <1>6, <1>7, <1>8, <1>9

\* What a client is about to read is of the record it knows, and the next
\* signal at most, counted from the base.
LEMMA ReadIs ==
  ASSUME SseInv, NEW c \in Clients, cli[c].pc = "stream", get[cli[c].get].wire # <<>>,
         Head(get[cli[c].get].wire).event = "signal"
  PROVE  LET e == Head(get[cli[c].get].wire)
         IN  /\ e.rec \in Records /\ e.id \in Nat /\ e.id >= 1
             /\ ~cli[c].stale => /\ cli[c].from = None \/ cli[c].from = e.rec
                                 /\ e.id <= 1 + Base(cli[c])
<1>1. cli[c] \in ClientStates /\ ClientInv(c) /\ get \in [Streams -> GetStates]
  BY DEF SseInv, Types, ClientsInv
<1>2. PICK g \in Streams : g = cli[c].get
  BY <1>1 DEF ClientStates, ClientInv
<1>3. PICK w \in Seq(Events) : w = get[g].wire
  BY <1>1 DEF GetStates
<1>4. w # <<>> /\ Numbered(w) /\ Head(w) = Head(get[cli[c].get].wire)
  BY <1>2, <1>3 DEF SseInv, RequestsInv, HandlerInv
<1>5. Head(w) = w[1] /\ w[1] \in Events /\ w[1].event = "signal" /\ w[1].id >= 1
  BY <1>4, TailWire
<1>6. w[1].rec \in Records /\ w[1].id \in Nat
  BY <1>5 DEF Events
<1>7. ASSUME ~cli[c].stale
      PROVE  (cli[c].from = None \/ cli[c].from = w[1].rec) /\ w[1].id <= 1 + Base(cli[c])
  <2>1. Chain(w, Base(cli[c])) /\ OneRecord(w, cli[c].from)
    BY <1>1, <1>2, <1>3, <1>7 DEF ClientInv, Follows, None, Streams
  <2>2. Base(cli[c]) \in Nat
    BY <1>1, BaseType
  <2>3. PICK b \in Nat, i \in Nat : b = Base(cli[c]) /\ i = w[1].id
    BY <1>6, <2>2
  <2>4. PICK from : from = cli[c].from
    OBVIOUS
  <2>5. w[1].id <= 1 + b /\ (from = None \/ from = w[1].rec)
    BY <1>4, <1>5, <1>6, <2>1, <2>3, <2>4, ReadWire
  <2>6. QED
    BY <2>3, <2>4, <2>5
<1>8. QED
  BY <1>4, <1>5, <1>6, <1>7

LEMMA HandleEventStep ==
  ASSUME SseInv, NEW c \in Clients, HandleEvent(c)
  PROVE  SseInv'
<1>1. Types /\ LogsInv /\ RequestsInv /\ NoLostWake /\ ClientsInv
  BY DEF SseInv
<1>2. /\ cli \in [Clients -> ClientStates] /\ get \in [Streams -> GetStates]
      /\ cli[c] \in ClientStates /\ cli[c].pc = "stream" /\ ClientInv(c)
      /\ UNCHANGED <<peers, closed, doomed, rec, post>>
  BY <1>1 DEF HandleEvent, Types, ClientsInv
<1>3. PICK g \in Streams : g = cli[c].get
  BY <1>2 DEF ClientStates, ClientInv
<1>4. get[g] \in GetStates /\ HandlerInv(get[g]) /\ cli[c].get # None
  BY <1>1, <1>2, <1>3 DEF RequestsInv, None, Streams
<1>5. PICK e : e = Head(get[g].wire)
  OBVIOUS
<1>6. CASE e.event = "replaced" /\ get' = Cut(g)
           /\ cli' = [cli EXCEPT ![c].pc = "over", ![c].get = None]
  <2>1. PICK k \in ClientStates : k = [cli[c] EXCEPT !.pc = "over", !.get = None]
    BY <1>2 DEF ClientStates
  <2>2. k.pc = "over" /\ k.get = None /\ k.lastID = cli[c].lastID /\ k.from = cli[c].from
    BY <1>2, <2>1 DEF ClientStates
  <2>3. cli' = [cli EXCEPT ![c] = k]
    BY <1>2, <1>6, <2>1
  <2>4. QED
    BY <1>2, <1>3, <1>4, <1>6, <2>2, <2>3, Leaves
<1>7. CASE e.event = "shutdown" /\ get' = Cut(g)
           /\ cli' = [cli EXCEPT ![c].pc = "connect", ![c].get = None]
  <2>1. PICK k \in ClientStates : k = [cli[c] EXCEPT !.pc = "connect", !.get = None]
    BY <1>2 DEF ClientStates
  <2>2. k.pc = "connect" /\ k.get = None /\ k.lastID = cli[c].lastID /\ k.from = cli[c].from
    BY <1>2, <2>1 DEF ClientStates
  <2>3. cli' = [cli EXCEPT ![c] = k]
    BY <1>2, <1>7, <2>1
  <2>4. QED
    BY <1>2, <1>3, <1>4, <1>7, <2>2, <2>3, Leaves
<1>8. CASE /\ e.event = "signal" /\ get[g].conn # "cut" /\ get[g].wire # <<>>
           /\ get' = [get EXCEPT ![g].wire = Tail(@)]
           /\ cli' = [cli EXCEPT ![c].lastID = e.id, ![c].from = e.rec]
  <2>1. PICK w \in Seq(Events) : w = get[g].wire
    BY <1>4 DEF GetStates
  <2>2. w # <<>> /\ Numbered(w) /\ e = Head(w)
    BY <1>4, <1>5, <1>8, <2>1 DEF HandlerInv
  <2>3. /\ Tail(w) \in Seq(Events) /\ e = w[1]
        /\ AllSignals(w) => AllSignals(Tail(w))
        /\ Numbered(Tail(w))
    BY <2>2, TailWire
  <2>4. /\ e.rec \in Records /\ e.id \in Nat /\ e.id >= 1
        /\ ~cli[c].stale => cli[c].from = None \/ cli[c].from = e.rec
    BY <1>2, <1>3, <1>5, <1>8, ReadIs
  <2>5. PICK h \in GetStates : h = [get[g] EXCEPT !.wire = Tail(w)]
    BY <1>4, <2>3 DEF GetStates
  <2>6. /\ h.pc = get[g].pc /\ h.client = get[g].client /\ h.last = get[g].last
        /\ h.rec = get[g].rec /\ h.conn = get[g].conn /\ h.wake = get[g].wake
        /\ h.wire = Tail(w)
    BY <1>4, <2>5 DEF GetStates
  <2>7. get' = [get EXCEPT ![g] = h]
    BY <1>2, <1>8, <2>1, <2>5
  <2>8. /\ get' \in [Streams -> GetStates] /\ get'[g] = h
        /\ \A f \in Streams : f # g => get'[f] = get[f]
    BY <1>2, <2>7
  <2>9. PICK k \in ClientStates : k = [cli[c] EXCEPT !.lastID = e.id, !.from = e.rec]
    BY <1>2, <2>4 DEF ClientStates
  <2>10. /\ k.pc = cli[c].pc /\ k.get = cli[c].get /\ k.lastID = e.id /\ k.from = e.rec
         /\ k.stale = cli[c].stale
    BY <1>2, <2>9 DEF ClientStates
  <2>11. /\ cli' \in [Clients -> ClientStates] /\ cli'[c] = k
         /\ \A d \in Clients : d # c => cli'[d] = cli[d]
    BY <1>2, <1>8, <2>9
  <2>12. Types'
    BY <1>1, <1>2, <2>8, <2>11 DEF Types
  <2>13. \A q \in Records : SameRecord(q)
    BY <1>2 DEF SameRecord
  <2>14. get[g].pc \notin Asking
    BY <1>4, <2>1, <2>2 DEF HandlerInv, Asking
  <2>15. HandlerInv(h)
    BY <1>4, <1>8, <2>1, <2>3, <2>6, <2>14 DEF HandlerInv, Asking
  <2>16. (\E r \in Records : rec[r].stream = g) => get[g].pc \in Attached
    BY <1>1 DEF RequestsInv, Attached
  <2>17. \A f \in Streams : get'[f] = get[f] \/ Moves(f)
    BY <2>6, <2>8, <2>15, <2>16 DEF Moves
  <2>18. LogsInv' /\ RequestsInv' /\ NoLostWake'
    BY <1>1, <1>2, <2>12, <2>13, <2>17, FrameRequests
  <2>19. ASSUME ~cli[c].stale
         PROVE  /\ Follows(k, h)
                /\ End(w, Base(cli[c])) <= End(h.wire, Base(k))
    <3>1. Follows(cli[c], get[g])
      BY <1>2, <1>3, <1>4, <2>19 DEF ClientInv
    <3>a. PICK from : from = cli[c].from
      OBVIOUS
    <3>2. PICK b \in Nat, b2 \in Nat :
            b = Base(cli[c]) /\ b2 = Base(k) /\ from = cli[c].from
      BY <1>2, <3>a, BaseType
    <3>3. e.id <= b2
      BY <2>10, <3>2, BaseType
    <3>4. Chain(w, b) /\ OneRecord(w, from)
      BY <2>1, <3>1, <3>2 DEF Follows
    <3>5. Chain(Tail(w), b2) /\ OneRecord(Tail(w), e.rec) /\ End(w, b) <= End(Tail(w), b2)
      <4>1. w[1].event = "signal" /\ w[1].id <= b2
        BY <1>8, <2>3, <3>3
      <4>2. QED
        BY <2>2, <2>3, <3>4, <4>1, ReadWire
    <3>6. h.pc \in Serving => AtRecord(h, k.from)
      <4> SUFFICES ASSUME h.pc \in Serving PROVE AtRecord(h, k.from)
        OBVIOUS
      <4>1. \A i \in 1 .. Len(w) : w[i].rec = h.rec
        BY <2>1, <2>6, <3>1 DEF Follows, AtRecord
      <4>2. e.rec = h.rec /\ \A i \in 1 .. Len(Tail(w)) : Tail(w)[i].rec = h.rec
        BY <2>2, <2>3, <4>1, TailWire
      <4>3. QED
        BY <2>6, <2>10, <4>2 DEF AtRecord
    <3>7. QED
      BY <2>6, <2>10, <3>2, <3>5, <3>6 DEF Follows
  <2>20. ClientInv(c)'
    <3>1. k.from # None /\ k.lastID # 0 /\ k.pc = "stream" /\ k.get = g
      BY <1>2, <1>3, <2>4, <2>10 DEF None, Records
    <3>2. get[g].pc # "none" /\ h.pc \notin Asking
      BY <1>2, <1>3, <1>4, <2>6, <2>14 DEF ClientInv
    <3>3. ~cli[c].stale /\ get[g].pc \in Serving /\ get[g].conn = "up" /\ rec[get[g].rec].stream = g
            => rec[get[g].rec].sentUpTo <= End(w, Base(cli[c]))
      BY <1>2, <1>3, <1>4, <2>1 DEF ClientInv
    <3>4. ASSUME ~k.stale, h.pc \in Serving, h.conn = "up", rec[h.rec].stream = g
          PROVE  rec[h.rec].sentUpTo <= End(h.wire, Base(k))
      <4>1. h.rec \in Records
        BY <2>15, <3>4 DEF HandlerInv, Serving
      <4>2. rec[h.rec].sentUpTo \in Nat
        BY <1>1, <4>1 DEF Types, RecordStates
      <4>3. PICK x : x = End(w, Base(cli[c]))
        OBVIOUS
      <4>4. PICK y : y = End(h.wire, Base(k))
        OBVIOUS
      <4>5. x \in Nat /\ y \in Nat
        <5>1. \A v \in Seq(Events), b \in Nat : End(v, b) \in Nat
          <6> SUFFICES ASSUME NEW v \in Seq(Events), NEW b \in Nat, v # <<>> PROVE v[Len(v)].id \in Nat
            BY DEF End
          <6>1. Len(v) \in 1 .. Len(v)
            BY EmptySeq
          <6>2. QED
            BY <6>1, ElementsOf
        <5>2. Base(k) \in Nat /\ Base(cli[c]) \in Nat
          BY <1>2, BaseType
        <5>3. QED
          BY <2>3, <2>6, <4>3, <4>4, <5>1, <5>2
      <4>6. rec[h.rec].sentUpTo <= x /\ x <= y
        BY <2>6, <2>10, <2>19, <3>3, <3>4, <4>3, <4>4
      <4>7. QED
        BY <4>2, <4>4, <4>5, <4>6
    <3>5. QED
      BY <1>2, <2>6, <2>8, <2>10, <2>11, <2>19, <3>1, <3>2, <3>4 DEF ClientInv, Asking, None, Streams
  <2>21. ASSUME NEW d \in Clients, d # c PROVE ClientInv(d)'
    <3>1. ClientInv(d) /\ cli'[d] = cli[d] /\ cli[d] \in ClientStates
      BY <1>1, <1>2, <2>11, <2>21 DEF ClientsInv
    <3>2. cli[d].get # None => cli[d].get \in Streams /\ cli[d].get # g
      BY <1>1, <1>3, <2>21, <3>1 DEF ClientsInv, ClientStates
    <3>3. QED
      BY <1>2, <2>8, <3>1, <3>2, ClientKept
  <2>22. \A d, f \in Clients : cli'[d].get # None /\ cli'[d].get = cli'[f].get => d = f
    BY <1>1, <2>10, <2>11 DEF ClientsInv
  <2>23. ClientsInv'
    BY <2>20, <2>21, <2>22 DEF ClientsInv
  <2>24. QED
    BY <2>12, <2>18, <2>23 DEF SseInv
<1>9. QED
  BY <1>3, <1>5, <1>6, <1>7, <1>8 DEF HandleEvent

-----------------------------------------------------------------------------
(* The theorems.                                                           *)

LEMMA SseInit == Init => SseInv
<1> SUFFICES ASSUME Init PROVE SseInv
  OBVIOUS
<1>1. <<>> \in Seq(Nat) /\ <<>> \in Seq(Events) /\ Len(<<>>) = 0 /\ \A i \in 1 .. 0 : FALSE
  OBVIOUS
<1>2. /\ NewRecord \in RecordStates /\ NewGet \in GetStates /\ NewClient \in ClientStates
  BY <1>1 DEF NewRecord, RecordStates, NewGet, GetStates, NewClient, ClientStates, None
<1>3. Types
  BY <1>2, NewPostIs DEF Init, Types
<1>4. LogInv(NewRecord)
  <2>1. NewRecord.log = <<>> /\ NewRecord.seq = 0 /\ NewRecord.sentUpTo = 0 /\ ~NewRecord.down
    BY DEF NewRecord
  <2>2. QED
    BY <1>1, <2>1, SseAssumption DEF LogInv, Floor
<1>5. LogsInv
  BY <1>4 DEF Init, LogsInv
<1>6. HandlerInv(NewGet)
  <2>1. NewGet.pc = "none" /\ NewGet.wire = <<>>
    BY DEF NewGet
  <2>2. QED
    BY <1>1, <2>1 DEF HandlerInv, Numbered, Serving
<1>7. \A r \in Records : rec[r].stream = None
  BY DEF Init, NewRecord
<1>8. RequestsInv
  BY <1>6, <1>7, NewPostIs DEF Init, RequestsInv, None, Streams
<1>9. NoLostWake
  BY <1>7 DEF NoLostWake, None, Streams
<1>10. ClientsInv
  BY DEF Init, ClientsInv, ClientInv, NewClient
<1>11. QED
  BY <1>3, <1>5, <1>8, <1>9, <1>10 DEF SseInv

LEMMA SseStep == SseInv /\ [Next]_vars => SseInv'
<1> SUFFICES ASSUME SseInv, [Next]_vars PROVE SseInv'
  OBVIOUS
<1>1. ASSUME NEW g \in Streams, Handler(g) \/ NetworkCut(g) PROVE SseInv'
  BY <1>1, AdmitStep, AttachStep, TakeUnsentStep, WakeStep, StreamFailsStep, DetachStep,
     NetworkCutStep DEF Handler
<1>2. ASSUME NEW p \in Posters, Lookup(p) \/ Enqueue(p) \/ Poke(p) PROVE SseInv'
  BY <1>2, LookupStep, EnqueueStep, PokeStep
<1>3. ASSUME NEW r \in Records, ReaperFires(r) \/ Expire(r) \/ Forget(r) \/ Shutdown(r) PROVE SseInv'
  BY <1>3, ReaperFiresStep, ExpireStep, ForgetStep, ShutdownStep
<1>4. ASSUME NEW c \in Clients, Client(c) PROVE SseInv'
  BY <1>4, OpenStep, HandleEventStep, StreamOverStep, ClientCloseStep DEF Client
<1>5. CASE UNCHANGED vars
  <2>1. /\ peers' = peers /\ closed' = closed /\ doomed' = doomed /\ rec' = rec
        /\ post' = post /\ UNCHANGED <<get, cli>>
    BY <1>5 DEF vars
  <2>2. \A r \in Records : SameRecord(r)
    BY <2>1 DEF SameRecord
  <2>3. QED
    BY <2>1, <2>2, QuietStep DEF SseInv, Types
<1>6. QED
  BY <1>1, <1>2, <1>3, <1>4, <1>5, ServerCloseStep DEF Next

LEMMA SseInvariant == Spec => []SseInv
  BY SseInit, SseStep, PTL DEF Spec

\* Type correctness, with the bound on the log of a record: what enqueue lets
\* in and the replay window together, whatever reconnects rewind.
THEOREM TypeCorrect == Spec => []TypeOK
<1>1. SseInv => TypeOK
  <2> SUFFICES ASSUME SseInv PROVE TypeOK
    OBVIOUS
  <2>1. \A r \in Records : Len(rec[r].log) <= QueueSize + ReplayDepth
    BY DEF SseInv, LogsInv, LogInv
  <2>2. QED
    BY <2>1 DEF SseInv, Types, RecordStates, GetStates, PostStates, ClientStates, TypeOK
<1>2. QED
  BY <1>1, SseInvariant, PTL

\* Enqueue, takeUnsent and attach keep in the log of a record that is up its
\* newest signals without a hole, with all that have not been taken.
THEOREM LogsCover == Spec => []LogCovers
<1>1. SseInv => LogCovers
  <2> SUFFICES ASSUME SseInv, NEW r \in Records, ~rec[r].down
               PROVE  /\ \A i \in DOMAIN rec[r].log : rec[r].log[i] = Trimmed(r) + i
                      /\ rec[r].sentUpTo \in Trimmed(r) .. rec[r].seq
    BY DEF LogCovers
  <2>1. rec[r] \in RecordStates /\ LogInv(rec[r])
    BY DEF SseInv, Types, LogsInv
  <2>2. /\ rec[r].log \in Seq(Nat) /\ rec[r].seq \in Nat /\ rec[r].sentUpTo \in Nat
        /\ DOMAIN rec[r].log = 1 .. Len(rec[r].log) /\ Len(rec[r].log) \in Nat
    BY <2>1 DEF RecordStates
  <2>3. Trimmed(r) = Floor(rec[r])
    BY DEF Trimmed, Floor
  <2>4. \A i \in DOMAIN rec[r].log : rec[r].log[i] = Trimmed(r) + i
    BY <2>1, <2>2, <2>3 DEF LogInv
  <2>5. Trimmed(r) \in Int /\ Trimmed(r) <= rec[r].sentUpTo /\ rec[r].sentUpTo <= rec[r].seq
    BY <2>1, <2>2, <2>3 DEF LogInv, Floor
  <2>6. QED
    BY <2>2, <2>4, <2>5
<1>2. QED
  BY <1>1, SseInvariant, PTL

\* The wake-up that enqueue owes the stream, and gives outside the mutex, is
\* never lost, however many posters and handlers interleave.
THEOREM WakesAreKept == Spec => []NoLostWake
<1>1. SseInv => NoLostWake
  BY DEF SseInv
<1>2. QED
  BY <1>1, SseInvariant, PTL

\* What clients receive, over any number of streams: handleEvent takes the
\* signals of one record in order, and misses only those that were let go of.
THEOREM OnlyTrimmedMissed == Spec => MissedOnlyTrimmed
<1> DEFINE A == \A c \in Clients :
                  LET old == cli[c]
                      new == cli'[c]
                  IN  ~old.stale =>
                        /\ old.from # None => new.from = old.from
                        /\ new.lastID <= old.lastID + 1 \/ new.lastID <= old.floor + 1
<1>1. SseInv /\ [Next]_vars => [A]_vars
  <2> SUFFICES ASSUME SseInv, Next PROVE A
    OBVIOUS
  <2>1. cli \in [Clients -> ClientStates]
    BY DEF SseInv, Types
  <2>2. \A c \in Clients : cli[c].lastID \in Nat /\ cli[c].floor \in Nat
    BY <2>1 DEF ClientStates
  <2>3. ASSUME \A c \in Clients : cli'[c].from = cli[c].from /\ cli'[c].lastID = cli[c].lastID
        PROVE  A
    BY <2>2, <2>3
  <2>4. ASSUME NEW g \in Streams, Handler(g) \/ NetworkCut(g) PROVE A
    <3>1. CASE Attach(g)
      <4>1. PICK c, x, y : cli' = [cli EXCEPT ![c].stale = x, ![c].floor = y]
        BY <3>1 DEF Attach
      <4>2. \A d \in Clients : cli'[d].from = cli[d].from /\ cli'[d].lastID = cli[d].lastID
        BY <2>1, <4>1 DEF ClientStates
      <4>3. QED
        BY <2>3, <4>2
    <3>2. CASE UNCHANGED cli
      BY <2>3, <3>2
    <3>3. QED
      BY <2>4, <3>1, <3>2 DEF Handler, Admit, TakeUnsent, Wake, StreamFails, Detach, NetworkCut
  <2>5. ASSUME NEW p \in Posters, Lookup(p) \/ Enqueue(p) \/ Poke(p) PROVE A
    BY <2>3, <2>5 DEF Lookup, Enqueue, Poke
  <2>6. ASSUME NEW r \in Records, ReaperFires(r) \/ Expire(r) \/ Forget(r) \/ Shutdown(r) PROVE A
    BY <2>3, <2>6 DEF ReaperFires, Expire, Forget, Shutdown
  <2>7. CASE ServerClose
    BY <2>3, <2>7 DEF ServerClose
  <2>8. ASSUME NEW c \in Clients, Open(c) \/ StreamOver(c) \/ ClientClose(c) PROVE A
    <3>1. PICK pc, g : cli' = [cli EXCEPT ![c].pc = pc, ![c].get = g]
      BY <2>8 DEF Open, StreamOver, ClientClose
    <3>2. \A d \in Clients : cli'[d].from = cli[d].from /\ cli'[d].lastID = cli[d].lastID
      BY <2>1, <3>1 DEF ClientStates
    <3>3. QED
      BY <2>3, <3>2
  <2>9. ASSUME NEW c \in Clients, HandleEvent(c) PROVE A
    <3>1. PICK e : e = Head(get[cli[c].get].wire)
      OBVIOUS
    <3>2. CASE e.event # "signal"
      <4>1. \/ cli' = [cli EXCEPT ![c].pc = "over", ![c].get = None]
            \/ cli' = [cli EXCEPT ![c].pc = "connect", ![c].get = None]
        BY <2>9, <3>1, <3>2 DEF HandleEvent
      <4>2. QED
        BY <2>1, <2>3, <4>1 DEF ClientStates
    <3>3. CASE e.event = "signal"
      <4>1. /\ cli[c].pc = "stream" /\ get[cli[c].get].wire # <<>>
            /\ cli' = [cli EXCEPT ![c].lastID = e.id, ![c].from = e.rec]
        BY <2>9, <3>1, <3>3 DEF HandleEvent
      <4>2. /\ e.id \in Nat
            /\ ~cli[c].stale => /\ cli[c].from = None \/ cli[c].from = e.rec
                                /\ e.id <= 1 + Base(cli[c])
        BY <3>1, <3>3, <4>1, ReadIs
      <4>3. /\ \A d \in Clients : d # c => cli'[d] = cli[d]
            /\ cli'[c].from = e.rec /\ cli'[c].lastID = e.id
        BY <2>1, <4>1 DEF ClientStates
      <4>4. Base(cli[c]) = cli[c].lastID \/ Base(cli[c]) = cli[c].floor
        BY DEF Base
      <4>5. ASSUME NEW d \in Clients, ~cli[d].stale
            PROVE  /\ cli[d].from # None => cli'[d].from = cli[d].from
                   /\ cli'[d].lastID <= cli[d].lastID + 1 \/ cli'[d].lastID <= cli[d].floor + 1
        <5>1. CASE d = c
          BY <2>2, <4>2, <4>3, <4>4, <4>5, <5>1
        <5>2. CASE d # c
          BY <2>2, <4>3, <5>2
        <5>3. QED
          BY <5>1, <5>2
      <4>6. QED
        BY <4>5
    <3>4. QED
      BY <3>2, <3>3
  <2>10. QED
    BY <2>4, <2>5, <2>6, <2>7, <2>8, <2>9 DEF Next, Client
<1>2. QED
  BY <1>1, SseInvariant, PTL DEF Spec, MissedOnlyTrimmed
=============================================================================
