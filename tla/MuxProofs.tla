------------------------------ MODULE MuxProofs ------------------------------
(***************************************************************************)
(* What TLAPS proves of Mux, for any peers, any number of connections,     *)
(* streams, PUTs and records, and any scenarios.                           *)
(***************************************************************************)
EXTENDS Mux, SequenceTheorems, TLAPS

(* Types.                                                                  *)

ConnStates == [pc : {"none", "poke", "wait", "open", "over"}, ready : BOOLEAN,
               closed : BOOLEAN, failed : BOOLEAN, stream : Streams \cup {None}]

MuxStates == [running : BOOLEAN, closed : BOOLEAN, cancelled : BOOLEAN,
              closing : SUBSET Conns, stream : Streams \cup {None},
              rcv : Streams \cup {None}, kick : BOOLEAN]

SesStates == [pc : {"off", "check", "dial", "hello", "collect", "join", "put",
                    "select", "drain", "backoff"},
              stream : Streams \cup {None}, auth : Conns \cup {None},
              todo : SUBSET Conns, put : Puts \cup {None}, retry : BOOLEAN, err : BOOLEAN]

RdStates == [pc : {"off", "read", "inbox", "done"}, conn : Conns \cup {None},
             fresh : Streams \cup {None}, stop : BOOLEAN]

StrmStates == [pc : {"take", "wait", "none", "request", "detach", "gone"},
               members : [Peers -> Puts \cup {None}], detached : Seq(Peers),
               todo : SUBSET Puts, wake : BOOLEAN, down : BOOLEAN,
               conn : {"up", "eof", "cut"}, wire : Seq(Events)]

PutStates == [pc : {"none", "request", "insert", "swap", "attach", "recheck", "done"},
              conn : Conns \cup {None}, stream : Streams \cup {None},
              rec : Records \cup {None}, prev : Puts \cup {None}, late : BOOLEAN,
              reply : {"none", "ok", "gone", "denied", "error"}]

DelStates == [pc : {"none", "sent", "detach", "done"},
              stream : Streams \cup {None}, att : Puts \cup {None}]

RecStates == [peer : Peers \cup {None}, att : Puts \cup {None, Other},
              unsent : BOOLEAN, sent : BOOLEAN, down : BOOLEAN, poke : Puts \cup {None}]

SrvStates == [peers : [Peers -> Records \cup {None}], closed : BOOLEAN,
              doomed : SUBSET Records, muxes : BOOLEAN]

EnvStates == [calls : Seq(Peers), limit : [Kinds -> Nat]]

Types ==
  /\ conn \in [Conns -> ConnStates]
  /\ reg \in [Peers -> Conns \cup {None}]
  /\ mux \in MuxStates
  /\ ses \in SesStates
  /\ rd \in RdStates
  /\ strm \in [Streams -> StrmStates]
  /\ put \in [Puts -> PutStates]
  /\ del \in [Conns -> DelStates]
  /\ rec \in [Records -> RecStates]
  /\ srv \in SrvStates
  /\ env \in EnvStates /\ Len(env.calls) <= MaxConns
  /\ lost \subseteq Peers \X Streams

(* The client.  A connection that has been opened stays so; session has a  *)
(* stream from the request for it to the end of read, and is on it from    *)
(* its first event to the teardown.                                        *)

Opened == {c \in Conns : c <= Len(env.calls) /\ conn[c].pc # "none"}

Dialling == {"dial", "hello"}
OnStream == {"collect", "join", "put", "select"}

\* The connections that joinPending has still to join, the one it is joining
\* included.
Joining == ses.todo \cup (IF ses.pc = "put" THEN {put[ses.put].conn} ELSE {})

RegInv ==
  \A p \in Peers : reg[p] # None =>
    reg[p] \in Opened /\ PeerOf(reg[p]) = p /\ conn[reg[p]].pc # "over"

SessionInv ==
  /\ mux.running <=> ses.pc # "off"
  /\ ses.pc \in Dialling \cup OnStream \cup {"drain"} => ses.stream \in Streams
  /\ ses.pc = "dial" => ses.auth \in Opened
  /\ ses.pc = "put" => ses.put \in Puts /\ put[ses.put].pc # "none"
  /\ ses.todo \subseteq Opened
  /\ ses.todo # {} => ses.pc \in {"join", "put"}
  /\ mux.stream = IF ses.pc \in OnStream THEN ses.stream ELSE None
  /\ rd.pc # "off" => ses.pc \in OnStream \cup {"drain"}
  /\ rd.pc = "inbox" => rd.conn \in Conns

ClosedInv ==
  /\ mux.cancelled => mux.closed
  /\ mux.closed => Registered = {}
  /\ \A c \in Conns : conn[c].closed /\ conn[c].pc # "over" => mux.closed

(* The requests.  A PUT knows its connection, its stream and, once it is   *)
(* admitted, its record, until it is refused.  A connection leaves once.   *)

Going  == {"request", "insert", "swap", "attach", "recheck"}
Inside == {"insert", "swap", "attach", "recheck"}

\* The PUTs that a record or a stream may refer to.
Entered(a) == put[a].pc \in {"swap", "attach", "recheck"} \/ put[a].reply = "ok"

PutInv ==
  \A a \in Puts :
    /\ put[a].pc # "none" => put[a].conn \in Opened
    /\ put[a].reply = "ok" => put[a].pc = "done"
    /\ put[a].pc = "request" \/ put[a].pc = "insert" \/ Entered(a) => put[a].stream \in Streams
    /\ put[a].pc = "insert" \/ Entered(a) =>
         /\ put[a].rec \in Records
         /\ rec[put[a].rec].peer = PeerOf(put[a].conn)
    /\ put[a].pc = "swap" => put[a].prev \in Puts
    /\ put[a].late => Entered(a)

LeaveInv ==
  /\ \A c \in Conns : del[c].pc # "none" => c \in Opened /\ c \notin Registered
  /\ \A c \in Conns : del[c].pc = "sent" => del[c].stream \in Streams
  /\ \A c \in Joining : conn[c].stream # ses.stream /\ del[c].pc = "none"
  /\ ses.pc = "put" => put[ses.put].conn \notin ses.todo

(* The records and the streams.                                            *)

RecordInv ==
  /\ \A p \in Peers : srv.peers[p] # None => rec[srv.peers[p]].peer = p
  /\ \A r \in Records : rec[r].att \in Puts => Entered(rec[r].att) /\ ~NotAttached(rec[r].att)
                                               /\ put[rec[r].att].rec = r

MemberInv ==
  \A s \in Streams, p \in Peers :
    LET a == strm[s].members[p]
    IN  a # None => /\ strm[s].pc \in Serving
                    /\ Entered(a) /\ ~put[a].late
                    /\ put[a].stream = s /\ PeerOf(put[a].conn) = p

\* What a handler has still to look at was a member of its stream, and entered.
SnapshotInv ==
  \A s \in Streams : \A a \in strm[s].todo :
    /\ strm[s].pc \notin {"none", "request"}
    /\ strm[s].pc = "take" => Entered(a) /\ put[a].stream = s

\* A PUT is for a stream that was opened.  One that has entered and is not attached
\* is a member still, or was overwritten.
EnteredInv ==
  \A a \in Puts :
    /\ put[a].pc \in Going => strm[put[a].stream].pc \notin {"none", "request"}
    /\ NotAttached(a) /\ strm[put[a].stream].pc \in Serving =>
         put[a].late \/ strm[put[a].stream].members[PeerOf(put[a].conn)] = a

(* Who has not joined is known.                                            *)

JoinNoticed ==
  ses.pc \in {"join", "put", "select"} =>
    \/ mux.kick \/ ses.retry \/ mux.closed
    \/ /\ ses.pc = "select" => Registered # {}
       /\ \A c \in Registered : \/ conn[c].stream = ses.stream \/ conn[c].pc = "poke"
                                \/ c \in Joining

PendInv == JoinNoticed /\ PendingNoticed

(* Who has joined is served or told.                                       *)

StreamInv ==
  /\ \A s \in Streams : strm[s].pc \in {"detach", "gone"} => strm[s].conn # "up"
  /\ ses.pc = "dial" => strm[ses.stream].pc # "none"
  /\ ses.pc \in {"hello", "drain"} \cup OnStream => strm[ses.stream].pc \notin {"none", "request"}
  /\ \A c \in Conns : conn[c].stream # None => strm[conn[c].stream].pc # "none"
  /\ \A c \in Conns : conn[c].pc = "none" => conn[c].stream = None
  /\ ses.pc \in Dialling => \A c \in Conns : conn[c].stream # ses.stream
  /\ ses.pc = "put" /\ (put[ses.put].pc \in Going \/ Entered(ses.put)) =>
       put[ses.put].stream = ses.stream
  /\ srv.doomed # {} => srv.muxes

JoiningTold ==
  /\ ses.pc = "put" /\ Entered(ses.put) /\ put[ses.put].conn \in Registered
  /\ <<PeerOf(put[ses.put].conn), ses.stream>> \notin lost
  => ServedOrTold(put[ses.put].conn)

ToldInv == StreamInv /\ JoiningTold /\ JoinedOrTold

MuxInv ==
  /\ Types /\ RegInv /\ SessionInv /\ ClosedInv /\ PutInv /\ LeaveInv
  /\ RecordInv /\ MemberInv /\ SnapshotInv /\ EnteredInv /\ AttachmentOwned
  /\ PendInv /\ MemberWoken /\ ToldInv

-----------------------------------------------------------------------------
(* What the operators of the model return.                                 *)

LEMMA NewRecordTypes ==
  /\ NewConn \in ConnStates /\ Over \in ConnStates /\ Idle \in SesStates
  /\ NewReader \in RdStates /\ NewStream \in StrmStates /\ NewPut \in PutStates
  /\ NewRecord \in RecStates
  /\ Over.pc = "over" /\ Over.stream = None
<1> USE DEF None
<1>1. NewConn \in ConnStates /\ Over \in ConnStates /\ Over.pc = "over" /\ Over.stream = None
  BY DEF NewConn, Over, ConnStates
<1>2. Idle \in SesStates BY DEF Idle, SesStates
<1>3. NewReader \in RdStates BY DEF NewReader, RdStates
<1>4. NewStream \in StrmStates
  <2>1. <<>> \in Seq(Peers) /\ <<>> \in Seq(Events) OBVIOUS
  <2>2. [p \in Peers |-> None] \in [Peers -> Puts \cup {None}] OBVIOUS
  <2> QED BY <2>1, <2>2 DEF NewStream, StrmStates
<1>5. NewPut \in PutStates BY DEF NewPut, PutStates
<1>6. NewRecord \in RecStates BY DEF NewRecord, RecStates
<1> QED BY <1>1, <1>2, <1>3, <1>4, <1>5, <1>6

SameCalls == env' \in EnvStates /\ env'.calls = env.calls

LEMMA HappensKeepsCalls == ASSUME Types, NEW k \in Kinds, Happens(k) PROVE SameCalls
<1>1. env \in EnvStates BY DEF Types
<1>2. env.limit \in [Kinds -> Nat] BY <1>1 DEF EnvStates
<1>3. PICK l \in [Kinds -> Nat] : l = [env.limit EXCEPT ![k] = env.limit[k] - 1]
  <2>1. env.limit[k] \in Nat /\ env.limit[k] > 0 BY <1>2 DEF Happens
  <2>2. env.limit[k] - 1 \in Nat BY <2>1
  <2> QED BY <1>2, <2>2
<1>4. env' = [env EXCEPT !.limit = l] BY <1>1, <1>3 DEF Happens, EnvStates
<1> QED BY <1>1, <1>4 DEF EnvStates, SameCalls

LEMMA CallsKept == ASSUME Types, SameCalls
                   PROVE  /\ \A c : PeerOf(c)' = PeerOf(c)
                          /\ env' \in EnvStates /\ Len(env'.calls) <= MaxConns
  BY DEF SameCalls, PeerOf, Types

\* A call of Open is for a peer.
LEMMA PeerOfOpened == ASSUME Types, NEW c \in Opened
                      PROVE  c \in Conns /\ PeerOf(c) \in Peers /\ conn[c].pc # "none"
<1>1. env.calls \in Seq(Peers) BY DEF Types, EnvStates
<1>2. c \in Conns /\ c <= Len(env.calls) /\ conn[c].pc # "none" BY DEF Opened
<1>3. Len(env.calls) \in Nat /\ DOMAIN env.calls = 1 .. Len(env.calls) BY <1>1
<1>4. c \in 1 .. Len(env.calls) BY <1>2, <1>3, MuxAssumption DEF Conns
<1> QED BY <1>1, <1>2, <1>4 DEF PeerOf

LEMMA RegisteredFact == \A c : c \in Registered <=> c # None /\ \E p \in Peers : reg[p] = c
  BY DEF Registered

LEMMA RegWithoutFact ==
  ASSUME Types, RegInv, NEW c
  PROVE  /\ RegWithout(c) \in [Peers -> Conns \cup {None}]
         /\ \A p \in Peers : RegWithout(c)[p] = IF reg[p] = c THEN None ELSE reg[p]
<1>1. reg \in [Peers -> Conns \cup {None}] BY DEF Types
<1>2. CASE c \in Registered
  <2>1. PICK p \in Peers : reg[p] = c /\ c # None BY <1>2 DEF Registered
  <2>2. PeerOf(c) = p BY <2>1 DEF RegInv
  <2>3. \A q \in Peers : reg[q] = c => q = p BY <2>1, <2>2 DEF RegInv
  <2>4. RegWithout(c) = [reg EXCEPT ![p] = None] BY <1>2, <2>2 DEF RegWithout
  <2> QED BY <1>1, <2>1, <2>3, <2>4
<1>3. CASE c \notin Registered
  <2>1. RegWithout(c) = reg BY <1>3 DEF RegWithout
  <2>2. \A p \in Peers : reg[p] = c => c = None BY <1>3 DEF Registered
  <2> QED BY <1>1, <2>1, <2>2
<1> QED BY <1>2, <1>3

LEMMA KickedFact ==
  ASSUME Types, NEW c
  PROVE  /\ Kicked(c) \in MuxStates
         /\ Kicked(c).running = mux.running /\ Kicked(c).closed = mux.closed
         /\ Kicked(c).cancelled = mux.cancelled /\ Kicked(c).stream = mux.stream
         /\ Kicked(c).kick = mux.kick \/ Kicked(c).kick = TRUE
         /\ c \in Registered => Kicked(c).kick = TRUE
         /\ Kicked(c).kick = TRUE \/ Kicked(c) = mux
<1>1. mux \in MuxStates BY DEF Types
<1> QED BY <1>1 DEF Kicked, MuxStates

LEMMA FailedFact ==
  ASSUME Types, NEW cs
  PROVE  /\ Failed(cs) \in [Conns -> ConnStates]
         /\ \A c \in Conns : /\ Failed(cs)[c].pc = conn[c].pc /\ Failed(cs)[c].closed = conn[c].closed
                             /\ Failed(cs)[c].stream = conn[c].stream
<1>1. conn \in [Conns -> ConnStates] BY DEF Types
<1>2. ASSUME NEW c \in Conns
      PROVE  /\ Failed(cs)[c] \in ConnStates
             /\ Failed(cs)[c].pc = conn[c].pc /\ Failed(cs)[c].closed = conn[c].closed
             /\ Failed(cs)[c].stream = conn[c].stream
  <2>1. conn[c] \in ConnStates BY <1>1
  <2>2. Failed(cs)[c] = [conn[c] EXCEPT !.failed = TRUE] \/ Failed(cs)[c] = conn[c] BY DEF Failed
  <2> QED BY <2>1, <2>2 DEF ConnStates
<1>3. Failed(cs) = [c \in Conns |-> Failed(cs)[c]] BY DEF Failed
<1> QED BY <1>2, <1>3

\* The parts of a stream that its connection is not.
SameStream(g, h) ==
  /\ g.pc = h.pc /\ g.members = h.members /\ g.detached = h.detached /\ g.todo = h.todo
  /\ g.wake = h.wake /\ g.down = h.down

LEMMA CutFact ==
  ASSUME Types, NEW s \in Streams \cup {None}
  PROVE  /\ Cut(s) \in [Streams -> StrmStates]
         /\ \A t \in Streams : SameStream(Cut(s)[t], strm[t])
         /\ \A t \in Streams : t # s => Cut(s)[t] = strm[t]
         /\ s \in Streams => Cut(s)[s].conn = "cut"
<1>1. strm \in [Streams -> StrmStates] BY DEF Types
<1>2. CASE s = None BY <1>1, <1>2, MuxAssumption DEF Cut, SameStream, None, Streams
<1>3. CASE s # None
  <2>1. s \in Streams /\ strm[s] \in StrmStates BY <1>1, <1>3
  <2>2. <<>> \in Seq(Events) OBVIOUS
  <2>3. PICK q \in StrmStates : q = [strm[s] EXCEPT !.conn = "cut", !.wire = <<>>]
    BY <2>1, <2>2 DEF StrmStates
  <2>4. SameStream(q, strm[s]) /\ q.conn = "cut" BY <2>1, <2>3 DEF StrmStates, SameStream
  <2>5. Cut(s) = [strm EXCEPT ![s] = q] BY <1>1, <1>3, <2>1, <2>3 DEF Cut
  <2> QED BY <1>1, <2>1, <2>4, <2>5 DEF SameStream
<1> QED BY <1>2, <1>3

LEMMA LeaveFact ==
  ASSUME Types, NEW c \in Conns, NEW s \in Streams \cup {None}
  PROVE  /\ Leave(c, s) \in [Conns -> DelStates]
         /\ \A b \in Conns : b # c => Leave(c, s)[b] = del[b]
         /\ \/ Leave(c, s)[c] = del[c]
            \/ s \in Streams /\ Leave(c, s)[c].pc = "sent" /\ Leave(c, s)[c].stream = s
<1>1. del \in [Conns -> DelStates] BY DEF Types
<1>2. CASE s = None \/ mux.cancelled BY <1>1, <1>2 DEF Leave
<1>3. CASE ~(s = None \/ mux.cancelled)
  <2>1. PICK d \in DelStates : d = [pc |-> "sent", stream |-> s, att |-> None] BY DEF DelStates
  <2>2. Leave(c, s) = [del EXCEPT ![c] = d] BY <1>3, <2>1 DEF Leave
  <2> QED BY <1>1, <1>3, <2>1, <2>2
<1> QED BY <1>2, <1>3

\* run goes on after session: it is idle, waits, or looks again.
LEMMA SessionOverFact ==
  ASSUME NEW err \in BOOLEAN, NEW m \in MuxStates, SessionOver(err, m),
         m.running = TRUE
  PROVE  /\ ses' \in SesStates /\ mux' \in MuxStates
         /\ ses'.pc \in {"off", "check", "backoff"} /\ ses'.todo = {}
         /\ ses'.pc = "off" => mux.cancelled
         /\ mux'.running <=> ses'.pc # "off"
         /\ mux'.closed = m.closed /\ mux'.cancelled = m.cancelled /\ mux'.stream = m.stream
         /\ mux'.kick = m.kick
<1>1. Idle \in SesStates /\ Idle.pc = "off" /\ Idle.todo = {}
  BY NewRecordTypes DEF Idle
<1>2. CASE mux.cancelled
  <2>1. ses' = Idle /\ mux' = [m EXCEPT !.running = FALSE] BY <1>2 DEF SessionOver
  <2> QED BY <1>1, <1>2, <2>1 DEF MuxStates
<1>3. CASE ~mux.cancelled
  <2>1. ses' = [Idle EXCEPT !.pc = IF err THEN "backoff" ELSE "check"] /\ mux' = m
    BY <1>3 DEF SessionOver
  <2>2. ses' \in SesStates /\ ses'.pc \in {"backoff", "check"} /\ ses'.todo = {}
    BY <1>1, <2>1 DEF SesStates
  <2> QED BY <2>1, <2>2
<1> QED BY <1>2, <1>3

LEMMA SeqFacts ==
  ASSUME NEW S, NEW s \in Seq(S), NEW e \in S
  PROVE  /\ Append(s, e) \in Seq(S)
         /\ e \in Range(Append(s, e)) /\ \A x \in Range(s) : x \in Range(Append(s, e))
<1>1. Append(s, e) \in Seq(S) OBVIOUS
<1>2. /\ DOMAIN s = 1 .. Len(s) /\ Len(s) \in Nat
      /\ DOMAIN Append(s, e) = 1 .. Len(s) + 1
      /\ Append(s, e)[Len(s) + 1] = e
      /\ \A i \in 1 .. Len(s) : Append(s, e)[i] = s[i]
  OBVIOUS
<1>3. Len(s) + 1 \in DOMAIN Append(s, e) /\ DOMAIN s \subseteq DOMAIN Append(s, e) BY <1>2
<1> QED BY <1>1, <1>2, <1>3 DEF Range

\* muxStream.ended takes a member off its stream E and wakes the handler.
EndedAs(E, a, p, reason) ==
  /\ E \in [Streams -> StrmStates]
  /\ \A s \in Streams :
       /\ E[s].pc = strm[s].pc /\ E[s].todo = strm[s].todo /\ E[s].down = strm[s].down
       /\ E[s].conn = strm[s].conn /\ E[s].wire = strm[s].wire
       /\ strm[s].wake => E[s].wake
  /\ \A s \in Streams, q \in Peers :
       E[s].members[q] = IF a \in Puts /\ s = put[a].stream /\ q = p /\ strm[s].members[q] = a
                         THEN None ELSE strm[s].members[q]
  /\ \A s \in Streams, q \in Peers :
       q \in Range(strm[s].detached) => q \in Range(E[s].detached)
  /\ \A s \in Streams, q \in Peers :
       E[s].members[q] # strm[s].members[q] /\ reason = "replaced" => q \in Range(E[s].detached)

LEMMA EndedFact ==
  ASSUME Types, NEW a, NEW p, NEW reason, a \in Puts => p \in Peers /\ put[a].stream \in Streams
  PROVE  EndedAs(Ended(strm, a, p, reason), a, p, reason)
<1>0. PICK E : E = Ended(strm, a, p, reason) OBVIOUS
<1> SUFFICES EndedAs(E, a, p, reason) BY <1>0
<1>1. strm \in [Streams -> StrmStates] BY DEF Types
<1>2. CASE a \notin Puts
  <2>1. E = strm BY <1>0, <1>2 DEF Ended
  <2> QED BY <1>1, <1>2, <2>1 DEF EndedAs
<1>3. CASE a \in Puts
  <2>0. PICK t \in Streams : t = put[a].stream BY <1>3
  <2>a. p \in Peers /\ strm[t] \in StrmStates BY <1>1, <1>3, <2>0
  <2>1. CASE strm[t].members[p] # a
    <3>1. E = strm BY <1>0, <1>3, <2>0, <2>1 DEF Ended
    <3> QED BY <1>1, <1>3, <2>0, <2>1, <3>1 DEF EndedAs
  <2>2. CASE strm[t].members[p] = a
    <3>1. strm[t].members \in [Peers -> Puts \cup {None}] /\ strm[t].detached \in Seq(Peers)
      BY <2>a DEF StrmStates
    <3>2. PICK ms \in [Peers -> Puts \cup {None}] : ms = [strm[t].members EXCEPT ![p] = None]
      BY <3>1
    <3>3. PICK d \in Seq(Peers) :
            /\ d = IF reason = "replaced" THEN Append(strm[t].detached, p) ELSE strm[t].detached
            /\ \A q \in Range(strm[t].detached) : q \in Range(d)
            /\ reason = "replaced" => p \in Range(d)
      <4>1. CASE reason = "replaced"
        <5> DEFINE e == Append(strm[t].detached, p)
        <5>1. /\ e \in Seq(Peers) /\ p \in Range(e)
              /\ \A q \in Range(strm[t].detached) : q \in Range(e)
          BY <2>a, <3>1, SeqFacts
        <5> QED BY <4>1, <5>1
      <4>2. CASE reason # "replaced" BY <3>1, <4>2
      <4> QED BY <4>1, <4>2
    <3>5. PICK q \in StrmStates :
            q = [strm[t] EXCEPT !.members = ms, !.wake = TRUE, !.detached = d]
      BY <2>a DEF StrmStates
    <3>6. /\ q.pc = strm[t].pc /\ q.todo = strm[t].todo /\ q.down = strm[t].down
          /\ q.conn = strm[t].conn /\ q.wire = strm[t].wire /\ q.wake = TRUE
          /\ q.members = ms /\ q.detached = d
      BY <2>a, <3>5 DEF StrmStates
    <3>7. E = [strm EXCEPT ![t] = q]
      <4>1. E = [strm EXCEPT ![t].members[p] = None, ![t].wake = TRUE,
                             ![t].detached = IF reason = "replaced" THEN Append(@, p) ELSE @]
        BY <1>0, <1>3, <2>0, <2>2 DEF Ended
      <4> QED BY <1>1, <2>a, <3>2, <3>3, <3>5, <4>1, ZenonT(60) DEF StrmStates
    <3>8. E \in [Streams -> StrmStates] /\ E[t] = q /\ \A s \in Streams : s # t => E[s] = strm[s]
      BY <1>1, <3>7
    <3>9. \A x \in Peers : ms[x] = IF x = p THEN None ELSE strm[t].members[x] BY <3>1, <3>2
    <3>10. \A s \in Streams, x \in Peers :
             E[s].members[x] = IF s = t /\ x = p THEN None ELSE strm[s].members[x]
      BY <3>6, <3>8, <3>9
    <3>11. \A s \in Streams, x \in Peers :
             x \in Range(strm[s].detached) => x \in Range(E[s].detached)
      BY <3>3, <3>6, <3>8
    <3>12. \A s \in Streams, x \in Peers :
             E[s].members[x] # strm[s].members[x] /\ reason = "replaced" => x \in Range(E[s].detached)
      BY <3>3, <3>6, <3>8, <3>10
    <3>13. \A s \in Streams :
             /\ E[s].pc = strm[s].pc /\ E[s].todo = strm[s].todo /\ E[s].down = strm[s].down
             /\ E[s].conn = strm[s].conn /\ E[s].wire = strm[s].wire
             /\ strm[s].wake => E[s].wake
      BY <3>6, <3>8
    <3>14. \A s \in Streams, x \in Peers :
             E[s].members[x] = IF a \in Puts /\ s = put[a].stream /\ x = p /\ strm[s].members[x] = a
                               THEN None ELSE strm[s].members[x]
      BY <1>3, <2>0, <2>2, <3>10
    <3> QED BY <3>8, <3>11, <3>12, <3>13, <3>14 DEF EndedAs
  <2> QED BY <2>1, <2>2
<1> QED BY <1>2, <1>3

LEMMA DetachedFact ==
  ASSUME Types, NEW a
  PROVE  /\ Detached(rec, a) \in [Records -> RecStates]
         /\ \A r \in Records :
              LET x == Detached(rec, a)[r]
              IN  /\ x.peer = rec[r].peer /\ x.unsent = rec[r].unsent /\ x.poke = rec[r].poke
                  /\ x.att = IF rec[r].att = a THEN None ELSE rec[r].att
<1>1. rec \in [Records -> RecStates] BY DEF Types
<1>2. ASSUME NEW r \in Records
      PROVE  LET x == Detached(rec, a)[r]
             IN  /\ x \in RecStates
                 /\ x.peer = rec[r].peer /\ x.unsent = rec[r].unsent /\ x.poke = rec[r].poke
                 /\ x.att = IF rec[r].att = a THEN None ELSE rec[r].att
  <2>1. rec[r] \in RecStates BY <1>1
  <2>2. Detached(rec, a)[r] = IF rec[r].att = a THEN [rec[r] EXCEPT !.att = None] ELSE rec[r]
    BY DEF Detached
  <2> QED BY <2>1, <2>2 DEF RecStates
<1>3. Detached(rec, a) = [r \in Records |-> Detached(rec, a)[r]] BY DEF Detached
<1> QED BY <1>2, <1>3

\* A stream with its handler woken.
Woken(g, h) ==
  /\ g.pc = h.pc /\ g.members = h.members /\ g.detached = h.detached /\ g.todo = h.todo
  /\ g.down = h.down /\ g.conn = h.conn /\ g.wire = h.wire
  /\ h.wake => g.wake

LEMMA PokedFact ==
  ASSUME Types, NEW s \in Streams \cup {None}
  PROVE  /\ Poked(strm, s) \in [Streams -> StrmStates]
         /\ \A t \in Streams : Woken(Poked(strm, s)[t], strm[t])
         /\ s \in Streams /\ strm[s].pc \in Serving => Poked(strm, s)[s].wake = TRUE
<1>1. strm \in [Streams -> StrmStates] BY DEF Types
<1>0. None \notin Streams BY MuxAssumption DEF None, Streams
<1>2. CASE s # None /\ strm[s].pc \in Serving
  <2>1. s \in Streams /\ strm[s] \in StrmStates BY <1>1, <1>2
  <2>2. PICK q \in StrmStates : q = [strm[s] EXCEPT !.wake = TRUE] BY <2>1 DEF StrmStates
  <2>3. Woken(q, strm[s]) /\ q.wake = TRUE BY <2>1, <2>2 DEF StrmStates, Woken
  <2>4. Poked(strm, s) = [strm EXCEPT ![s] = q] BY <1>1, <1>2, <2>1, <2>2 DEF Poked
  <2> QED BY <1>1, <2>1, <2>3, <2>4 DEF Woken
<1>3. CASE ~(s # None /\ strm[s].pc \in Serving)
  <2>1. Poked(strm, s) = strm BY <1>3 DEF Poked
  <2> QED BY <1>0, <1>1, <1>3, <2>1 DEF Woken
<1> QED BY <1>2, <1>3

LEMMA PushedFact ==
  ASSUME NEW h \in StrmStates, NEW es \in Seq(Events)
  PROVE  LET g == Pushed(h, es)
         IN  /\ g \in StrmStates
             /\ SameStream(g, h) /\ g.conn = h.conn
             /\ g.wire = IF h.conn = "up" THEN h.wire \o es ELSE h.wire
<1>1. h.wire \in Seq(Events) BY DEF StrmStates
<1>2. PICK w \in Seq(Events) : w = h.wire \o es BY <1>1, ConcatProperties
<1>3. Pushed(h, es) = IF h.conn = "up" THEN [h EXCEPT !.wire = w] ELSE h
  BY <1>2 DEF Pushed, StrmStates
<1> QED BY <1>2, <1>3 DEF StrmStates, SameStream

LEMMA CloseMuxFact ==
  ASSUME NEW h \in StrmStates
  PROVE  LET g == CloseMux(h)
         IN  /\ g \in StrmStates
             /\ g.pc \in {"detach", "gone"} /\ g.conn # "up"
             /\ \A p \in Peers : g.members[p] = None
             /\ g.todo = {h.members[p] : p \in Peers} \ {None}
             /\ g.todo # {} => g.pc = "detach"
<1>0. NewStream \in StrmStates BY NewRecordTypes
<1>1. h.members \in [Peers -> Puts \cup {None}] /\ h.wire \in Seq(Events) /\ h.conn \in {"up", "eof", "cut"}
  BY DEF StrmStates
<1> DEFINE t == {h.members[p] : p \in Peers} \ {None}
<1>2. t \in SUBSET Puts BY <1>1
<1>3. PICK x \in {"detach", "gone"} : x = IF h.members = NewStream.members THEN "gone" ELSE "detach"
  OBVIOUS
<1>4. PICK k \in {"eof", "cut"} : k = IF h.conn = "up" THEN "eof" ELSE h.conn BY <1>1
<1>5. NewStream.members = [p \in Peers |-> None] BY DEF NewStream
<1>6. t # {} => x = "detach"
  <2>1. h.members = [p \in Peers |-> None] => t = {} OBVIOUS
  <2> QED BY <1>3, <1>5, <2>1
<1>7. CloseMux(h) = [NewStream EXCEPT !.pc = x, !.todo = t, !.wire = h.wire, !.conn = k]
  BY <1>3, <1>4 DEF CloseMux
<1> HIDE DEF t
<1>8. /\ CloseMux(h) \in StrmStates /\ CloseMux(h).pc = x /\ CloseMux(h).todo = t
      /\ CloseMux(h).conn = k /\ CloseMux(h).members = NewStream.members
  BY <1>0, <1>1, <1>2, <1>7 DEF StrmStates
<1> QED BY <1>3, <1>4, <1>5, <1>6, <1>8 DEF t

LEMMA RepliesFact ==
  ASSUME Types, NEW a \in Puts, NEW how \in {"ok", "gone", "denied", "error"}
  PROVE  LET P == Replies(a, how)
         IN  /\ P \in [Puts -> PutStates]
             /\ \A b \in Puts : b # a => P[b] = put[b]
             /\ P[a].pc = "done" /\ P[a].conn = put[a].conn /\ P[a].reply = how
             /\ how = "ok" => /\ P[a].stream = put[a].stream /\ P[a].rec = put[a].rec
                              /\ P[a].late = put[a].late
             /\ how # "ok" => ~P[a].late
<1>1. put \in [Puts -> PutStates] /\ put[a] \in PutStates BY DEF Types
<1>2. NewPut \in PutStates /\ NewPut.late = FALSE BY NewRecordTypes DEF NewPut
<1>3. CASE how = "ok"
  <2>1. PICK q \in PutStates : q = [put[a] EXCEPT !.pc = "done", !.reply = how]
    BY <1>1 DEF PutStates
  <2>2. /\ q.pc = "done" /\ q.reply = how /\ q.conn = put[a].conn /\ q.stream = put[a].stream
        /\ q.rec = put[a].rec /\ q.late = put[a].late
    BY <1>1, <2>1 DEF PutStates
  <2>3. Replies(a, how) = [put EXCEPT ![a] = q] BY <1>3, <2>1 DEF Replies
  <2> QED BY <1>1, <1>3, <2>2, <2>3
<1>4. CASE how # "ok"
  <2>0. put[a].conn \in Conns \cup {None} BY <1>1 DEF PutStates
  <2>1. PICK q \in PutStates : q = [NewPut EXCEPT !.pc = "done", !.conn = put[a].conn, !.reply = how]
    BY <1>2, <2>0 DEF PutStates
  <2>2. q.pc = "done" /\ q.reply = how /\ q.conn = put[a].conn /\ q.late = FALSE
    BY <1>2, <2>1 DEF PutStates
  <2>3. Replies(a, how) = [put EXCEPT ![a] = q] BY <1>4, <2>1 DEF Replies
  <2> QED BY <1>1, <1>4, <2>2, <2>3
<1> QED BY <1>3, <1>4

-----------------------------------------------------------------------------
(* The server's side of the invariant, when the client moves.              *)

ServerInv ==
  /\ PutInv /\ RecordInv /\ MemberInv /\ SnapshotInv /\ EnteredInv
  /\ AttachmentOwned /\ MemberWoken

\* What the client does to a stream: it asks for one, is refused, or lets go of its
\* connection.
KeptStream(g, h) ==
  /\ g.members = h.members /\ g.detached = h.detached /\ g.todo = h.todo
  /\ g.wake = h.wake /\ g.down = h.down
  /\ \/ g.pc = h.pc
     \/ h.pc = "none" /\ g.pc = "request"
     \/ h.pc = "request" /\ g.pc = "gone"

SameServer ==
  /\ UNCHANGED <<put, rec, srv>>
  /\ \A s \in Streams : KeptStream(strm'[s], strm[s])

\* The streams that are served are the same, as are their members.
LEMMA KeptServing ==
  ASSUME SameServer, NEW s \in Streams
  PROVE  /\ strm'[s].members = strm[s].members /\ strm'[s].todo = strm[s].todo
         /\ strm'[s].wake = strm[s].wake
         /\ strm'[s].pc \in Serving <=> strm[s].pc \in Serving
         /\ strm'[s].pc = "take" <=> strm[s].pc = "take"
         /\ strm[s].pc = "detach" => strm'[s].pc = "detach"
<1>1. KeptStream(strm'[s], strm[s]) BY DEF SameServer
<1> QED BY <1>1 DEF KeptStream, Serving

\* The stream of a PUT that a record or a stream refers to.
LEMMA EnteredFact ==
  ASSUME PutInv, NEW a \in Puts, Entered(a)
  PROVE  /\ put[a].stream \in Streams /\ put[a].rec \in Records
         /\ put[a].conn \in Opened /\ rec[put[a].rec].peer = PeerOf(put[a].conn)
         /\ put[a].pc # "none"
  BY DEF PutInv, Entered

LEMMA AttachedFact ==
  ASSUME Types, PutInv, RecordInv, NEW r \in Records, rec[r].att \in Puts
  PROVE  LET a == rec[r].att
         IN  /\ Entered(a) /\ ~NotAttached(a) /\ put[a].rec = r
             /\ put[a].stream \in Streams /\ rec[r].peer = PeerOf(put[a].conn)
             /\ rec[r].peer \in Peers
<1> DEFINE a == rec[r].att
<1>1. Entered(a) /\ ~NotAttached(a) /\ put[a].rec = r BY DEF RecordInv
<1> HIDE DEF a
<1>2. a \in Puts BY DEF a
<1>3. /\ put[a].stream \in Streams /\ put[a].conn \in Opened
      /\ rec[r].peer = PeerOf(put[a].conn)
  BY <1>1, <1>2, EnteredFact
<1>4. rec[r].peer \in Peers BY <1>3, PeerOfOpened
<1> QED BY <1>1, <1>3, <1>4 DEF a

LEMMA ServerFrame ==
  ASSUME Types, ServerInv, Types', SameServer, SameCalls, Opened \subseteq Opened',
         \A c \in Conns : del[c].pc = "detach" => del'[c] = del[c]
  PROVE  ServerInv'
<1>0. put' = put /\ rec' = rec /\ srv' = srv BY DEF SameServer
<1>1. \A c : PeerOf(c)' = PeerOf(c) BY CallsKept
<1>2. \A a : (Entered(a)' <=> Entered(a)) /\ (NotAttached(a)' <=> NotAttached(a))
  BY <1>0 DEF Entered, NotAttached
<1>3. PutInv'
  <2>1. \A a \in Puts : put[a].pc # "none" => put[a].conn \in Opened' BY DEF ServerInv, PutInv
  <2> QED BY <1>0, <1>1, <1>2, <2>1 DEF ServerInv, PutInv
<1>4. RecordInv' BY <1>0, <1>2 DEF ServerInv, RecordInv
<1>5. MemberInv'
  <2> SUFFICES ASSUME NEW s \in Streams, NEW p \in Peers, NEW a, a = strm'[s].members[p], a # None
               PROVE  /\ strm'[s].pc \in Serving /\ Entered(a) /\ ~put[a].late
                      /\ put[a].stream = s /\ PeerOf(put[a].conn) = p
    BY <1>0, <1>1, <1>2 DEF MemberInv
  <2>1. strm'[s].members = strm[s].members /\ (strm'[s].pc \in Serving <=> strm[s].pc \in Serving)
    BY KeptServing
  <2>2. /\ strm[s].pc \in Serving /\ Entered(a) /\ ~put[a].late
        /\ put[a].stream = s /\ PeerOf(put[a].conn) = p
    BY <2>1 DEF ServerInv, MemberInv
  <2> QED BY <2>1, <2>2
<1>6. EnteredInv'
  <2> SUFFICES ASSUME NEW a \in Puts
               PROVE  /\ put[a].pc \in Going => strm'[put[a].stream].pc \notin {"none", "request"}
                      /\ NotAttached(a) /\ strm'[put[a].stream].pc \in Serving =>
                           \/ put[a].late
                           \/ strm'[put[a].stream].members[PeerOf(put[a].conn)] = a
    BY <1>0, <1>1, <1>2 DEF EnteredInv
  <2>1. put[a].pc \in Going \/ NotAttached(a) => put[a].stream \in Streams
    BY DEF ServerInv, PutInv, Going, Entered, NotAttached
  <2>2. put[a].pc \in Going => strm'[put[a].stream].pc \notin {"none", "request"}
    BY <2>1 DEF ServerInv, EnteredInv, SameServer, KeptStream
  <2> QED BY <2>1, <2>2, KeptServing DEF ServerInv, EnteredInv
<1>9. SnapshotInv'
  <2> SUFFICES ASSUME NEW s \in Streams, NEW a \in strm'[s].todo
               PROVE  /\ strm'[s].pc \notin {"none", "request"}
                      /\ strm'[s].pc = "take" => Entered(a) /\ put[a].stream = s
    BY <1>0, <1>2 DEF SnapshotInv
  <2>1. KeptStream(strm'[s], strm[s]) BY DEF SameServer
  <2>2. /\ strm[s].pc \notin {"none", "request"}
        /\ strm[s].pc = "take" => Entered(a) /\ put[a].stream = s
    BY <2>1 DEF ServerInv, SnapshotInv, KeptStream
  <2> QED BY <2>1, <2>2 DEF KeptStream
<1>7. AttachmentOwned'
  <2> SUFFICES ASSUME NEW r \in Records, NEW a \in Puts, a = rec[r].att
               PROVE  \/ strm'[put[a].stream].members[rec[r].peer] = a
                      \/ strm'[put[a].stream].pc = "detach" /\ a \in strm'[put[a].stream].todo
                      \/ strm'[put[a].stream].pc \notin Serving /\ put[a].pc = "recheck"
                      \/ \E c \in Conns : del'[c].pc = "detach" /\ del'[c].att = a
                      \/ \E b \in Puts : NotAttached(b) /\ put[b].rec = r
                      \/ \E b \in Puts : put[b].pc = "swap" /\ put[b].prev = a
                      \/ put[a].late
    BY <1>0, <1>2 DEF AttachmentOwned, Owned
  <2>1. put[a].stream \in Streams BY AttachedFact DEF ServerInv
  <2>2. PICK s \in Streams : s = put[a].stream BY <2>1
  <2>3. /\ strm'[s].members = strm[s].members /\ strm'[s].todo = strm[s].todo
        /\ strm'[s].pc \in Serving <=> strm[s].pc \in Serving
        /\ strm[s].pc = "detach" => strm'[s].pc = "detach"
    BY KeptServing
  <2>4. \/ strm[s].members[rec[r].peer] = a
        \/ strm[s].pc = "detach" /\ a \in strm[s].todo
        \/ strm[s].pc \notin Serving /\ put[a].pc = "recheck"
        \/ \E c \in Conns : del[c].pc = "detach" /\ del[c].att = a
        \/ \E b \in Puts : NotAttached(b) /\ put[b].rec = r
        \/ \E b \in Puts : put[b].pc = "swap" /\ put[b].prev = a
        \/ put[a].late
    BY <2>2 DEF ServerInv, AttachmentOwned, Owned
  <2> QED BY <2>2, <2>3, <2>4
<1>8. MemberWoken'
  <2> SUFFICES ASSUME NEW r \in Records, NEW a \in Puts, a = rec[r].att, rec[r].unsent,
                      strm'[put[a].stream].pc \in Serving,
                      strm'[put[a].stream].members[rec[r].peer] = a
               PROVE  \/ strm'[put[a].stream].wake
                      \/ strm'[put[a].stream].pc = "take" /\ a \in strm'[put[a].stream].todo
                      \/ put[a].pc = "recheck" \/ rec[r].poke = a
    BY <1>0 DEF MemberWoken
  <2>1. PICK s \in Streams : s = put[a].stream BY AttachedFact DEF ServerInv
  <2>2. /\ strm'[s].members = strm[s].members /\ strm'[s].todo = strm[s].todo
        /\ strm'[s].wake = strm[s].wake
        /\ strm'[s].pc \in Serving <=> strm[s].pc \in Serving
        /\ strm'[s].pc = "take" <=> strm[s].pc = "take"
    BY KeptServing
  <2> QED BY <2>1, <2>2 DEF ServerInv, MemberWoken
<1> QED BY <1>3, <1>4, <1>5, <1>6, <1>7, <1>8, <1>9 DEF ServerInv

-----------------------------------------------------------------------------
(* The client's side of the invariant, when the server moves.              *)

ClientInv == RegInv /\ SessionInv /\ ClosedInv /\ LeaveInv /\ PendInv

\* A PUT stays a PUT of its connection, and a DELETE that is on its way or answered
\* is not sent again.
SameRequests ==
  /\ \A a \in Puts : put[a].pc # "none" => put'[a].pc # "none" /\ put'[a].conn = put[a].conn
  /\ \A c \in Conns : del'[c].pc = "none" <=> del[c].pc = "none"
  /\ \A c \in Conns : del'[c].pc = "sent" => del'[c] = del[c]

LEMMA ClientFrame ==
  ASSUME Types, ClientInv, PutInv, Types', UNCHANGED client, SameCalls, SameRequests
  PROVE  ClientInv'
<1>0. conn' = conn /\ reg' = reg /\ mux' = mux /\ ses' = ses /\ rd' = rd BY DEF client
<1>1. \A c : PeerOf(c)' = PeerOf(c) BY CallsKept
<1>2. Opened' = Opened BY <1>0 DEF Opened, SameCalls
<1>3. Registered' = Registered BY <1>0 DEF Registered
<1>4. Joining' = Joining
  <2>1. ses.pc = "put" => put'[ses.put].conn = put[ses.put].conn
    BY DEF ClientInv, SessionInv, SameRequests
  <2> QED BY <1>0, <2>1 DEF Joining
<1>5. RegInv' BY <1>0, <1>1, <1>2 DEF ClientInv, RegInv
<1>6. SessionInv' BY <1>0, <1>2 DEF ClientInv, SessionInv, SameRequests
<1>7. ClosedInv' BY <1>0, <1>3 DEF ClientInv, ClosedInv
<1>8. LeaveInv'
  <2>1. \A c \in Conns : del'[c].pc # "none" => c \in Opened /\ c \notin Registered
    BY DEF ClientInv, LeaveInv, SameRequests
  <2>2. \A c \in Conns : del'[c].pc = "sent" => del'[c].stream \in Streams
    BY DEF ClientInv, LeaveInv, SameRequests
  <2>3. Joining \subseteq Conns
    <3>1. ses.pc = "put" => put[ses.put].conn \in Opened BY DEF PutInv, ClientInv, SessionInv
    <3>2. \A c \in Joining : c \in Opened \/ (ses.pc = "put" /\ c = put[ses.put].conn)
      BY DEF Joining, ClientInv, SessionInv
    <3> QED BY <3>1, <3>2 DEF Opened
  <2>4. \A c \in Joining : conn[c].stream # ses.stream /\ del'[c].pc = "none"
    BY <2>3 DEF ClientInv, LeaveInv, SameRequests
  <2>5. ses.pc = "put" => put'[ses.put].conn \notin ses.todo
    BY DEF ClientInv, LeaveInv, SameRequests, SessionInv
  <2> QED BY <1>0, <1>2, <1>3, <1>4, <2>1, <2>2, <2>4, <2>5 DEF LeaveInv
<1>9. PendInv'
  BY <1>0, <1>3, <1>4 DEF ClientInv, PendInv, JoinNoticed, PendingNoticed
<1> QED BY <1>5, <1>6, <1>7, <1>8, <1>9 DEF ClientInv

\* ServedOrTold, of a stream and a peer.
Tells(h, m, p) ==
  \/ h.conn # "up" \/ h.down \/ m
  \/ h.members[p] # None
  \/ p \in Range(h.detached) \/ Contains(h.wire, Event("detached", p))

LEMMA ServedTells ==
  ASSUME NEW c PROVE ServedOrTold(c) <=> Tells(strm[ses.stream], srv.muxes, PeerOf(c))
  BY DEF ServedOrTold, Tells

StreamsGoOn ==
  /\ \A s \in Streams : strm[s].pc # "none" => strm'[s].pc # "none"
  /\ \A s \in Streams : strm[s].pc \notin {"none", "request"} => strm'[s].pc \notin {"none", "request"}
  /\ \A s \in Streams : strm'[s].pc \in {"detach", "gone"} => strm'[s].conn # "up"

LEMMA StreamFrame ==
  ASSUME Types, SessionInv, StreamInv, UNCHANGED client, StreamsGoOn,
         \A a \in Puts : put'[a].pc \in Going \/ Entered(a)' =>
           (put[a].pc \in Going \/ Entered(a)) /\ put'[a].stream = put[a].stream,
         srv'.doomed # {} => srv'.muxes
  PROVE  StreamInv'
<1>0. conn' = conn /\ reg' = reg /\ mux' = mux /\ ses' = ses /\ rd' = rd BY DEF client
<1>1. \A c \in Conns : conn[c].stream # None => conn[c].stream \in Streams
  BY DEF Types, ConnStates
<1>2. ses.pc \in {"hello", "drain", "dial"} \cup OnStream => ses.stream \in Streams
  BY DEF SessionInv, Dialling, OnStream
<1>3. /\ ses.pc = "dial" => strm'[ses.stream].pc # "none"
      /\ ses.pc \in {"hello", "drain"} \cup OnStream => strm'[ses.stream].pc \notin {"none", "request"}
      /\ \A c \in Conns : conn[c].stream # None => strm'[conn[c].stream].pc # "none"
  BY <1>1, <1>2 DEF StreamInv, StreamsGoOn
<1>4. ASSUME ses.pc = "put",
             put'[ses.put].pc \in Going \/ put'[ses.put].pc \in {"swap", "attach", "recheck"}
               \/ put'[ses.put].reply = "ok"
      PROVE  put'[ses.put].stream = ses.stream
  <2>1. PICK a \in Puts : a = ses.put BY <1>4 DEF SessionInv
  <2>2. put'[a].pc \in Going \/ Entered(a)' BY <1>4, <2>1 DEF Entered
  <2>3. (put[a].pc \in Going \/ Entered(a)) /\ put'[a].stream = put[a].stream BY <2>2
  <2> QED BY <1>4, <2>1, <2>3 DEF StreamInv
<1>5. \A s \in Streams : strm'[s].pc \in {"detach", "gone"} => strm'[s].conn # "up"
  BY DEF StreamsGoOn
<1>6. ses.pc \in Dialling => \A c \in Conns : conn[c].stream # ses.stream BY DEF StreamInv
<1> QED BY <1>0, <1>3, <1>4, <1>5, <1>6 DEF StreamInv, Entered

\* Whoever has joined and was served or told is so still, or is recorded as lost.
ToldKept ==
  ses.pc \in OnStream => \A p \in Peers :
    Tells(strm[ses.stream], srv.muxes, p) =>
      Tells(strm'[ses.stream], srv'.muxes, p) \/ reg[p] = None \/ <<p, ses.stream>> \in lost'

\* A membership that was lost is so still, or the peer is a member again.
LostKept ==
  \A s \in Streams, p \in Peers :
    <<p, s>> \in lost => <<p, s>> \in lost' \/ strm'[s].members[p] # None

LEMMA ToldByServer ==
  ASSUME Types, ClientInv, ToldInv, StreamInv', UNCHANGED client, SameCalls, SameRequests,
         LostKept, PutInv,
         ToldKept,
         \A a \in Puts : ses.pc = "put" /\ a = ses.put /\ Entered(a)' =>
           Entered(a) \/ Tells(strm'[ses.stream], srv'.muxes, PeerOf(put[a].conn))
  PROVE  ToldInv'
<1>0. conn' = conn /\ reg' = reg /\ mux' = mux /\ ses' = ses /\ rd' = rd BY DEF client
<1>1. \A c : PeerOf(c)' = PeerOf(c) BY CallsKept
<1>2. Registered' = Registered BY <1>0 DEF Registered
<1>3. ASSUME NEW c \in Registered, <<PeerOf(c), ses.stream>> \notin lost', ses.pc \in OnStream,
             \/ <<PeerOf(c), ses.stream>> \notin lost => ServedOrTold(c)
             \/ Tells(strm'[ses.stream], srv'.muxes, PeerOf(c))
      PROVE  ServedOrTold(c)'
  <2>1. PICK p \in Peers : reg[p] = c /\ c # None /\ PeerOf(c) = p
    BY DEF Registered, ClientInv, RegInv
  <2>2. PICK s \in Streams : s = ses.stream BY <1>3 DEF ClientInv, SessionInv
  <2>3. CASE <<p, s>> \in lost
    <3>1. strm'[s].members[p] # None BY <1>3, <2>1, <2>2, <2>3 DEF LostKept
    <3>2. Tells(strm'[ses.stream], srv'.muxes, p) BY <2>2, <3>1 DEF Tells
    <3> QED BY <1>0, <1>1, <2>1, <3>2 DEF ServedOrTold, Tells
  <2>4. CASE <<p, s>> \notin lost
    <3>1. Tells(strm'[ses.stream], srv'.muxes, p)
      BY <1>3, <2>1, <2>2, <2>4, ServedTells DEF ToldKept
    <3> QED BY <1>0, <1>1, <2>1, <3>1 DEF ServedOrTold, Tells
  <2> QED BY <2>3, <2>4
<1>4. JoinedOrTold'
  <2> SUFFICES ASSUME NEW c \in Registered', HasJoined(c)', <<PeerOf(c), mux.stream>>' \notin lost'
               PROVE  ServedOrTold(c)'
    BY DEF JoinedOrTold
  <2>1. c \in Registered /\ HasJoined(c) BY <1>0, <1>2 DEF HasJoined
  <2>2. ses.pc \in OnStream /\ mux.stream = ses.stream
    BY <2>1 DEF HasJoined, ClientInv, SessionInv
  <2>3. <<PeerOf(c), ses.stream>> \notin lost' BY <1>0, <1>1, <2>2
  <2>4. <<PeerOf(c), ses.stream>> \notin lost => ServedOrTold(c)
    BY <2>1, <2>2 DEF ToldInv, JoinedOrTold
  <2> QED BY <1>3, <2>1, <2>2, <2>3, <2>4
<1>5. JoiningTold'
  <2>1. SUFFICES ASSUME (/\ ses.pc = "put" /\ Entered(ses.put) /\ put[ses.put].conn \in Registered
                         /\ <<PeerOf(put[ses.put].conn), ses.stream>> \notin lost)'
                 PROVE  ServedOrTold(put[ses.put].conn)'
    BY DEF JoiningTold
  <2>2. ses.pc = "put" /\ ses.put \in Puts /\ put[ses.put].pc # "none" /\ ses.pc \in OnStream
    BY <1>0, <2>1 DEF ClientInv, SessionInv, OnStream
  <2>3. PICK a \in Puts : a = ses.put BY <2>2
  <2>4. PICK c : c = put[a].conn OBVIOUS
  <2>5. put'[a].conn = c BY <2>2, <2>3, <2>4 DEF SameRequests
  <2>6. c \in Registered /\ <<PeerOf(c), ses.stream>> \notin lost'
    <3>1. c \in Registered /\ <<PeerOf(c)', ses.stream>> \notin lost'
      BY <1>0, <1>2, <2>1, <2>3, <2>5 DEF PeerOf
    <3> QED BY <1>1, <3>1
  <2>7. Entered(a)' BY <1>0, <2>1, <2>3 DEF Entered
  <2>8. \/ <<PeerOf(c), ses.stream>> \notin lost => ServedOrTold(c)
        \/ Tells(strm'[ses.stream], srv'.muxes, PeerOf(c))
    <3>1. CASE Entered(a) BY <2>2, <2>3, <2>4, <2>6, <3>1 DEF ToldInv, JoiningTold
    <3>2. CASE ~Entered(a) BY <2>2, <2>3, <2>4, <2>7, <3>2
    <3> QED BY <3>1, <3>2
  <2>9. ServedOrTold(c)' BY <1>3, <2>2, <2>6, <2>8
  <2> QED BY <1>0, <2>3, <2>5, <2>9 DEF ServedOrTold
<1> QED BY <1>4, <1>5 DEF ToldInv

-----------------------------------------------------------------------------
(* The server's steps that leave the PUTs alone.                           *)

\* No record gets a shared stream, and none a peer; what the server's map has, it
\* had before.
RecordsKept ==
  /\ \A r \in Records : rec'[r].peer = rec[r].peer
  /\ \A r \in Records : rec'[r].att \in Puts => rec'[r].att = rec[r].att
  /\ \A p \in Peers : srv'.peers[p] # None => srv'.peers[p] = srv.peers[p]

\* No stream gets a member or leaves the handler that serves it, unless it goes; and a
\* member that a stream loses is one that its record has let go of, or is about to be
\* detached with the stream.
MembersKept ==
  \A s \in Streams, p \in Peers :
    /\ strm'[s].members[p] # None =>
         strm'[s].members[p] = strm[s].members[p] /\ strm'[s].pc \in Serving
    /\ strm[s].members[p] # None =>
         \/ strm'[s].members[p] = strm[s].members[p]
         \/ strm'[s].pc = "detach" /\ strm[s].members[p] \in strm'[s].todo
         \/ \E r \in Records : rec[r].att = strm[s].members[p] /\ rec'[r].att \notin Puts

\* A stream's handler starts once; a snapshot is of the members.
ServingKept ==
  \A s \in Streams :
    /\ strm'[s].pc \in Serving => strm[s].pc \in Serving \cup {"request"}
    /\ strm'[s].pc \in {"none", "request"} => strm'[s] = strm[s]
    /\ strm'[s].pc = "take" => \A a \in strm'[s].todo :
         \/ strm[s].pc = "take" /\ a \in strm[s].todo
         \/ a # None /\ \E p \in Peers : strm[s].members[p] = a

\* Who was to be detached is still, or has been.
DetachesKept ==
  /\ \A s \in Streams : strm[s].pc = "detach" => \A a \in strm[s].todo :
       \/ strm'[s].pc = "detach" /\ a \in strm'[s].todo
       \/ \A r \in Records : rec'[r].att # a
  /\ \A c \in Conns : del[c].pc = "detach" /\ del[c].att \in Puts =>
       del'[c] = del[c] \/ \A r \in Records : rec'[r].att # del[c].att

\* A signal wakes the stream, and stays one to be looked at.
WakesKept ==
  /\ \A r \in Records : rec'[r].unsent /\ rec'[r].att \in Puts =>
       rec[r].unsent \/ rec'[r].poke = rec'[r].att
  /\ \A r \in Records : rec[r].poke \in Puts =>
       \/ rec'[r].poke = rec[r].poke
       \/ \A s \in Streams : s = put[rec[r].poke].stream /\ strm[s].pc \in Serving => strm'[s].wake
  /\ \A s \in Streams : strm[s].pc \in Serving /\ strm[s].wake /\ strm'[s].pc \in Serving =>
       \/ strm'[s].wake
       \/ strm'[s].pc = "take"
          /\ \A p \in Peers : strm'[s].members[p] # None => strm'[s].members[p] \in strm'[s].todo
  /\ \A s \in Streams : strm[s].pc = "take" /\ strm'[s].pc \in Serving => \A a \in strm[s].todo :
       \/ strm'[s].pc = "take" /\ a \in strm'[s].todo
       \/ \A r \in Records : rec'[r].att = a => ~rec'[r].unsent

LEMMA ServerStep ==
  ASSUME Types, ServerInv, Types', UNCHANGED <<client, put>>, SameCalls,
         RecordsKept, MembersKept, ServingKept, DetachesKept, WakesKept
  PROVE  ServerInv'
<1>0. put' = put /\ conn' = conn BY DEF client
<1>1. \A c : PeerOf(c)' = PeerOf(c) BY CallsKept
<1>2. \A a : (Entered(a)' <=> Entered(a)) /\ (NotAttached(a)' <=> NotAttached(a))
  BY <1>0 DEF Entered, NotAttached
<1>3. PutInv'
  <2>1. Opened' = Opened BY <1>0 DEF Opened, SameCalls
  <2>2. \A r \in Records : rec'[r].peer = rec[r].peer BY DEF RecordsKept
  <2> QED BY <1>0, <1>1, <1>2, <2>1, <2>2 DEF ServerInv, PutInv
<1>4. RecordInv'
  <2>1. ASSUME NEW p \in Peers, srv'.peers[p] # None PROVE rec'[srv'.peers[p]].peer = p
    <3>1. srv'.peers[p] = srv.peers[p] BY <2>1 DEF RecordsKept
    <3>2. srv.peers[p] \in Records BY <2>1, <3>1 DEF Types, SrvStates
    <3> QED BY <2>1, <3>1, <3>2 DEF ServerInv, RecordInv, RecordsKept
  <2>2. ASSUME NEW r \in Records, rec'[r].att \in Puts
        PROVE  /\ Entered(rec'[r].att) /\ ~NotAttached(rec'[r].att)
               /\ put[rec'[r].att].rec = r
    <3>1. rec'[r].att = rec[r].att BY <2>2 DEF RecordsKept
    <3> QED BY <2>2, <3>1 DEF ServerInv, RecordInv
  <2>3. ASSUME NEW r \in Records, rec'[r].att \in Puts
        PROVE  /\ (Entered(rec[r].att) /\ ~NotAttached(rec[r].att))'
               /\ put'[rec'[r].att].rec = r
    BY <1>0, <2>2, <2>3 DEF Entered, NotAttached
  <2> QED BY <2>1, <2>3 DEF RecordInv
<1>5. MemberInv'
  <2> SUFFICES ASSUME NEW s \in Streams, NEW p \in Peers, NEW a, a = strm'[s].members[p], a # None
               PROVE  /\ strm'[s].pc \in Serving /\ Entered(a) /\ ~put[a].late
                      /\ put[a].stream = s /\ PeerOf(put[a].conn) = p
    BY <1>0, <1>1, <1>2 DEF MemberInv
  <2>1. strm'[s].members[p] = strm[s].members[p] /\ strm'[s].pc \in Serving BY DEF MembersKept
  <2> QED BY <2>1 DEF ServerInv, MemberInv
<1>6. SnapshotInv'
  <2> SUFFICES ASSUME NEW s \in Streams, NEW a \in strm'[s].todo
               PROVE  /\ strm'[s].pc \notin {"none", "request"}
                      /\ strm'[s].pc = "take" => Entered(a) /\ put[a].stream = s
    BY <1>0, <1>2 DEF SnapshotInv
  <2>1. strm'[s].pc \notin {"none", "request"} BY DEF ServingKept, ServerInv, SnapshotInv
  <2>2. ASSUME strm'[s].pc = "take" PROVE Entered(a) /\ put[a].stream = s
    <3>1. CASE strm[s].pc = "take" /\ a \in strm[s].todo BY <3>1 DEF ServerInv, SnapshotInv
    <3>2. CASE a # None /\ \E p \in Peers : strm[s].members[p] = a
      BY <3>2 DEF ServerInv, MemberInv
    <3> QED BY <2>2, <3>1, <3>2 DEF ServingKept
  <2> QED BY <2>1, <2>2
<1>7. EnteredInv'
  <2> SUFFICES ASSUME NEW a \in Puts
               PROVE  /\ put[a].pc \in Going => strm'[put[a].stream].pc \notin {"none", "request"}
                      /\ NotAttached(a) /\ strm'[put[a].stream].pc \in Serving =>
                           \/ put[a].late
                           \/ strm'[put[a].stream].members[PeerOf(put[a].conn)] = a
    BY <1>0, <1>1, <1>2 DEF EnteredInv
  <2>0. NotAttached(a) => put[a].pc \in Going /\ Entered(a) BY DEF NotAttached, Going, Entered
  <2>1. put[a].pc \in Going => /\ put[a].stream \in Streams
                               /\ strm[put[a].stream].pc \notin {"none", "request"}
    BY DEF ServerInv, PutInv, EnteredInv, Going, Entered
  <2>2. put[a].pc \in Going => strm'[put[a].stream].pc \notin {"none", "request"}
    BY <2>1 DEF ServingKept
  <2>3. ASSUME NotAttached(a), strm'[put[a].stream].pc \in Serving, ~put[a].late
        PROVE  strm'[put[a].stream].members[PeerOf(put[a].conn)] = a
    <3>1. PICK s \in Streams : s = put[a].stream BY <2>0, <2>1, <2>3
    <3>2. strm[s].pc \in Serving BY <2>0, <2>1, <2>3, <3>1 DEF ServingKept
    <3>3. PICK p \in Peers : p = PeerOf(put[a].conn)
      BY <2>0, <2>3, EnteredFact, PeerOfOpened DEF ServerInv
    <3>4. strm[s].members[p] = a BY <2>3, <3>1, <3>2, <3>3 DEF ServerInv, EnteredInv
    <3>5. a # None BY MuxAssumption DEF Puts, None
    <3>6. \A r \in Records : rec[r].att # a BY <2>3 DEF ServerInv, RecordInv
    <3>7. strm'[s].pc # "detach" BY <2>3, <3>1 DEF Serving
    <3> QED BY <3>1, <3>3, <3>4, <3>5, <3>6, <3>7 DEF MembersKept
  <2> QED BY <2>2, <2>3
<1>8. AttachmentOwned'
  <2> SUFFICES ASSUME NEW r \in Records, NEW a \in Puts, a = rec'[r].att
               PROVE  \/ strm'[put[a].stream].members[rec[r].peer] = a
                      \/ strm'[put[a].stream].pc = "detach" /\ a \in strm'[put[a].stream].todo
                      \/ strm'[put[a].stream].pc \notin Serving /\ put[a].pc = "recheck"
                      \/ \E c \in Conns : del'[c].pc = "detach" /\ del'[c].att = a
                      \/ \E b \in Puts : NotAttached(b) /\ put[b].rec = r
                      \/ \E b \in Puts : put[b].pc = "swap" /\ put[b].prev = a
                      \/ put[a].late
    BY <1>0, <1>2 DEF AttachmentOwned, Owned, RecordsKept
  <2>1. rec[r].att = a BY DEF RecordsKept
  <2>2. put[a].stream \in Streams /\ rec[r].peer \in Peers /\ put[a].rec = r
    BY <2>1, AttachedFact DEF ServerInv
  <2>3. PICK s \in Streams : s = put[a].stream BY <2>2
  <2>4. PICK p \in Peers : p = rec[r].peer BY <2>2
  <2>5. a # None BY MuxAssumption DEF Puts, None
  <2>6. \/ strm[s].members[p] = a
        \/ strm[s].pc = "detach" /\ a \in strm[s].todo
        \/ strm[s].pc \notin Serving /\ put[a].pc = "recheck"
        \/ \E c \in Conns : del[c].pc = "detach" /\ del[c].att = a
        \/ \E b \in Puts : NotAttached(b) /\ put[b].rec = r
        \/ \E b \in Puts : put[b].pc = "swap" /\ put[b].prev = a
        \/ put[a].late
    BY <2>1, <2>3, <2>4 DEF ServerInv, AttachmentOwned, Owned
  <2>7. CASE strm[s].members[p] = a
    <3>1. \A x \in Records : rec[x].att = a => x = r BY <2>2 DEF ServerInv, RecordInv
    <3>2. ~\E x \in Records : rec[x].att = a /\ rec'[x].att \notin Puts BY <3>1
    <3>3. strm[s].members[p] # None BY <2>5, <2>7
    <3>4. \/ strm'[s].members[p] = a
          \/ strm'[s].pc = "detach" /\ a \in strm'[s].todo
          \/ \E x \in Records : rec[x].att = a /\ rec'[x].att \notin Puts
      BY <2>7, <3>3 DEF MembersKept
    <3> QED BY <2>3, <2>4, <3>2, <3>4
  <2>8. CASE strm[s].pc = "detach" /\ a \in strm[s].todo
    BY <2>3, <2>8 DEF DetachesKept
  <2>9. CASE strm[s].pc \notin Serving /\ put[a].pc = "recheck"
    <3>1. strm[s].pc # "request" BY <2>3, <2>9 DEF ServerInv, EnteredInv, Going
    <3> QED BY <2>3, <2>9, <3>1 DEF ServingKept
  <2>10. CASE \E c \in Conns : del[c].pc = "detach" /\ del[c].att = a
    BY <2>10 DEF DetachesKept
  <2> QED BY <2>6, <2>7, <2>8, <2>9, <2>10
<1>9. MemberWoken'
  <2> SUFFICES ASSUME NEW r \in Records, NEW a \in Puts, a = rec'[r].att, rec'[r].unsent,
                      strm'[put[a].stream].pc \in Serving,
                      strm'[put[a].stream].members[rec'[r].peer] = a
               PROVE  \/ strm'[put[a].stream].wake
                      \/ strm'[put[a].stream].pc = "take" /\ a \in strm'[put[a].stream].todo
                      \/ put[a].pc = "recheck" \/ rec'[r].poke = a
    BY <1>0 DEF MemberWoken
  <2>1. rec[r].att = a BY DEF RecordsKept
  <2>2. PICK s \in Streams : s = put[a].stream BY <2>1, AttachedFact DEF ServerInv
  <2>3. PICK p \in Peers : p = rec[r].peer BY <2>1, AttachedFact DEF ServerInv
  <2>4. a # None BY MuxAssumption DEF Puts, None
  <2>5. strm'[s].members[p] = a BY <2>2, <2>3 DEF RecordsKept
  <2>6. strm[s].members[p] = a /\ strm[s].pc \in Serving
    BY <2>4, <2>5 DEF MembersKept, ServerInv, MemberInv
  <2>7. rec[r].unsent \/ rec'[r].poke = a BY DEF WakesKept
  <2>8. ASSUME rec[r].unsent
        PROVE  \/ strm[s].wake
               \/ strm[s].pc = "take" /\ a \in strm[s].todo
               \/ put[a].pc = "recheck" \/ rec[r].poke = a
    <3>1. rec[r].att \in Puts /\ strm[put[rec[r].att].stream].pc \in Serving
          /\ strm[put[rec[r].att].stream].members[rec[r].peer] = rec[r].att
      BY <2>1, <2>2, <2>3, <2>6
    <3>2. \/ strm[put[rec[r].att].stream].wake
          \/ /\ strm[put[rec[r].att].stream].pc = "take"
             /\ rec[r].att \in strm[put[rec[r].att].stream].todo
          \/ put[rec[r].att].pc = "recheck" \/ rec[r].poke = rec[r].att
      BY <2>8, <3>1 DEF ServerInv, MemberWoken
    <3>3. put[rec[r].att].stream = s BY <2>1, <2>2
    <3> QED BY <2>1, <3>2, <3>3
  <2>9. CASE strm[s].wake BY <2>2, <2>4, <2>5, <2>6, <2>9 DEF WakesKept
  <2>10. CASE strm[s].pc = "take" /\ a \in strm[s].todo BY <2>2, <2>10 DEF WakesKept
  <2>11. CASE rec[r].poke = a BY <2>2, <2>6, <2>11 DEF WakesKept
  <2> QED BY <2>2, <2>7, <2>8, <2>9, <2>10, <2>11
<1> QED BY <1>3, <1>4, <1>5, <1>6, <1>7, <1>8, <1>9 DEF ServerInv

\* The whole invariant, for such a step.
LEMMA ServerKeeps ==
  ASSUME MuxInv, Types', UNCHANGED <<client, put>>, SameCalls,
         RecordsKept, MembersKept, ServingKept, DetachesKept, WakesKept,
         \A c \in Conns : del'[c].pc = "none" <=> del[c].pc = "none",
         \A c \in Conns : del'[c].pc = "sent" => del'[c] = del[c],
         \A s \in Streams : strm'[s].pc \in {"detach", "gone"} => strm'[s].conn # "up",
         srv'.doomed # {} => srv'.muxes, LostKept, ToldKept
  PROVE  MuxInv'
<1>0. put' = put BY DEF client
<1>1. ServerInv' BY ServerStep DEF MuxInv, ServerInv
<1>2. SameRequests BY <1>0 DEF SameRequests
<1>3. ClientInv' BY <1>2, ClientFrame DEF MuxInv, ClientInv
<1>4. StreamsGoOn
  <2>1. \A s \in Streams : strm'[s].pc \in {"none", "request"} => strm'[s].pc = strm[s].pc
    BY DEF ServingKept
  <2> QED BY <2>1 DEF StreamsGoOn
<1>5. \A a \in Puts : put'[a].pc \in Going \/ Entered(a)' =>
        (put[a].pc \in Going \/ Entered(a)) /\ put'[a].stream = put[a].stream
  BY <1>0 DEF Entered
<1>6. StreamInv' BY <1>4, <1>5, StreamFrame DEF MuxInv, ToldInv
<1>7. \A a \in Puts : ses.pc = "put" /\ a = ses.put /\ Entered(a)' =>
        Entered(a) \/ Tells(strm'[ses.stream], srv'.muxes, PeerOf(put[a].conn))
  BY <1>0 DEF Entered
<1>8. ToldInv' BY <1>2, <1>6, <1>7, ToldByServer DEF MuxInv, ClientInv
<1> QED BY <1>1, <1>3, <1>8 DEF MuxInv, ServerInv, ClientInv

-----------------------------------------------------------------------------
(* The server's steps, one by one.                                         *)

\* A record is told apart from the others.
LEMMA RecordSet ==
  ASSUME Types, NEW r \in Records, NEW x \in RecStates, rec' = [rec EXCEPT ![r] = x]
  PROVE  /\ rec' \in [Records -> RecStates] /\ rec'[r] = x
         /\ \A q \in Records : q # r => rec'[q] = rec[q]
  BY DEF Types

LEMMA StreamSet ==
  ASSUME Types, NEW s \in Streams, NEW h \in StrmStates, strm' = [strm EXCEPT ![s] = h]
  PROVE  /\ strm' \in [Streams -> StrmStates] /\ strm'[s] = h
         /\ \A t \in Streams : t # s => strm'[t] = strm[t]
  BY DEF Types

LEMMA NoneApart ==
  None \notin Puts /\ None \notin Streams /\ None \notin Records /\ None \notin Conns
  /\ None \notin Peers /\ Other \notin Puts /\ Other # None
  BY MuxAssumption DEF None, Puts, Streams, Records, Conns, Other

\* Streams that stay as they are keep all that they have to.
LEMMA StreamsSame ==
  ASSUME MuxInv, UNCHANGED <<client, strm, put, del, lost>>,
         \A r \in Records : rec'[r].peer = rec[r].peer,
         \A r \in Records : rec'[r].att \in Puts => rec'[r].att = rec[r].att,
         \A r \in Records : rec'[r].unsent /\ rec'[r].att \in Puts =>
           rec[r].unsent \/ rec'[r].poke = rec'[r].att,
         \A r \in Records : rec[r].poke \in Puts => rec'[r].poke = rec[r].poke,
         \A p \in Peers : srv'.peers[p] # None => srv'.peers[p] = srv.peers[p],
         srv'.doomed # {} => srv'.muxes, srv.muxes => srv'.muxes,
         Types', SameCalls
  PROVE  MuxInv'
<1>1. RecordsKept BY DEF RecordsKept
<1>2. MembersKept BY DEF MembersKept, MuxInv, MemberInv
<1>3. ServingKept BY DEF ServingKept
<1>4. DetachesKept BY DEF DetachesKept
<1>5. WakesKept BY DEF WakesKept
<1>6. ToldKept BY DEF ToldKept, Tells
<1>7. \A s \in Streams : strm'[s].pc \in {"detach", "gone"} => strm'[s].conn # "up"
  BY DEF MuxInv, ToldInv, StreamInv
<1>8. UNCHANGED <<client, put>> /\ del' = del /\ LostKept BY DEF LostKept
<1> QED BY <1>1, <1>2, <1>3, <1>4, <1>5, <1>6, <1>7, <1>8, ServerKeeps

LEMMA OtherLeavesKeeps == ASSUME MuxInv, NEW r \in Records, OtherLeaves(r) PROVE MuxInv'
<1>0. Types /\ rec \in [Records -> RecStates] /\ rec[r] \in RecStates BY DEF MuxInv, Types
<1>1. PICK x \in RecStates : x = [rec[r] EXCEPT !.att = None] BY <1>0 DEF RecStates
<1>2. /\ x.peer = rec[r].peer /\ x.unsent = rec[r].unsent /\ x.poke = rec[r].poke
      /\ x.att = None
  BY <1>0, <1>1 DEF RecStates
<1>3. rec' = [rec EXCEPT ![r] = x] BY <1>0, <1>1 DEF OtherLeaves
<1>4. UNCHANGED <<client, strm, put, del, srv, env, lost>> BY DEF OtherLeaves
<1>5. Types' BY <1>0, <1>3, <1>4, RecordSet DEF Types, client
<1>6. SameCalls BY <1>0, <1>4 DEF SameCalls, Types
<1>7. /\ rec'[r] = x /\ \A q \in Records : q # r => rec'[q] = rec[q] BY <1>0, <1>3, RecordSet
<1>8. /\ \A q \in Records : rec'[q].peer = rec[q].peer
      /\ \A q \in Records : rec'[q].att \in Puts => rec'[q].att = rec[q].att
      /\ \A q \in Records : rec'[q].unsent /\ rec'[q].att \in Puts =>
           rec[q].unsent \/ rec'[q].poke = rec'[q].att
      /\ \A q \in Records : rec[q].poke \in Puts => rec'[q].poke = rec[q].poke
  BY <1>2, <1>7, NoneApart
<1>9. srv'.doomed # {} => srv'.muxes BY <1>4 DEF MuxInv, ToldInv, StreamInv
<1> QED BY <1>4, <1>5, <1>6, <1>8, <1>9, StreamsSame

LEMMA ExpireKeeps == ASSUME MuxInv, NEW r \in Records, Expire(r) PROVE MuxInv'
<1>0. Types /\ rec \in [Records -> RecStates] /\ rec[r] \in RecStates /\ srv \in SrvStates
  BY DEF MuxInv, Types
<1>1. PICK x \in RecStates : x = [rec[r] EXCEPT !.down = TRUE, !.unsent = FALSE]
  BY <1>0 DEF RecStates
<1>2. /\ x.peer = rec[r].peer /\ x.unsent = FALSE /\ x.poke = rec[r].poke
      /\ x.att = rec[r].att
  BY <1>0, <1>1 DEF RecStates
<1>3. rec' = [rec EXCEPT ![r] = x] BY <1>0, <1>1 DEF Expire
<1>4. UNCHANGED <<client, strm, put, del, lost>> /\ Happens("grace") BY DEF Expire
<1>5. SameCalls BY <1>0, <1>4, HappensKeepsCalls DEF Kinds
<1>6. /\ srv' \in SrvStates /\ srv'.doomed = srv.doomed /\ srv'.muxes = srv.muxes
      /\ \A p \in Peers : srv'.peers[p] # None => srv'.peers[p] = srv.peers[p]
  <2>1. srv.peers \in [Peers -> Records \cup {None}] BY <1>0 DEF SrvStates
  <2>2. PICK ps \in [Peers -> Records \cup {None}] : ps = [srv.peers EXCEPT ![rec[r].peer] = None]
    BY <2>1
  <2>3. srv' = [srv EXCEPT !.peers = ps] \/ srv' = srv BY <1>0, <2>2 DEF Expire, SrvStates
  <2>4. \A p \in Peers : ps[p] # None => ps[p] = srv.peers[p] BY <2>1, <2>2
  <2> QED BY <1>0, <2>3, <2>4 DEF SrvStates
<1>7. Types' BY <1>0, <1>3, <1>4, <1>5, <1>6, CallsKept, RecordSet DEF Types, client
<1>8. /\ rec'[r] = x /\ \A q \in Records : q # r => rec'[q] = rec[q] BY <1>0, <1>3, RecordSet
<1>9. /\ \A q \in Records : rec'[q].peer = rec[q].peer
      /\ \A q \in Records : rec'[q].att \in Puts => rec'[q].att = rec[q].att
      /\ \A q \in Records : rec'[q].unsent /\ rec'[q].att \in Puts =>
           rec[q].unsent \/ rec'[q].poke = rec'[q].att
      /\ \A q \in Records : rec[q].poke \in Puts => rec'[q].poke = rec[q].poke
  BY <1>2, <1>8, NoneApart
<1>10. /\ srv'.doomed # {} => srv'.muxes
       /\ srv.muxes => srv'.muxes
  BY <1>6 DEF MuxInv, ToldInv, StreamInv
<1>11. \A p \in Peers : srv'.peers[p] # None => srv'.peers[p] = srv.peers[p] BY <1>6
<1> QED BY <1>4, <1>5, <1>7, <1>9, <1>10, <1>11, StreamsSame

LEMMA PostKeeps == ASSUME MuxInv, NEW r \in Records, Post(r) PROVE MuxInv'
<1>0. Types /\ rec \in [Records -> RecStates] /\ rec[r] \in RecStates BY DEF MuxInv, Types
<1>a. PICK k \in Puts \cup {None} : k = IF rec[r].att \in Puts THEN rec[r].att ELSE None OBVIOUS
<1>1. PICK x \in RecStates : x = [rec[r] EXCEPT !.unsent = TRUE, !.poke = k]
  BY <1>0 DEF RecStates
<1>2. x.peer = rec[r].peer /\ x.unsent = TRUE /\ x.poke = k /\ x.att = rec[r].att
  BY <1>0, <1>1 DEF RecStates
<1>3. rec' = [rec EXCEPT ![r] = x] /\ rec[r].poke = None BY <1>0, <1>1, <1>a DEF Post
<1>4. UNCHANGED <<client, strm, put, del, srv, lost>> /\ Happens("post") BY DEF Post
<1>5. SameCalls BY <1>0, <1>4, HappensKeepsCalls DEF Kinds
<1>7. Types' BY <1>0, <1>3, <1>4, <1>5, CallsKept, RecordSet DEF Types, client
<1>8. /\ rec'[r] = x /\ \A q \in Records : q # r => rec'[q] = rec[q] BY <1>0, <1>3, RecordSet
<1>9. /\ \A q \in Records : rec'[q].peer = rec[q].peer
      /\ \A q \in Records : rec'[q].att \in Puts => rec'[q].att = rec[q].att
      /\ \A q \in Records : rec'[q].unsent /\ rec'[q].att \in Puts =>
           rec[q].unsent \/ rec'[q].poke = rec'[q].att
      /\ \A q \in Records : rec[q].poke \in Puts => rec'[q].poke = rec[q].poke
  BY <1>a, <1>2, <1>3, <1>8, NoneApart
<1>10. srv'.doomed # {} => srv'.muxes BY <1>4 DEF MuxInv, ToldInv, StreamInv
<1> QED BY <1>4, <1>5, <1>7, <1>9, <1>10, StreamsSame

LEMMA ServerCloseKeeps == ASSUME MuxInv, ServerClose PROVE MuxInv'
<1>0. Types /\ srv \in SrvStates BY DEF MuxInv, Types
<1>1. UNCHANGED <<client, strm, put, del, rec, lost>> /\ Happens("down") BY DEF ServerClose
<1>2. SameCalls BY <1>0, <1>1, HappensKeepsCalls DEF Kinds
<1>3. /\ srv' \in SrvStates /\ srv'.muxes = TRUE /\ \A p \in Peers : srv'.peers[p] = None
  <2>1. PICK d \in SUBSET Records : d = {srv.peers[p] : p \in Peers} \ {None}
    BY <1>0 DEF SrvStates
  <2>2. PICK ps \in [Peers -> Records \cup {None}] : ps = [p \in Peers |-> None] OBVIOUS
  <2>3. srv' = [srv EXCEPT !.closed = TRUE, !.muxes = TRUE, !.doomed = d, !.peers = ps]
    BY <2>1, <2>2 DEF ServerClose
  <2> QED BY <1>0, <2>2, <2>3 DEF SrvStates
<1>4. Types' BY <1>0, <1>1, <1>2, <1>3, CallsKept DEF Types, client
<1>5. \A p \in Peers : srv'.peers[p] # None => srv'.peers[p] = srv.peers[p] BY <1>3
<1> QED BY <1>1, <1>2, <1>3, <1>4, <1>5, StreamsSame

\* The record lets go of its attachment, which ends at its stream.
LEMMA EndedKeeps ==
  ASSUME MuxInv, NEW r \in Records, NEW reason, UNCHANGED <<client, put, del, lost>>,
         strm' = Ended(strm, rec[r].att, rec[r].peer, reason),
         \A q \in Records : rec'[q].peer = rec[q].peer,
         \A q \in Records : q # r => rec'[q] = rec[q],
         rec'[r].att \notin Puts, rec'[r].poke = rec[r].poke,
         \A p \in Peers : srv'.peers[p] # None => srv'.peers[p] = srv.peers[p],
         srv' \in SrvStates, rec' \in [Records -> RecStates],
         srv'.doomed # {} => srv'.muxes, srv'.muxes = srv.muxes,
         reason = "replaced" \/ srv.muxes, SameCalls
  PROVE  MuxInv'
<1>0. Types /\ ServerInv BY DEF MuxInv, ServerInv
<1>1. PICK a : a = rec[r].att OBVIOUS
<1>2. a \in Puts => rec[r].peer \in Peers /\ put[a].stream \in Streams
  BY <1>0, <1>1, AttachedFact DEF ServerInv
<1>3. EndedAs(strm', a, rec[r].peer, reason) BY <1>0, <1>1, <1>2, EndedFact
<1>4. strm' \in [Streams -> StrmStates] BY <1>3 DEF EndedAs
<1>5. /\ \A s \in Streams :
           /\ strm'[s].pc = strm[s].pc /\ strm'[s].todo = strm[s].todo
           /\ strm'[s].down = strm[s].down
           /\ strm'[s].conn = strm[s].conn /\ strm'[s].wire = strm[s].wire
           /\ strm[s].wake => strm'[s].wake
      /\ \A s \in Streams, q \in Peers :
           \/ strm'[s].members[q] = strm[s].members[q]
           \/ strm'[s].members[q] = None /\ strm[s].members[q] = a /\ a \in Puts
  BY <1>3 DEF EndedAs
<1>6. Types' BY <1>0, <1>4, CallsKept DEF Types, client
<1>7. RecordsKept
  <2>1. \A q \in Records : rec'[q].att \in Puts => rec'[q].att = rec[q].att OBVIOUS
  <2> QED BY <2>1 DEF RecordsKept
<1>8. MembersKept
  <2> SUFFICES ASSUME NEW s \in Streams, NEW p \in Peers
               PROVE  /\ strm'[s].members[p] # None =>
                           strm'[s].members[p] = strm[s].members[p] /\ strm'[s].pc \in Serving
                      /\ strm[s].members[p] # None =>
                           \/ strm'[s].members[p] = strm[s].members[p]
                           \/ \E q \in Records : rec[q].att = strm[s].members[p] /\ rec'[q].att \notin Puts
    BY DEF MembersKept
  <2>1. strm[s].members[p] # None => strm[s].pc \in Serving BY DEF MuxInv, MemberInv
  <2> QED BY <1>1, <1>5, <2>1
<1>9. ServingKept
  <2> SUFFICES ASSUME NEW s \in Streams, strm'[s].pc \in {"none", "request"}
               PROVE  strm'[s] = strm[s]
    BY <1>5 DEF ServingKept, Serving
  <2>1. \A p \in Peers : strm[s].members[p] = None
    BY <1>5 DEF MuxInv, MemberInv, Serving
  <2>2. strm'[s] = strm[s]
    <3>1. CASE strm' = strm BY <3>1
    <3>2. CASE strm' # strm
      <4>1. a \in Puts /\ strm[put[a].stream].members[rec[r].peer] = a
        BY <1>1, <3>2 DEF Ended
      <4>2. put[a].stream # s BY <1>2, <2>1, <4>1, NoneApart
      <4> QED BY <1>1, <4>1, <4>2, <1>0 DEF Ended, Types
    <3> QED BY <3>1, <3>2
  <2> QED BY <2>2
<1>10. DetachesKept BY <1>5 DEF DetachesKept
<1>11. WakesKept
  <2>1. /\ \A q \in Records : rec'[q].unsent /\ rec'[q].att \in Puts =>
             rec[q].unsent \/ rec'[q].poke = rec'[q].att
        /\ \A q \in Records : rec[q].poke \in Puts => rec'[q].poke = rec[q].poke
    OBVIOUS
  <2>2. \A s \in Streams : strm[s].pc \in Serving /\ strm[s].wake /\ strm'[s].pc \in Serving =>
          strm'[s].wake
    BY <1>5
  <2>3. \A s \in Streams : strm[s].pc = "take" => \A b \in strm[s].todo :
          strm'[s].pc = "take" /\ b \in strm'[s].todo
    BY <1>5
  <2> QED BY <2>1, <2>2, <2>3 DEF WakesKept
<1>12. ToldKept
  <2> SUFFICES ASSUME ses.pc \in OnStream, NEW p \in Peers, Tells(strm[ses.stream], srv.muxes, p)
               PROVE  Tells(strm'[ses.stream], srv'.muxes, p)
    BY DEF ToldKept
  <2>1. PICK s \in Streams : s = ses.stream BY DEF MuxInv, SessionInv
  <2>2. /\ p \in Range(strm[s].detached) => p \in Range(strm'[s].detached)
        /\ strm'[s].members[p] # strm[s].members[p] /\ reason = "replaced" =>
             p \in Range(strm'[s].detached)
    BY <1>3 DEF EndedAs
  <2> QED BY <1>5, <2>1, <2>2 DEF Tells
<1>13. \A s \in Streams : strm'[s].pc \in {"detach", "gone"} => strm'[s].conn # "up"
  BY <1>5 DEF MuxInv, ToldInv, StreamInv
<1>14. UNCHANGED <<client, put>> /\ del' = del /\ LostKept BY DEF LostKept
<1> QED BY <1>6, <1>7, <1>8, <1>9, <1>10, <1>11, <1>12, <1>13, <1>14, ServerKeeps

LEMMA TakeoverKeeps == ASSUME MuxInv, NEW r \in Records, Takeover(r) PROVE MuxInv'
<1>0. Types /\ rec \in [Records -> RecStates] /\ rec[r] \in RecStates BY DEF MuxInv, Types
<1>1. PICK x \in RecStates : x = [rec[r] EXCEPT !.att = Other] BY <1>0 DEF RecStates
<1>2. x.peer = rec[r].peer /\ x.poke = rec[r].poke /\ x.att = Other BY <1>0, <1>1 DEF RecStates
<1>3. rec' = [rec EXCEPT ![r] = x] BY <1>0, <1>1 DEF Takeover
<1>4. UNCHANGED <<client, put, del, srv, lost>> /\ Happens("take") BY DEF Takeover
<1>5. SameCalls BY <1>0, <1>4, HappensKeepsCalls DEF Kinds
<1>6. /\ rec' \in [Records -> RecStates] /\ rec'[r] = x
      /\ \A q \in Records : q # r => rec'[q] = rec[q]
  BY <1>0, <1>3, RecordSet
<1>7. \A q \in Records : rec'[q].peer = rec[q].peer BY <1>2, <1>6
<1>8. rec'[r].att \notin Puts /\ rec'[r].poke = rec[r].poke BY <1>2, <1>6, NoneApart
<1>9. strm' = Ended(strm, rec[r].att, rec[r].peer, "replaced") BY DEF Takeover
<1>10. /\ srv' \in SrvStates /\ srv'.muxes = srv.muxes /\ srv'.peers = srv.peers
       /\ srv'.doomed # {} => srv'.muxes
  BY <1>0, <1>4 DEF Types, MuxInv, ToldInv, StreamInv
<1> QED BY <1>4, <1>5, <1>6, <1>7, <1>8, <1>9, <1>10, EndedKeeps

LEMMA ShutdownRecordKeeps == ASSUME MuxInv, NEW r \in Records, ShutdownRecord(r) PROVE MuxInv'
<1>0. Types /\ rec \in [Records -> RecStates] /\ rec[r] \in RecStates /\ srv \in SrvStates
  BY DEF MuxInv, Types
<1>1. PICK x \in RecStates : x = [rec[r] EXCEPT !.down = TRUE, !.unsent = FALSE, !.att = None]
  BY <1>0 DEF RecStates
<1>2. x.peer = rec[r].peer /\ x.poke = rec[r].poke /\ x.att = None BY <1>0, <1>1 DEF RecStates
<1>3. rec' = [rec EXCEPT ![r] = x] BY <1>0, <1>1 DEF ShutdownRecord
<1>4. UNCHANGED <<client, put, del, env, lost>> BY DEF ShutdownRecord
<1>5. SameCalls BY <1>0, <1>4 DEF SameCalls, Types
<1>6. /\ rec' \in [Records -> RecStates] /\ rec'[r] = x
      /\ \A q \in Records : q # r => rec'[q] = rec[q]
  BY <1>0, <1>3, RecordSet
<1>7. \A q \in Records : rec'[q].peer = rec[q].peer BY <1>2, <1>6
<1>8. rec'[r].att \notin Puts /\ rec'[r].poke = rec[r].poke BY <1>2, <1>6, NoneApart
<1>9. strm' = Ended(strm, rec[r].att, rec[r].peer, "shutdown") BY DEF ShutdownRecord
<1>10. srv.muxes BY DEF ShutdownRecord, MuxInv, ToldInv, StreamInv
<1>11. srv' \in SrvStates /\ srv'.muxes = srv.muxes /\ srv'.peers = srv.peers
  <2>1. PICK d \in SUBSET Records : d = srv.doomed \ {r} BY <1>0 DEF SrvStates
  <2>2. srv' = [srv EXCEPT !.doomed = d] BY <1>0, <2>1 DEF ShutdownRecord, SrvStates
  <2> QED BY <1>0, <2>2 DEF SrvStates
<1> QED BY <1>4, <1>5, <1>6, <1>7, <1>8, <1>9, <1>10, <1>11, EndedKeeps

LEMMA PostPokesKeeps == ASSUME MuxInv, NEW r \in Records, PostPokes(r) PROVE MuxInv'
<1>0. Types /\ rec \in [Records -> RecStates] /\ rec[r] \in RecStates BY DEF MuxInv, Types
<1>1. PICK x \in RecStates : x = [rec[r] EXCEPT !.poke = None] BY <1>0 DEF RecStates
<1>2. x.peer = rec[r].peer /\ x.att = rec[r].att /\ x.unsent = rec[r].unsent
  BY <1>0, <1>1 DEF RecStates
<1>3. rec' = [rec EXCEPT ![r] = x] BY <1>0, <1>1 DEF PostPokes
<1>4. UNCHANGED <<client, put, del, srv, env, lost>> BY DEF PostPokes
<1>5. SameCalls BY <1>0, <1>4 DEF SameCalls, Types
<1>6. /\ rec' \in [Records -> RecStates] /\ rec'[r] = x
      /\ \A q \in Records : q # r => rec'[q] = rec[q]
  BY <1>0, <1>3, RecordSet
<1>7. PICK b \in Puts : b = rec[r].poke BY <1>0 DEF PostPokes, RecStates
<1>8. PICK t \in Streams \cup {None} : t = put[b].stream BY <1>0 DEF Types, PutStates
<1>9. strm' = Poked(strm, t) BY <1>7, <1>8 DEF PostPokes
<1>10. /\ strm' \in [Streams -> StrmStates]
       /\ \A s \in Streams : Woken(strm'[s], strm[s])
       /\ t \in Streams /\ strm[t].pc \in Serving => strm'[t].wake = TRUE
  BY <1>0, <1>9, PokedFact
<1>11. \A s \in Streams :
         /\ strm'[s].pc = strm[s].pc /\ strm'[s].members = strm[s].members
         /\ strm'[s].todo = strm[s].todo /\ strm'[s].detached = strm[s].detached
         /\ strm'[s].down = strm[s].down /\ strm'[s].conn = strm[s].conn
         /\ strm'[s].wire = strm[s].wire /\ (strm[s].wake => strm'[s].wake)
  BY <1>10 DEF Woken
<1>12. Types' BY <1>0, <1>4, <1>6, <1>10 DEF Types, client
<1>13. RecordsKept BY <1>2, <1>4, <1>6 DEF RecordsKept
<1>14. MembersKept BY <1>11 DEF MembersKept, MuxInv, MemberInv
<1>15. ServingKept
  <2>1. \A s \in Streams : strm[s].pc \notin Serving => strm'[s] = strm[s]
    BY <1>0, <1>9, NoneApart DEF Poked, Types
  <2> QED BY <1>11, <2>1 DEF ServingKept, Serving
<1>16. DetachesKept BY <1>4, <1>11 DEF DetachesKept
<1>17. WakesKept
  <2>1. /\ \A q \in Records : rec'[q].unsent /\ rec'[q].att \in Puts => rec[q].unsent
        /\ \A q \in Records : q # r => rec'[q].poke = rec[q].poke
    BY <1>2, <1>6
  <2>2. \A s \in Streams : s = put[rec[r].poke].stream /\ strm[s].pc \in Serving => strm'[s].wake
    BY <1>7, <1>8, <1>10
  <2>3. \A s \in Streams : strm[s].wake => strm'[s].wake BY <1>11
  <2>4. \A s \in Streams : strm[s].pc = "take" => \A c \in strm[s].todo :
          strm'[s].pc = "take" /\ c \in strm'[s].todo
    BY <1>11
  <2> QED BY <2>1, <2>2, <2>3, <2>4 DEF WakesKept
<1>18. ToldKept
  <2> SUFFICES ASSUME ses.pc \in OnStream, NEW p \in Peers, Tells(strm[ses.stream], srv.muxes, p)
               PROVE  Tells(strm'[ses.stream], srv'.muxes, p)
    BY DEF ToldKept
  <2>1. PICK s \in Streams : s = ses.stream BY DEF MuxInv, SessionInv
  <2> QED BY <1>4, <1>11, <2>1 DEF Tells
<1>19. \A s \in Streams : strm'[s].pc \in {"detach", "gone"} => strm'[s].conn # "up"
  BY <1>11 DEF MuxInv, ToldInv, StreamInv
<1>20. /\ UNCHANGED <<client, put>> /\ del' = del /\ LostKept
       /\ srv'.doomed # {} => srv'.muxes
  BY <1>4 DEF MuxInv, ToldInv, StreamInv, LostKept
<1> QED BY <1>5, <1>12, <1>13, <1>14, <1>15, <1>16, <1>17, <1>18, <1>19, <1>20, ServerKeeps

-----------------------------------------------------------------------------
(* The steps of a stream's handler.                                        *)

LEMMA ConcatContains ==
  ASSUME NEW S, NEW v \in Seq(S), NEW w \in Seq(S), NEW e
  PROVE  Contains(v, e) \/ Contains(w, e) => Contains(v \o w, e)
<1>1. /\ Len(v \o w) = Len(v) + Len(w) /\ Len(v) \in Nat /\ Len(w) \in Nat
      /\ \A i \in 1 .. Len(v) : (v \o w)[i] = v[i]
      /\ \A i \in 1 .. Len(w) : (v \o w)[Len(v) + i] = w[i]
  BY ConcatProperties
<1>2. ASSUME NEW i \in 1 .. Len(v), v[i] = e PROVE Contains(v \o w, e)
  BY <1>1, <1>2 DEF Contains
<1>3. ASSUME NEW i \in 1 .. Len(w), w[i] = e PROVE Contains(v \o w, e)
  <2>1. Len(v) + i \in 1 .. Len(v \o w) BY <1>1
  <2> QED BY <1>1, <1>3, <2>1 DEF Contains
<1> QED BY <1>2, <1>3 DEF Contains

LEMMA PushedTells ==
  ASSUME NEW h \in StrmStates, NEW es \in Seq(Events), NEW m, NEW p \in Peers,
         Tells(h, m, p) \/ Contains(es, Event("detached", p))
  PROVE  Tells(Pushed(h, es), m, p)
<1>1. PICK g : g = Pushed(h, es) OBVIOUS
<1>2. SameStream(g, h) /\ g.conn = h.conn /\ g.wire = IF h.conn = "up" THEN h.wire \o es ELSE h.wire
  BY <1>1, PushedFact
<1>3. h.wire \in Seq(Events) BY DEF StrmStates
<1>4. Contains(h.wire, Event("detached", p)) \/ Contains(es, Event("detached", p)) =>
        Contains(h.wire \o es, Event("detached", p))
  BY <1>3, ConcatContains
<1>5. Tells(g, m, p) BY <1>2, <1>4 DEF SameStream, Tells
<1> QED BY <1>1, <1>5

\* What a step of the handler may do to its stream, which is h before and g after.
HandlerStep(g, h, m) ==
  /\ h.pc # "detach"
  /\ g.pc \in Serving => h.pc \in Serving \cup {"request"}
  /\ g.pc \notin {"none", "request"}
  /\ g.pc \in {"detach", "gone"} => g.conn # "up"
  /\ \A p \in Peers : g.members[p] # None => g.members[p] = h.members[p] /\ g.pc \in Serving
  /\ \A p \in Peers : h.members[p] # None =>
       \/ g.members[p] = h.members[p]
       \/ g.pc = "detach" /\ h.members[p] \in g.todo
  /\ g.pc = "take" => \A a \in g.todo :
       \/ h.pc = "take" /\ a \in h.todo
       \/ a # None /\ \E p \in Peers : h.members[p] = a
  /\ h.pc \in Serving /\ h.wake /\ g.pc \in Serving =>
       \/ g.wake
       \/ g.pc = "take" /\ \A p \in Peers : g.members[p] # None => g.members[p] \in g.todo
  /\ h.pc = "take" /\ g.pc \in Serving => h.todo = {} \/ (g.pc = "take" /\ h.todo \subseteq g.todo)
  /\ \A p \in Peers : Tells(h, m, p) => Tells(g, m, p)

LEMMA HandlerKeeps ==
  ASSUME MuxInv, NEW s \in Streams, NEW g \in StrmStates, strm' = [strm EXCEPT ![s] = g],
         UNCHANGED <<client, put, del, rec, srv, lost>>, SameCalls,
         HandlerStep(g, strm[s], srv.muxes)
  PROVE  MuxInv'
<1>0. Types BY DEF MuxInv
<1>1. strm' \in [Streams -> StrmStates] /\ strm'[s] = g /\ \A t \in Streams : t # s => strm'[t] = strm[t]
  BY <1>0, StreamSet
<1>2. Types' BY <1>0, <1>1, CallsKept DEF Types, client
<1>3. RecordsKept BY DEF RecordsKept
<1>4. MembersKept
  <2> SUFFICES ASSUME NEW t \in Streams, NEW p \in Peers
               PROVE  /\ strm'[t].members[p] # None =>
                           strm'[t].members[p] = strm[t].members[p] /\ strm'[t].pc \in Serving
                      /\ strm[t].members[p] # None =>
                           \/ strm'[t].members[p] = strm[t].members[p]
                           \/ strm'[t].pc = "detach" /\ strm[t].members[p] \in strm'[t].todo
    BY DEF MembersKept
  <2>1. CASE t = s BY <1>1, <2>1 DEF HandlerStep
  <2>2. CASE t # s BY <1>1, <2>2 DEF MuxInv, MemberInv
  <2> QED BY <2>1, <2>2
<1>5. ServingKept BY <1>1 DEF ServingKept, HandlerStep
<1>6. DetachesKept BY <1>1 DEF DetachesKept, HandlerStep
<1>7. WakesKept
  <2>1. \A t \in Streams : strm[t].pc \in Serving /\ strm[t].wake /\ strm'[t].pc \in Serving =>
          \/ strm'[t].wake
          \/ strm'[t].pc = "take"
             /\ \A p \in Peers : strm'[t].members[p] # None => strm'[t].members[p] \in strm'[t].todo
    BY <1>1 DEF HandlerStep
  <2>2. \A t \in Streams : strm[t].pc = "take" /\ strm'[t].pc \in Serving => \A a \in strm[t].todo :
          strm'[t].pc = "take" /\ a \in strm'[t].todo
    BY <1>1 DEF HandlerStep
  <2>3. rec' = rec OBVIOUS
  <2> QED BY <2>1, <2>2, <2>3 DEF WakesKept
<1>8. ToldKept
  <2> SUFFICES ASSUME ses.pc \in OnStream, NEW p \in Peers, Tells(strm[ses.stream], srv.muxes, p)
               PROVE  Tells(strm'[ses.stream], srv.muxes, p)
    BY DEF ToldKept
  <2>1. PICK t \in Streams : t = ses.stream BY DEF MuxInv, SessionInv
  <2>2. CASE t = s BY <1>1, <2>1, <2>2 DEF HandlerStep
  <2>3. CASE t # s BY <1>1, <2>1, <2>3
  <2> QED BY <2>2, <2>3
<1>9. \A t \in Streams : strm'[t].pc \in {"detach", "gone"} => strm'[t].conn # "up"
  BY <1>1 DEF MuxInv, ToldInv, StreamInv, HandlerStep
<1>10. /\ UNCHANGED <<client, put>> /\ del' = del /\ LostKept
       /\ srv'.doomed # {} => srv'.muxes
  BY DEF MuxInv, ToldInv, StreamInv, LostKept
<1> QED BY <1>2, <1>3, <1>4, <1>5, <1>6, <1>7, <1>8, <1>9, <1>10, ServerKeeps

\* A stream's members, and who is on their way to it, are as the invariants say.
LEMMA StreamFacts ==
  ASSUME MuxInv, NEW s \in Streams
  PROVE  /\ strm[s] \in StrmStates
         /\ \A p \in Peers : strm[s].members[p] # None => strm[s].pc \in Serving
         /\ strm[s].pc = "request" => strm[s].todo = {}
<1>1. strm[s].pc = "request" => strm[s].todo = {} BY DEF MuxInv, SnapshotInv
<1> QED BY <1>1 DEF MuxInv, Types, MemberInv

LEMMA OpenMuxKeeps == ASSUME MuxInv, NEW s \in Streams, OpenMux(s) PROVE MuxInv'
<1>0. Types /\ strm \in [Streams -> StrmStates] /\ strm[s] \in StrmStates BY DEF MuxInv, Types
<1>1. strm[s].pc = "request" /\ UNCHANGED <<client, put, del, rec, srv, lost>> /\ env' = env
  BY DEF OpenMux
<1>2. SameCalls BY <1>0, <1>1 DEF SameCalls, Types
<1>3. /\ \A p \in Peers : strm[s].members[p] = None
      /\ strm[s].todo = {}
  BY <1>1, StreamFacts DEF Serving
<1>4. CASE srv.closed
  <2>1. PICK g \in StrmStates : g = [strm[s] EXCEPT !.pc = "gone", !.conn = "eof"]
    BY <1>0 DEF StrmStates
  <2>2. g.pc = "gone" /\ g.conn = "eof" /\ g.members = strm[s].members BY <1>0, <2>1 DEF StrmStates
  <2>3. strm' = [strm EXCEPT ![s] = g] BY <1>4, <2>1 DEF OpenMux
  <2>4. HandlerStep(g, strm[s], srv.muxes)
    BY <1>1, <1>3, <2>2 DEF HandlerStep, Serving, Tells
  <2> QED BY <1>1, <1>2, <2>3, <2>4, HandlerKeeps
<1>5. CASE ~srv.closed
  <2>1. PICK h \in StrmStates : h = [strm[s] EXCEPT !.pc = "take"] BY <1>0 DEF StrmStates
  <2>2. /\ h.pc = "take" /\ h.conn = strm[s].conn /\ h.members = strm[s].members
        /\ h.todo = strm[s].todo /\ h.detached = strm[s].detached /\ h.down = strm[s].down
        /\ h.wire = strm[s].wire
    BY <1>0, <2>1 DEF StrmStates
  <2>3. PICK es : es = <<Event("mux", None)>> OBVIOUS
  <2>4. es \in Seq(Events)
    <3>1. Event("mux", None) \in Events BY DEF Event, Events
    <3> QED BY <2>3, <3>1
  <2>5. PICK g : g = Pushed(h, es) OBVIOUS
  <2>6. g \in StrmStates /\ SameStream(g, h) /\ g.conn = h.conn BY <2>4, <2>5, PushedFact
  <2>7. strm' = [strm EXCEPT ![s] = g] BY <1>5, <2>1, <2>3, <2>5 DEF OpenMux
  <2>8. \A p \in Peers : Tells(strm[s], srv.muxes, p) => Tells(g, srv.muxes, p)
    <3>1. \A p \in Peers : Tells(strm[s], srv.muxes, p) => Tells(h, srv.muxes, p)
      BY <2>2 DEF Tells
    <3> QED BY <2>4, <2>5, <3>1, PushedTells
  <2>9. HandlerStep(g, strm[s], srv.muxes)
    BY <1>1, <1>3, <2>2, <2>6, <2>8 DEF HandlerStep, Serving, SameStream
  <2> QED BY <1>1, <1>2, <2>6, <2>7, <2>9, HandlerKeeps
<1> QED BY <1>4, <1>5

LEMMA ReportKeeps == ASSUME MuxInv, NEW s \in Streams, Report(s) PROVE MuxInv'
<1>0. Types /\ strm \in [Streams -> StrmStates] /\ strm[s] \in StrmStates BY DEF MuxInv, Types
<1>1. /\ strm[s].pc = "take" /\ strm[s].todo = {} /\ env' = env
      /\ UNCHANGED <<client, put, del, rec, srv, lost>>
  BY DEF Report
<1>2. SameCalls BY <1>0, <1>1 DEF SameCalls, Types
<1>3. PICK d \in Seq(Peers) : d = strm[s].detached BY <1>0 DEF StrmStates
<1>4. PICK h \in StrmStates : h = [strm[s] EXCEPT !.pc = "wait", !.detached = <<>>]
  <2>1. <<>> \in Seq(Peers) OBVIOUS
  <2> QED BY <1>0, <2>1 DEF StrmStates
<1>5. /\ h.pc = "wait" /\ h.conn = strm[s].conn /\ h.members = strm[s].members
      /\ h.todo = strm[s].todo /\ h.wake = strm[s].wake /\ h.down = strm[s].down
      /\ h.wire = strm[s].wire
  BY <1>0, <1>4 DEF StrmStates
<1>6. PICK es : es = [i \in DOMAIN d |-> Event("detached", d[i])] OBVIOUS
<1>7. /\ es \in Seq(Events)
      /\ \A p \in Range(d) : Contains(es, Event("detached", p))
  <2>1. Len(d) \in Nat /\ DOMAIN d = 1 .. Len(d) OBVIOUS
  <2>2. \A i \in 1 .. Len(d) : Event("detached", d[i]) \in Events BY DEF Event, Events
  <2>3. es = [i \in 1 .. Len(d) |-> Event("detached", d[i])] BY <1>6, <2>1
  <2>4. es \in [1 .. Len(d) -> Events] BY <2>2, <2>3
  <2>5. es \in Seq(Events) BY <2>1, <2>4
  <2>6. Len(es) = Len(d) BY <2>1, <2>4, <2>5
  <2> QED BY <2>1, <2>3, <2>5, <2>6 DEF Range, Contains
<1>8. PICK g : g = Pushed(h, es) OBVIOUS
<1>9. g \in StrmStates /\ SameStream(g, h) /\ g.conn = h.conn BY <1>7, <1>8, PushedFact
<1>10. strm' = [strm EXCEPT ![s] = g] BY <1>3, <1>4, <1>6, <1>8 DEF Report
<1>11. \A p \in Peers : Tells(strm[s], srv.muxes, p) => Tells(g, srv.muxes, p)
  <2>1. \A p \in Peers : Tells(strm[s], srv.muxes, p) =>
          Tells(h, srv.muxes, p) \/ p \in Range(d)
    BY <1>3, <1>5 DEF Tells
  <2> QED BY <1>7, <1>8, <2>1, PushedTells
<1>12. HandlerStep(g, strm[s], srv.muxes)
  BY <1>1, <1>5, <1>9, <1>11 DEF HandlerStep, Serving, SameStream
<1> QED BY <1>1, <1>2, <1>9, <1>10, <1>12, HandlerKeeps

LEMMA CloseMuxKeeps ==
  ASSUME MuxInv, NEW s \in Streams, NEW h \in StrmStates, strm[s].pc \in Serving,
         h.members = strm[s].members, strm' = [strm EXCEPT ![s] = CloseMux(h)],
         UNCHANGED <<client, put, del, rec, srv, env, lost>>
  PROVE  MuxInv'
<1>0. Types BY DEF MuxInv
<1>1. SameCalls BY <1>0 DEF SameCalls, Types
<1>2. PICK g : g = CloseMux(h) OBVIOUS
<1>3. /\ g \in StrmStates
      /\ g.pc \in {"detach", "gone"} /\ g.conn # "up"
      /\ \A p \in Peers : g.members[p] = None
      /\ g.todo = {h.members[p] : p \in Peers} \ {None}
      /\ g.todo # {} => g.pc = "detach"
  BY <1>2, CloseMuxFact
<1>4. \A p \in Peers : h.members[p] # None => g.pc = "detach" /\ h.members[p] \in g.todo
  BY <1>3
<1>5. HandlerStep(g, strm[s], srv.muxes) BY <1>3, <1>4 DEF HandlerStep, Serving, Tells
<1> QED BY <1>1, <1>2, <1>3, <1>5, HandlerKeeps

LEMMA WakeKeeps == ASSUME MuxInv, NEW s \in Streams, Wake(s) PROVE MuxInv'
<1>0. Types /\ strm \in [Streams -> StrmStates] /\ strm[s] \in StrmStates BY DEF MuxInv, Types
<1>1. strm[s].pc = "wait" /\ UNCHANGED <<client, put, del, rec, srv, env, lost>> BY DEF Wake
<1>2. SameCalls BY <1>0, <1>1 DEF SameCalls, Types
<1>3. ASSUME strm' = [strm EXCEPT ![s].pc = "take", ![s].wake = FALSE,
                                  ![s].todo = {strm[s].members[p] : p \in Peers} \ {None}]
      PROVE  MuxInv'
  <2>1. strm[s].members \in [Peers -> Puts \cup {None}] BY <1>0 DEF StrmStates
  <2>2. PICK t \in SUBSET Puts : t = {strm[s].members[p] : p \in Peers} \ {None} BY <2>1
  <2>3. PICK g \in StrmStates : g = [strm[s] EXCEPT !.pc = "take", !.wake = FALSE, !.todo = t]
    BY <1>0 DEF StrmStates
  <2>4. /\ g.pc = "take" /\ g.todo = t /\ g.members = strm[s].members
        /\ g.detached = strm[s].detached /\ g.down = strm[s].down /\ g.conn = strm[s].conn
        /\ g.wire = strm[s].wire
    BY <1>0, <2>3 DEF StrmStates
  <2>5. strm' = [strm EXCEPT ![s] = g] BY <1>0, <1>3, <2>2, <2>3
  <2>6. \A p \in Peers : Tells(strm[s], srv.muxes, p) => Tells(g, srv.muxes, p)
    BY <2>4 DEF Tells
  <2>7. HandlerStep(g, strm[s], srv.muxes)
    BY <1>1, <2>2, <2>4, <2>6 DEF HandlerStep, Serving
  <2> QED BY <1>1, <1>2, <2>5, <2>7, HandlerKeeps
<1>4. ASSUME strm' = [strm EXCEPT ![s] = CloseMux(Pushed(strm[s], <<Event("shutdown", None)>>))]
      PROVE  MuxInv'
  <2>1. PICK es : es = <<Event("shutdown", None)>> OBVIOUS
  <2>2. es \in Seq(Events)
    <3>1. Event("shutdown", None) \in Events BY DEF Event, Events
    <3> QED BY <2>1, <3>1
  <2>3. PICK h : h = Pushed(strm[s], es) OBVIOUS
  <2>4. h \in StrmStates /\ SameStream(h, strm[s]) BY <1>0, <2>2, <2>3, PushedFact
  <2>5. strm' = [strm EXCEPT ![s] = CloseMux(h)] BY <1>4, <2>1, <2>3
  <2>6. strm[s].pc \in Serving /\ h.members = strm[s].members
    BY <1>1, <2>4 DEF Serving, SameStream
  <2> QED BY <1>1, <2>4, <2>5, <2>6, CloseMuxKeeps
<1> QED BY <1>3, <1>4 DEF Wake

LEMMA HandlerFailsKeeps == ASSUME MuxInv, NEW s \in Streams, HandlerFails(s) PROVE MuxInv'
<1>1. strm[s] \in StrmStates BY StreamFacts
<1> QED BY <1>1, CloseMuxKeeps DEF HandlerFails

\* Server.Close tells every stream that is served; the others have ended.
LEMMA ShutdownStreamsKeeps == ASSUME MuxInv, ShutdownStreams PROVE MuxInv'
<1>0. Types /\ strm \in [Streams -> StrmStates] /\ srv \in SrvStates BY DEF MuxInv, Types
<1>1. UNCHANGED <<client, put, del, rec, env, lost>> /\ srv.doomed = {} BY DEF ShutdownStreams
<1>2. SameCalls BY <1>0, <1>1 DEF SameCalls, Types
<1>3. srv' \in SrvStates /\ srv'.doomed = {} /\ srv'.peers = srv.peers
  BY <1>0, <1>1 DEF ShutdownStreams, SrvStates
<1>4. ASSUME NEW s \in Streams
      PROVE  /\ strm'[s] \in StrmStates
             /\ strm'[s].pc = strm[s].pc /\ strm'[s].members = strm[s].members
             /\ strm'[s].todo = strm[s].todo /\ strm'[s].wake = strm[s].wake
             /\ strm'[s].conn = strm[s].conn
             /\ strm[s].pc \in Serving => strm'[s].down = TRUE
             /\ strm[s].pc \notin Serving => strm'[s] = strm[s]
  <2>1. strm'[s] = IF strm[s].pc \in Serving THEN [strm[s] EXCEPT !.down = TRUE] ELSE strm[s]
    BY DEF ShutdownStreams
  <2>2. strm[s] \in StrmStates BY <1>0
  <2> QED BY <2>1, <2>2 DEF StrmStates
<1>5. strm' \in [Streams -> StrmStates]
  <2>1. strm' = [s \in Streams |-> strm'[s]] BY DEF ShutdownStreams
  <2> QED BY <1>4, <2>1
<1>6. Types' BY <1>0, <1>1, <1>3, <1>5 DEF Types, client
<1>7. RecordsKept BY <1>1, <1>3 DEF RecordsKept
<1>8. MembersKept
  <2>1. \A s \in Streams, p \in Peers : strm'[s].members[p] = strm[s].members[p] BY <1>4
  <2>2. \A s \in Streams, p \in Peers : strm[s].members[p] # None => strm[s].pc \in Serving
    BY StreamFacts
  <2>3. \A s \in Streams : strm'[s].pc = strm[s].pc BY <1>4
  <2> QED BY <2>1, <2>2, <2>3 DEF MembersKept
<1>9. ServingKept BY <1>4 DEF ServingKept, Serving
<1>10. DetachesKept BY <1>1, <1>4 DEF DetachesKept
<1>11. WakesKept BY <1>1, <1>4 DEF WakesKept
<1>12. ToldKept
  <2> SUFFICES ASSUME ses.pc \in OnStream, NEW p \in Peers
               PROVE  Tells(strm'[ses.stream], srv'.muxes, p)
    BY DEF ToldKept
  <2>1. PICK s \in Streams : s = ses.stream BY DEF MuxInv, SessionInv
  <2>2. strm[s].pc \in Serving \cup {"detach", "gone"}
    BY <1>0, <2>1 DEF MuxInv, ToldInv, StreamInv, StrmStates, Serving
  <2>3. strm[s].pc \in {"detach", "gone"} => strm[s].conn # "up" BY DEF MuxInv, ToldInv, StreamInv
  <2> QED BY <1>4, <2>1, <2>2, <2>3 DEF Tells
<1>13. \A s \in Streams : strm'[s].pc \in {"detach", "gone"} => strm'[s].conn # "up"
  BY <1>4 DEF MuxInv, ToldInv, StreamInv
<1>14. UNCHANGED <<client, put>> /\ del' = del /\ LostKept BY <1>1 DEF LostKept
<1> QED BY <1>2, <1>3, <1>6, <1>7, <1>8, <1>9, <1>10, <1>11, <1>12, <1>13, <1>14, ServerKeeps

LEMMA TakeUnsentKeeps == ASSUME MuxInv, NEW s \in Streams, TakeUnsent(s) PROVE MuxInv'
<1>0. Types /\ ServerInv /\ strm \in [Streams -> StrmStates] /\ strm[s] \in StrmStates
      /\ rec \in [Records -> RecStates]
  BY DEF MuxInv, Types, ServerInv
<1>1. strm[s].pc = "take" /\ UNCHANGED <<client, put, del, srv, env, lost>> BY DEF TakeUnsent
<1>2. SameCalls BY <1>0, <1>1 DEF SameCalls, Types
<1>3. PICK a \in strm[s].todo :
        LET r    == put[a].rec
            took == rec[r].att = a /\ rec[r].unsent
        IN  /\ rec' = IF took THEN [rec EXCEPT ![r].unsent = FALSE, ![r].sent = TRUE] ELSE rec
            /\ strm' = [strm EXCEPT ![s] =
                          Pushed([strm[s] EXCEPT !.todo = @ \ {a}],
                                 IF took THEN <<Event("signal", rec[r].peer)>> ELSE <<>>)]
  BY DEF TakeUnsent
<1>4. a \in Puts /\ Entered(a) /\ put[a].stream = s
  BY <1>0, <1>1 DEF StrmStates, ServerInv, SnapshotInv
<1>5. PICK r \in Records : r = put[a].rec BY <1>0, <1>4, EnteredFact DEF ServerInv
<1>6. PICK took \in BOOLEAN : took = (rec[r].att = a /\ rec[r].unsent) OBVIOUS
<1>7. PICK es : es = IF took THEN <<Event("signal", rec[r].peer)>> ELSE <<>> OBVIOUS
<1>8. es \in Seq(Events)
  <2>1. rec[r].peer \in Peers \cup {None} BY <1>0 DEF RecStates
  <2>2. Event("signal", rec[r].peer) \in Events BY <2>1 DEF Event, Events
  <2>3. <<Event("signal", rec[r].peer)>> \in Seq(Events) BY <2>2
  <2>4. <<>> \in Seq(Events) OBVIOUS
  <2> QED BY <1>7, <2>3, <2>4
<1>9. PICK h \in StrmStates : h = [strm[s] EXCEPT !.todo = @ \ {a}] BY <1>0 DEF StrmStates
<1>10. /\ h.pc = strm[s].pc /\ h.conn = strm[s].conn /\ h.members = strm[s].members
       /\ h.todo = strm[s].todo \ {a} /\ h.wake = strm[s].wake /\ h.down = strm[s].down
       /\ h.wire = strm[s].wire /\ h.detached = strm[s].detached
  BY <1>0, <1>9 DEF StrmStates
<1>11. PICK g : g = Pushed(h, es) OBVIOUS
<1>12. g \in StrmStates /\ SameStream(g, h) /\ g.conn = h.conn BY <1>8, <1>11, PushedFact
<1>13. strm' = [strm EXCEPT ![s] = g] BY <1>3, <1>5, <1>6, <1>7, <1>9, <1>11
<1>14. /\ strm' \in [Streams -> StrmStates] /\ strm'[s] = g
       /\ \A t \in Streams : t # s => strm'[t] = strm[t]
  BY <1>0, <1>12, <1>13, StreamSet
<1>15. /\ g.pc = "take" /\ g.conn = strm[s].conn /\ g.members = strm[s].members
       /\ g.todo = strm[s].todo \ {a} /\ g.wake = strm[s].wake
  BY <1>1, <1>10, <1>12 DEF SameStream
<1>16. /\ rec' \in [Records -> RecStates]
       /\ \A q \in Records : /\ rec'[q].peer = rec[q].peer /\ rec'[q].att = rec[q].att
                             /\ rec'[q].poke = rec[q].poke
                             /\ rec'[q].unsent => rec[q].unsent
       /\ rec[r].att = a => ~rec'[r].unsent
  <2>1. CASE took
    <3>1. PICK x \in RecStates : x = [rec[r] EXCEPT !.unsent = FALSE, !.sent = TRUE]
      BY <1>0 DEF RecStates
    <3>2. x.peer = rec[r].peer /\ x.att = rec[r].att /\ x.poke = rec[r].poke /\ x.unsent = FALSE
      BY <1>0, <3>1 DEF RecStates
    <3>3. rec' = [rec EXCEPT ![r] = x] BY <1>0, <1>3, <1>5, <1>6, <2>1, <3>1
    <3>4. rec' \in [Records -> RecStates] /\ rec'[r] = x /\ \A q \in Records : q # r => rec'[q] = rec[q]
      BY <1>0, <3>3, RecordSet
    <3> QED BY <3>2, <3>4
  <2>2. CASE ~took
    <3>1. rec' = rec BY <1>3, <1>5, <1>6, <2>2
    <3> QED BY <1>0, <1>6, <2>2, <3>1
  <2> QED BY <2>1, <2>2
<1>17. Types' BY <1>0, <1>1, <1>14, <1>16 DEF Types, client
<1>18. RecordsKept BY <1>1, <1>16 DEF RecordsKept
<1>19. MembersKept BY <1>14, <1>15 DEF MembersKept, MuxInv, MemberInv, Serving
<1>20. ServingKept BY <1>1, <1>14, <1>15 DEF ServingKept, Serving
<1>21. DetachesKept BY <1>1, <1>14, <1>15 DEF DetachesKept
<1>22. WakesKept
  <2>1. /\ \A q \in Records : rec'[q].unsent => rec[q].unsent
        /\ \A q \in Records : rec'[q].poke = rec[q].poke
    BY <1>16
  <2>2. \A t \in Streams : strm[t].wake => strm'[t].wake BY <1>14, <1>15
  <2>3. ASSUME NEW t \in Streams, strm[t].pc = "take", NEW b \in strm[t].todo
        PROVE  \/ strm'[t].pc = "take" /\ b \in strm'[t].todo
               \/ \A q \in Records : rec'[q].att = b => ~rec'[q].unsent
    <3>1. CASE t = s /\ b = a
      <4>1. \A q \in Records : rec'[q].att = a => q = r
        BY <1>4, <1>5, <1>16 DEF MuxInv, RecordInv
      <4> QED BY <1>16, <3>1, <4>1
    <3>2. CASE ~(t = s /\ b = a) BY <1>14, <1>15, <2>3, <3>2
    <3> QED BY <3>1, <3>2
  <2> QED BY <2>1, <2>2, <2>3 DEF WakesKept
<1>23. ToldKept
  <2> SUFFICES ASSUME ses.pc \in OnStream, NEW p \in Peers, Tells(strm[ses.stream], srv.muxes, p)
               PROVE  Tells(strm'[ses.stream], srv'.muxes, p)
    BY DEF ToldKept
  <2>1. PICK t \in Streams : t = ses.stream BY DEF MuxInv, SessionInv
  <2>2. CASE t = s
    <3>1. Tells(h, srv.muxes, p) BY <1>10, <2>1, <2>2 DEF Tells
    <3>2. Tells(g, srv.muxes, p) BY <1>8, <1>11, <3>1, PushedTells
    <3> QED BY <1>1, <1>14, <2>1, <2>2, <3>2
  <2>3. CASE t # s BY <1>1, <1>14, <2>1, <2>3
  <2> QED BY <2>2, <2>3
<1>24. \A t \in Streams : strm'[t].pc \in {"detach", "gone"} => strm'[t].conn # "up"
  BY <1>14, <1>15 DEF MuxInv, ToldInv, StreamInv
<1>25. /\ UNCHANGED <<client, put>> /\ del' = del /\ LostKept
       /\ srv'.doomed # {} => srv'.muxes
  BY <1>1 DEF MuxInv, ToldInv, StreamInv, LostKept
<1> QED BY <1>2, <1>17, <1>18, <1>19, <1>20, <1>21, <1>22, <1>23, <1>24, <1>25, ServerKeeps

LEMMA DetachMemberKeeps == ASSUME MuxInv, NEW s \in Streams, DetachMember(s) PROVE MuxInv'
<1>0. Types /\ strm \in [Streams -> StrmStates] /\ strm[s] \in StrmStates BY DEF MuxInv, Types
<1>1. strm[s].pc = "detach" /\ UNCHANGED <<client, put, del, srv, env, lost>> BY DEF DetachMember
<1>2. SameCalls BY <1>0, <1>1 DEF SameCalls, Types
<1>3. PICK a \in strm[s].todo :
        /\ rec' = Detached(rec, a)
        /\ strm' = [strm EXCEPT ![s].todo = @ \ {a},
                                ![s].pc = IF strm[s].todo = {a} THEN "gone" ELSE @]
  BY DEF DetachMember
<1>4. a \in Puts BY <1>0 DEF StrmStates
<1>5. PICK x \in {"gone", "detach"} : x = IF strm[s].todo = {a} THEN "gone" ELSE "detach" OBVIOUS
<1>6. PICK g \in StrmStates : g = [strm[s] EXCEPT !.todo = strm[s].todo \ {a}, !.pc = x]
  BY <1>0 DEF StrmStates
<1>7. /\ g.pc = x /\ g.conn = strm[s].conn /\ g.members = strm[s].members
      /\ g.todo = strm[s].todo \ {a} /\ g.wake = strm[s].wake /\ g.down = strm[s].down
      /\ g.wire = strm[s].wire /\ g.detached = strm[s].detached
  BY <1>0, <1>6 DEF StrmStates
<1>8. strm' = [strm EXCEPT ![s] = g] BY <1>0, <1>1, <1>3, <1>5, <1>6 DEF StrmStates
<1>9. /\ strm' \in [Streams -> StrmStates] /\ strm'[s] = g
      /\ \A t \in Streams : t # s => strm'[t] = strm[t]
  BY <1>0, <1>8, StreamSet
<1>10. /\ rec' \in [Records -> RecStates]
       /\ \A q \in Records : /\ rec'[q].peer = rec[q].peer /\ rec'[q].unsent = rec[q].unsent
                             /\ rec'[q].poke = rec[q].poke
                             /\ rec'[q].att = IF rec[q].att = a THEN None ELSE rec[q].att
  BY <1>0, <1>3, DetachedFact
<1>11. \A q \in Records : rec'[q].att # a /\ (rec'[q].att \in Puts => rec'[q].att = rec[q].att)
  BY <1>4, <1>10, NoneApart
<1>12. Types' BY <1>0, <1>1, <1>9, <1>10 DEF Types, client
<1>13. RecordsKept BY <1>1, <1>10, <1>11 DEF RecordsKept
<1>14. MembersKept
  <2>1. \A p \in Peers : strm[s].members[p] = None BY <1>1, StreamFacts DEF Serving
  <2> QED BY <1>7, <1>9, <2>1 DEF MembersKept, MuxInv, MemberInv
<1>15. ServingKept BY <1>1, <1>5, <1>7, <1>9 DEF ServingKept, Serving
<1>16. DetachesKept
  <2>1. \A b \in strm[s].todo : b # a => x = "detach" BY <1>5
  <2>2. ASSUME NEW t \in Streams, strm[t].pc = "detach", NEW b \in strm[t].todo
        PROVE  \/ strm'[t].pc = "detach" /\ b \in strm'[t].todo
               \/ \A r \in Records : rec'[r].att # b
    <3>1. CASE b = a BY <1>11, <3>1
    <3>2. CASE b # a /\ t = s BY <1>7, <1>9, <2>1, <2>2, <3>2
    <3>3. CASE t # s BY <1>9, <2>2, <3>3
    <3> QED BY <3>1, <3>2, <3>3
  <2> QED BY <1>1, <2>2 DEF DetachesKept
<1>17. WakesKept
  <2>1. \A t \in Streams : strm'[t].pc \in Serving => strm'[t] = strm[t]
    BY <1>5, <1>7, <1>9 DEF Serving
  <2>2. \A q \in Records : rec'[q].unsent = rec[q].unsent /\ rec'[q].poke = rec[q].poke BY <1>10
  <2> QED BY <2>1, <2>2 DEF WakesKept, Serving
<1>18. ToldKept
  <2> SUFFICES ASSUME ses.pc \in OnStream, NEW p \in Peers, Tells(strm[ses.stream], srv.muxes, p)
               PROVE  Tells(strm'[ses.stream], srv'.muxes, p)
    BY DEF ToldKept
  <2>1. PICK t \in Streams : t = ses.stream BY DEF MuxInv, SessionInv
  <2> QED BY <1>1, <1>7, <1>9, <2>1 DEF Tells
<1>19. \A t \in Streams : strm'[t].pc \in {"detach", "gone"} => strm'[t].conn # "up"
  BY <1>1, <1>7, <1>9 DEF MuxInv, ToldInv, StreamInv
<1>20. /\ UNCHANGED <<client, put>> /\ del' = del /\ LostKept
       /\ srv'.doomed # {} => srv'.muxes
  BY <1>1 DEF MuxInv, ToldInv, StreamInv, LostKept
<1> QED BY <1>2, <1>12, <1>13, <1>14, <1>15, <1>16, <1>17, <1>18, <1>19, <1>20, ServerKeeps

\* A DELETE is over: the attachment that it took was detached, or it was lost.
LEMMA LeaveEndsKeeps ==
  ASSUME MuxInv, NEW c \in Conns, LeaveDetach(c) \/ LeaveLost(c)
  PROVE  MuxInv'
<1>0. Types /\ del \in [Conns -> DelStates] BY DEF MuxInv, Types
<1>1. PICK d \in DelStates : d = [pc |-> "done", stream |-> None, att |-> None] BY DEF DelStates
<1>2. /\ UNCHANGED <<client, strm, put, srv, env, lost>> /\ del[c].pc \in {"detach", "sent"}
      /\ del' = [del EXCEPT ![c] = d]
  BY <1>1 DEF LeaveDetach, LeaveLost
<1>3. SameCalls BY <1>0, <1>2 DEF SameCalls, Types
<1>4. /\ del' \in [Conns -> DelStates] /\ del'[c] = d /\ d.pc = "done"
      /\ \A b \in Conns : b # c => del'[b] = del[b]
  BY <1>0, <1>1, <1>2
<1>5. /\ rec' \in [Records -> RecStates]
      /\ \A q \in Records : /\ rec'[q].peer = rec[q].peer /\ rec'[q].unsent = rec[q].unsent
                            /\ rec'[q].poke = rec[q].poke
                            /\ rec'[q].att = rec[q].att \/ rec'[q].att = None
      /\ del[c].pc = "detach" /\ del[c].att \in Puts => \A q \in Records : rec'[q].att # del[c].att
  <2>1. CASE LeaveDetach(c)
    <3>1. rec' = Detached(rec, del[c].att) BY <2>1 DEF LeaveDetach
    <3>2. /\ rec' \in [Records -> RecStates]
          /\ \A q \in Records :
               /\ rec'[q].peer = rec[q].peer /\ rec'[q].unsent = rec[q].unsent
               /\ rec'[q].poke = rec[q].poke
               /\ rec'[q].att = IF rec[q].att = del[c].att THEN None ELSE rec[q].att
      BY <1>0, <3>1, DetachedFact
    <3> QED BY <3>2, NoneApart
  <2>2. CASE LeaveLost(c)
    <3>1. rec' = rec /\ del[c].pc = "sent" BY <2>2 DEF LeaveLost
    <3> QED BY <1>0, <3>1 DEF Types
  <2> QED BY <2>1, <2>2
<1>6. Types' BY <1>0, <1>2, <1>4, <1>5 DEF Types, client
<1>7. RecordsKept BY <1>2, <1>5, NoneApart DEF RecordsKept
<1>8. MembersKept BY <1>2, StreamFacts DEF MembersKept
<1>9. ServingKept BY <1>2 DEF ServingKept
<1>10. DetachesKept
  <2>1. \A b \in Conns : del[b].pc = "detach" =>
          del'[b] = del[b] \/ del[b].att \notin Puts \/ \A r \in Records : rec'[r].att # del[b].att
    BY <1>4, <1>5
  <2> QED BY <1>2, <2>1 DEF DetachesKept
<1>11. WakesKept BY <1>2, <1>5 DEF WakesKept
<1>12. ToldKept BY <1>2 DEF ToldKept
<1>13. \A s \in Streams : strm'[s].pc \in {"detach", "gone"} => strm'[s].conn # "up"
  BY <1>2 DEF MuxInv, ToldInv, StreamInv
<1>14. /\ \A b \in Conns : del'[b].pc = "none" <=> del[b].pc = "none"
       /\ \A b \in Conns : del'[b].pc = "sent" => del'[b] = del[b]
  BY <1>2, <1>4
<1>15. /\ UNCHANGED <<client, put>> /\ LostKept
       /\ srv'.doomed # {} => srv'.muxes
  BY <1>2 DEF MuxInv, ToldInv, StreamInv, LostKept
<1> QED BY <1>3, <1>6, <1>7, <1>8, <1>9, <1>10, <1>11, <1>12, <1>13, <1>14, <1>15, ServerKeeps

-----------------------------------------------------------------------------
(* The steps of the requests, which leave the handlers where they are.     *)

\* A stream as a request leaves it: its handler may be woken, members may come and go.
Touched(g, h) ==
  /\ g.pc = h.pc /\ g.todo = h.todo /\ g.down = h.down /\ g.conn = h.conn /\ g.wire = h.wire
  /\ h.wake => g.wake
  /\ \A p \in Peers : p \in Range(h.detached) => p \in Range(g.detached)

\* What is entered stays so, but for a PUT of X, which is refused.
EnteredKept(X) ==
  /\ \A b \in Puts : Entered(b) /\ b \notin X =>
       /\ Entered(b)' /\ put'[b].stream = put[b].stream /\ put'[b].conn = put[b].conn
       /\ put'[b].rec = put[b].rec
  /\ \A b \in X : Entered(b) => strm[put[b].stream].pc \notin Serving

WillEnter(a) == put'[a].pc \in {"swap", "attach", "recheck"} \/ put'[a].reply = "ok"

\* A member was one before and is as late, or is a PUT that has just entered.
MembersCome ==
  \A s \in Streams, p \in Peers :
    LET a == strm'[s].members[p]
    IN  a # None => \/ a = strm[s].members[p] /\ ~put'[a].late
                    \/ /\ strm[s].pc \in Serving /\ WillEnter(a) /\ ~put'[a].late
                       /\ put'[a].stream = s /\ PeerOf(put'[a].conn) = p

\* A PUT goes on at its stream; one that is not attached and no member any more is late.
PutsGoOn ==
  \A b \in Puts :
    /\ put'[b].pc \in Going =>
         /\ put[b].pc \in Going /\ put'[b].stream = put[b].stream /\ put'[b].conn = put[b].conn
    /\ NotAttached(b)' =>
         \/ put'[b].late
         \/ strm'[put[b].stream].members[PeerOf(put[b].conn)] = b
         \/ NotAttached(b) /\ ~put[b].late
            /\ strm[put[b].stream].members[PeerOf(put[b].conn)] # b

LEMMA RequestStep ==
  ASSUME Types, ServerInv, UNCHANGED client, SameCalls, NEW X \in SUBSET Puts,
         \A s \in Streams : Touched(strm'[s], strm[s]), EnteredKept(X), MembersCome, PutsGoOn
  PROVE  MemberInv' /\ SnapshotInv' /\ EnteredInv'
<1>0. conn' = conn BY DEF client
<1>1. \A c : PeerOf(c)' = PeerOf(c) BY CallsKept
<1>2. \A s \in Streams : strm'[s].pc = strm[s].pc /\ strm'[s].todo = strm[s].todo BY DEF Touched
<1>3. MemberInv'
  <2> SUFFICES ASSUME NEW s \in Streams, NEW p \in Peers, NEW a, a = strm'[s].members[p], a # None
               PROVE  /\ strm'[s].pc \in Serving /\ WillEnter(a) /\ ~put'[a].late
                      /\ put'[a].stream = s /\ PeerOf(put'[a].conn) = p
    BY <1>1 DEF MemberInv, Entered, WillEnter, PeerOf
  <2>1. \/ a = strm[s].members[p] /\ ~put'[a].late
        \/ /\ strm[s].pc \in Serving /\ WillEnter(a) /\ ~put'[a].late
           /\ put'[a].stream = s /\ PeerOf(put'[a].conn) = p
    BY DEF MembersCome
  <2>2. CASE a = strm[s].members[p] /\ ~put'[a].late
    <3>1. strm[s].pc \in Serving /\ Entered(a) /\ put[a].stream = s /\ PeerOf(put[a].conn) = p
      BY <2>2 DEF ServerInv, MemberInv
    <3>2. a \in Puts
      <4>1. strm[s].members \in [Peers -> Puts \cup {None}] BY DEF Types, StrmStates
      <4> QED BY <2>2, <4>1
    <3>3. a \notin X BY <3>1 DEF EnteredKept
    <3>4. Entered(a)' /\ put'[a].stream = put[a].stream /\ put'[a].conn = put[a].conn
      BY <3>1, <3>2, <3>3 DEF EnteredKept
    <3>5. WillEnter(a) BY <3>4 DEF Entered, WillEnter
    <3> QED BY <1>2, <2>2, <3>1, <3>4, <3>5
  <2> QED BY <1>2, <2>1, <2>2
<1>4. SnapshotInv'
  <2> SUFFICES ASSUME NEW s \in Streams, NEW a \in strm'[s].todo
               PROVE  /\ strm'[s].pc \notin {"none", "request"}
                      /\ strm'[s].pc = "take" => Entered(a)' /\ put'[a].stream = s
    BY DEF SnapshotInv, Entered
  <2>1. /\ a \in strm[s].todo /\ strm'[s].pc = strm[s].pc /\ strm[s].pc \notin {"none", "request"}
        /\ strm[s].pc = "take" => Entered(a) /\ put[a].stream = s
    BY <1>2 DEF ServerInv, SnapshotInv
  <2>2. a \in Puts
    <3>1. strm[s].todo \in SUBSET Puts BY DEF Types, StrmStates
    <3> QED BY <2>1, <3>1
  <2>3. strm[s].pc = "take" => a \notin X BY <2>1 DEF EnteredKept, Serving
  <2> QED BY <2>1, <2>2, <2>3 DEF EnteredKept
<1>5. EnteredInv'
  <2> SUFFICES ASSUME NEW a \in Puts
               PROVE  /\ put'[a].pc \in Going => strm'[put'[a].stream].pc \notin {"none", "request"}
                      /\ NotAttached(a)' /\ strm'[put'[a].stream].pc \in Serving =>
                           \/ put'[a].late
                           \/ strm'[put'[a].stream].members[PeerOf(put'[a].conn)] = a
    BY <1>1 DEF EnteredInv, NotAttached
  <2>1. put'[a].pc \in Going =>
          /\ put[a].pc \in Going /\ put'[a].stream = put[a].stream /\ put'[a].conn = put[a].conn
    BY DEF PutsGoOn
  <2>2. put[a].pc \in Going => /\ put[a].stream \in Streams
                               /\ strm[put[a].stream].pc \notin {"none", "request"}
    BY DEF ServerInv, PutInv, EnteredInv, Going, Entered
  <2>3. NotAttached(a)' => put'[a].pc \in Going BY DEF NotAttached, Going
  <2>4. ASSUME NotAttached(a)', strm'[put'[a].stream].pc \in Serving, ~put'[a].late
        PROVE  strm'[put'[a].stream].members[PeerOf(put'[a].conn)] = a
    <3>1. put'[a].stream = put[a].stream /\ put'[a].conn = put[a].conn /\ put[a].stream \in Streams
      BY <2>1, <2>2, <2>3, <2>4
    <3>2. strm[put[a].stream].pc \in Serving BY <1>2, <2>4, <3>1
    <3>3. ~(NotAttached(a) /\ ~put[a].late
            /\ strm[put[a].stream].members[PeerOf(put[a].conn)] # a)
      BY <3>2 DEF ServerInv, EnteredInv
    <3> QED BY <2>4, <3>1, <3>3 DEF PutsGoOn
  <2> QED BY <1>2, <2>1, <2>2, <2>4
<1> QED BY <1>3, <1>4, <1>5

\* The whole invariant, from the server's side of it.
LEMMA RequestKeeps ==
  ASSUME MuxInv, Types', ServerInv', UNCHANGED client, SameCalls, SameRequests,
         \A s \in Streams : Touched(strm'[s], strm[s]),
         srv'.muxes = srv.muxes, srv'.doomed = srv.doomed, LostKept,
         \A s \in Streams, p \in Peers : strm[s].members[p] # None =>
           \/ strm'[s].members[p] # None \/ p \in Range(strm'[s].detached)
           \/ reg[p] = None \/ <<p, s>> \in lost',
         \A a \in Puts : put'[a].pc \in Going \/ Entered(a)' =>
           (put[a].pc \in Going \/ Entered(a)) /\ put'[a].stream = put[a].stream,
         \A a \in Puts : Entered(a)' =>
           Entered(a) \/ strm'[put[a].stream].members[PeerOf(put[a].conn)] # None
  PROVE  MuxInv'
<1>1. ClientInv' BY ClientFrame DEF MuxInv, ClientInv
<1>2. StreamsGoOn BY DEF StreamsGoOn, Touched, MuxInv, ToldInv, StreamInv
<1>3. srv'.doomed # {} => srv'.muxes BY DEF MuxInv, ToldInv, StreamInv
<1>4. StreamInv' BY <1>2, <1>3, StreamFrame DEF MuxInv, ToldInv
<1>5. ToldKept
  <2> SUFFICES ASSUME ses.pc \in OnStream, NEW p \in Peers, Tells(strm[ses.stream], srv.muxes, p),
                      reg[p] # None, <<p, ses.stream>> \notin lost'
               PROVE  Tells(strm'[ses.stream], srv'.muxes, p)
    BY DEF ToldKept
  <2>1. PICK s \in Streams : s = ses.stream BY DEF MuxInv, SessionInv
  <2>2. Touched(strm'[s], strm[s]) OBVIOUS
  <2>3. strm[s].members[p] # None => strm'[s].members[p] # None \/ p \in Range(strm'[s].detached)
    BY <2>1
  <2> QED BY <2>1, <2>2, <2>3 DEF Tells, Touched
<1>6. \A a \in Puts : ses.pc = "put" /\ a = ses.put /\ Entered(a)' =>
        Entered(a) \/ Tells(strm'[ses.stream], srv'.muxes, PeerOf(put[a].conn))
  <2> SUFFICES ASSUME NEW a \in Puts, ses.pc = "put", a = ses.put, Entered(a)', ~Entered(a)
               PROVE  Tells(strm'[ses.stream], srv'.muxes, PeerOf(put[a].conn))
    OBVIOUS
  <2>1. put[a].pc \in Going OBVIOUS
  <2>2. put[a].stream = ses.stream BY <2>1 DEF MuxInv, ToldInv, StreamInv
  <2>3. strm'[put[a].stream].members[PeerOf(put[a].conn)] # None OBVIOUS
  <2> QED BY <2>2, <2>3 DEF Tells
<1>7. ToldInv' BY <1>4, <1>5, <1>6, ToldByServer DEF MuxInv, ClientInv
<1> QED BY <1>1, <1>7 DEF MuxInv, ServerInv, ClientInv

\* The outcome of a step of PUT a that does not make it a member: it is admitted, at a
\* record that may be new, or refused.
AdmittedOrRefused(a) ==
  /\ put' \in [Puts -> PutStates] /\ \A b \in Puts : b # a => put'[b] = put[b]
  /\ put'[a].conn = put[a].conn /\ put'[a].reply # "ok" /\ ~put'[a].late
  /\ \/ put'[a].pc = "done"
     \/ /\ put'[a].pc = "insert" /\ put'[a].stream = put[a].stream
        /\ put'[a].rec \in Records /\ rec'[put'[a].rec].peer = PeerOf(put[a].conn)

RecordsAdmit ==
  /\ rec' \in [Records -> RecStates] /\ srv' \in SrvStates
  /\ \A r \in Records : /\ rec'[r].att = rec[r].att /\ rec'[r].unsent = rec[r].unsent
                        /\ rec'[r].poke = rec[r].poke
                        /\ rec[r].peer # None => rec'[r].peer = rec[r].peer
  /\ \A p \in Peers : srv'.peers[p] # None => rec'[srv'.peers[p]].peer = p
  /\ srv'.muxes = srv.muxes /\ srv'.doomed = srv.doomed

LEMMA AdmitKeeps ==
  ASSUME MuxInv, NEW a \in Puts, put[a].pc \in {"request", "insert"},
         AdmittedOrRefused(a), RecordsAdmit, UNCHANGED <<client, strm, del, lost>>, SameCalls
  PROVE  MuxInv'
<1>0. Types /\ ServerInv /\ PutInv BY DEF MuxInv, ServerInv
<1>1. conn' = conn /\ strm' = strm /\ del' = del /\ lost' = lost BY DEF client
<1>2. \A c : PeerOf(c)' = PeerOf(c) BY <1>0, CallsKept
<1>3. \A b \in Puts : b # a => put'[b] = put[b] BY DEF AdmittedOrRefused
<1>4. /\ ~Entered(a) /\ ~NotAttached(a) /\ put[a].conn \in Opened /\ put[a].stream \in Streams
      /\ put[a].pc # "none" /\ put[a].pc \in Going
  BY <1>0 DEF PutInv, Entered, NotAttached, Going
<1>5. ~Entered(a)' /\ ~NotAttached(a)' BY DEF AdmittedOrRefused, Entered, NotAttached
<1>6. \A b \in Puts : (Entered(b)' <=> Entered(b)) /\ (NotAttached(b)' <=> NotAttached(b))
  BY <1>3, <1>4, <1>5 DEF Entered, NotAttached
<1>7. Types' BY <1>0, <1>1, CallsKept DEF Types, client, AdmittedOrRefused, RecordsAdmit
<1>8. \A b \in Puts : Entered(b) => b # a /\ put'[b] = put[b] BY <1>3, <1>4
<1>9. PutInv'
  <2>1. Opened' = Opened BY <1>1 DEF Opened, SameCalls
  <2>2. ASSUME NEW b \in Puts, b # a
        PROVE  /\ put'[b].pc # "none" => put'[b].conn \in Opened
               /\ put'[b].reply = "ok" => put'[b].pc = "done"
               /\ put'[b].pc = "request" \/ put'[b].pc = "insert" \/ Entered(b) => put'[b].stream \in Streams
               /\ put'[b].pc = "insert" \/ Entered(b) =>
                    /\ put'[b].rec \in Records
                    /\ rec'[put'[b].rec].peer = PeerOf(put'[b].conn)
               /\ put'[b].pc = "swap" => put'[b].prev \in Puts
               /\ put'[b].late => Entered(b)
    <3>1. put'[b] = put[b] BY <1>3, <2>2
    <3>2. put[b].pc = "insert" \/ Entered(b) => rec'[put[b].rec].peer = PeerOf(put[b].conn)
      <4> SUFFICES ASSUME put[b].pc = "insert" \/ Entered(b)
                   PROVE  rec'[put[b].rec].peer = PeerOf(put[b].conn)
        OBVIOUS
      <4>1. /\ put[b].rec \in Records /\ rec[put[b].rec].peer = PeerOf(put[b].conn)
            /\ put[b].conn \in Opened
        <5>1. put[b].pc # "none" BY <1>0 DEF PutInv, Entered
        <5> QED BY <1>0, <5>1 DEF PutInv
      <4>2. PeerOf(put[b].conn) \in Peers BY <1>0, <4>1, PeerOfOpened
      <4> QED BY <4>1, <4>2, NoneApart DEF RecordsAdmit
    <3> QED BY <1>0, <3>1, <3>2 DEF PutInv
  <2>3. /\ put'[a].conn \in Opened /\ put'[a].reply # "ok" /\ put'[a].pc \in {"done", "insert"}
        /\ put'[a].pc = "insert" =>
             /\ put'[a].stream \in Streams /\ put'[a].rec \in Records
             /\ rec'[put'[a].rec].peer = PeerOf(put'[a].conn)
        /\ ~put'[a].late
    BY <1>4 DEF AdmittedOrRefused
  <2>4. \A b \in Puts :
          /\ put'[b].pc # "none" => put'[b].conn \in Opened
          /\ put'[b].reply = "ok" => put'[b].pc = "done"
          /\ put'[b].pc = "request" \/ put'[b].pc = "insert" \/ Entered(b) => put'[b].stream \in Streams
          /\ put'[b].pc = "insert" \/ Entered(b) =>
               /\ put'[b].rec \in Records
               /\ rec'[put'[b].rec].peer = PeerOf(put'[b].conn)
          /\ put'[b].pc = "swap" => put'[b].prev \in Puts
          /\ put'[b].late => Entered(b)
    BY <1>4, <2>2, <2>3
  <2> QED BY <1>2, <1>6, <2>1, <2>4 DEF PutInv, PeerOf
<1>10. RecordInv'
  <2>1. ASSUME NEW r \in Records, NEW b \in Puts, b = rec'[r].att
        PROVE  Entered(b)' /\ ~NotAttached(b)' /\ put'[b].rec = r
    <3>1. b = rec[r].att BY <2>1 DEF RecordsAdmit
    <3>2. Entered(b) /\ ~NotAttached(b) /\ put[b].rec = r BY <3>1 DEF MuxInv, RecordInv
    <3> QED BY <1>6, <1>8, <3>2
  <2>2. \A p \in Peers : srv'.peers[p] # None => rec'[srv'.peers[p]].peer = p BY DEF RecordsAdmit
  <2> QED BY <2>1, <2>2 DEF RecordInv, Entered, NotAttached
<1>11. /\ \A s \in Streams : Touched(strm'[s], strm[s])
       /\ EnteredKept({}) /\ MembersCome /\ PutsGoOn
  <2>1. \A s \in Streams : Touched(strm'[s], strm[s]) BY <1>1 DEF Touched
  <2>2. EnteredKept({}) BY <1>6, <1>8 DEF EnteredKept
  <2>3. MembersCome
    <3> SUFFICES ASSUME NEW s \in Streams, NEW p \in Peers, strm[s].members[p] # None
                 PROVE  ~put'[strm[s].members[p]].late
      BY <1>1 DEF MembersCome
    <3>1. strm[s].members[p] \in Puts
      <4>1. strm[s].members \in [Peers -> Puts \cup {None}] BY <1>0 DEF Types, StrmStates
      <4> QED BY <4>1
    <3>2. Entered(strm[s].members[p]) /\ ~put[strm[s].members[p]].late BY DEF MuxInv, MemberInv
    <3> QED BY <1>8, <3>1, <3>2
  <2>4. PutsGoOn
    <3> SUFFICES ASSUME NEW b \in Puts
                 PROVE  /\ put'[b].pc \in Going =>
                             /\ put[b].pc \in Going /\ put'[b].stream = put[b].stream
                             /\ put'[b].conn = put[b].conn
                        /\ NotAttached(b)' =>
                             \/ put'[b].late
                             \/ strm'[put[b].stream].members[PeerOf(put[b].conn)] = b
                             \/ NotAttached(b) /\ ~put[b].late
                                /\ strm[put[b].stream].members[PeerOf(put[b].conn)] # b
      BY DEF PutsGoOn
    <3>1. CASE b = a BY <1>4, <1>5, <3>1 DEF AdmittedOrRefused, Going
    <3>2. CASE b # a BY <1>1, <1>3, <1>6, <3>2
    <3> QED BY <3>1, <3>2
  <2> QED BY <2>1, <2>2, <2>3, <2>4
<1>12. MemberInv' /\ SnapshotInv' /\ EnteredInv'
  <2>1. {} \in SUBSET Puts /\ UNCHANGED client OBVIOUS
  <2> QED BY <1>0, <1>11, <2>1, RequestStep
<1>13. AttachmentOwned'
  <2> SUFFICES ASSUME NEW r \in Records, NEW b \in Puts, b = rec'[r].att
               PROVE  \/ strm'[put'[b].stream].members[rec'[r].peer] = b
                      \/ strm'[put'[b].stream].pc = "detach" /\ b \in strm'[put'[b].stream].todo
                      \/ strm'[put'[b].stream].pc \notin Serving /\ put'[b].pc = "recheck"
                      \/ \E c \in Conns : del'[c].pc = "detach" /\ del'[c].att = b
                      \/ \E x \in Puts : NotAttached(x)' /\ put'[x].rec = r
                      \/ \E x \in Puts : put'[x].pc = "swap" /\ put'[x].prev = b
                      \/ put'[b].late
    BY DEF AttachmentOwned, Owned, NotAttached
  <2>1. rec[r].att = b BY DEF RecordsAdmit
  <2>2. Entered(b) /\ rec[r].peer \in Peers BY <1>0, <2>1, AttachedFact DEF ServerInv
  <2>3. put'[b] = put[b] /\ rec'[r].peer = rec[r].peer BY <1>8, <2>2, NoneApart DEF RecordsAdmit
  <2>4. \/ strm[put[b].stream].members[rec[r].peer] = b
        \/ strm[put[b].stream].pc = "detach" /\ b \in strm[put[b].stream].todo
        \/ strm[put[b].stream].pc \notin Serving /\ put[b].pc = "recheck"
        \/ \E c \in Conns : del[c].pc = "detach" /\ del[c].att = b
        \/ \E x \in Puts : NotAttached(x) /\ put[x].rec = r
        \/ \E x \in Puts : put[x].pc = "swap" /\ put[x].prev = b
        \/ put[b].late
    BY <2>1 DEF MuxInv, AttachmentOwned, Owned
  <2>5. \A x \in Puts : NotAttached(x) => x # a /\ put'[x] = put[x] BY <1>3, <1>4
  <2>6. \A x \in Puts : put[x].pc = "swap" => x # a /\ put'[x] = put[x] BY <1>3
  <2> QED BY <1>1, <1>6, <2>3, <2>4, <2>5, <2>6
<1>14. MemberWoken'
  <2> SUFFICES ASSUME NEW r \in Records, NEW b \in Puts, b = rec'[r].att, rec'[r].unsent,
                      strm'[put'[b].stream].pc \in Serving,
                      strm'[put'[b].stream].members[rec'[r].peer] = b
               PROVE  \/ strm'[put'[b].stream].wake
                      \/ strm'[put'[b].stream].pc = "take" /\ b \in strm'[put'[b].stream].todo
                      \/ put'[b].pc = "recheck" \/ rec'[r].poke = b
    BY DEF MemberWoken
  <2>1. rec[r].att = b /\ rec[r].unsent /\ rec'[r].poke = rec[r].poke BY DEF RecordsAdmit
  <2>2. Entered(b) /\ rec[r].peer \in Peers BY <1>0, <2>1, AttachedFact DEF ServerInv
  <2>3. put'[b] = put[b] /\ rec'[r].peer = rec[r].peer BY <1>8, <2>2, NoneApart DEF RecordsAdmit
  <2> QED BY <1>1, <2>1, <2>3 DEF MuxInv, MemberWoken
<1>15. ServerInv' BY <1>9, <1>10, <1>12, <1>13, <1>14 DEF ServerInv
<1>16. SameRequests
  <2>1. put'[a].pc # "none" /\ put'[a].conn = put[a].conn BY DEF AdmittedOrRefused
  <2> QED BY <1>1, <1>3, <2>1 DEF SameRequests
<1>17. /\ \A s \in Streams, p \in Peers : strm[s].members[p] # None =>
            \/ strm'[s].members[p] # None \/ p \in Range(strm'[s].detached)
            \/ reg[p] = None \/ <<p, s>> \in lost'
       /\ \A b \in Puts : put'[b].pc \in Going \/ Entered(b)' =>
            (put[b].pc \in Going \/ Entered(b)) /\ put'[b].stream = put[b].stream
       /\ \A b \in Puts : Entered(b)' =>
            Entered(b) \/ strm'[put[b].stream].members[PeerOf(put[b].conn)] # None
  BY <1>1, <1>6, <1>8, <1>11 DEF PutsGoOn
<1>18. UNCHANGED client /\ LostKept /\ srv'.muxes = srv.muxes /\ srv'.doomed = srv.doomed
  BY <1>1 DEF LostKept, RecordsAdmit
<1> QED BY <1>7, <1>11, <1>15, <1>16, <1>17, <1>18, RequestKeeps

LEMMA RefusedIsOutcome ==
  ASSUME MuxInv, NEW a \in Puts, NEW how \in {"gone", "denied", "error"}, put' = Replies(a, how)
  PROVE  AdmittedOrRefused(a)
<1>1. /\ put' \in [Puts -> PutStates] /\ \A b \in Puts : b # a => put'[b] = put[b]
      /\ put'[a].pc = "done" /\ put'[a].conn = put[a].conn /\ put'[a].reply = how /\ ~put'[a].late
  BY RepliesFact DEF MuxInv
<1> QED BY <1>1 DEF AdmittedOrRefused

LEMMA RecordsSameAdmit == ASSUME MuxInv, UNCHANGED <<rec, srv>> PROVE RecordsAdmit
  BY DEF RecordsAdmit, MuxInv, Types, RecordInv

LEMMA LookupKeeps == ASSUME MuxInv, NEW a \in Puts, Lookup(a) PROVE MuxInv'
<1>0. Types /\ PutInv /\ put \in [Puts -> PutStates] /\ put[a] \in PutStates
      /\ rec \in [Records -> RecStates] /\ srv \in SrvStates
  BY DEF MuxInv, Types
<1>1. put[a].pc = "request" /\ UNCHANGED <<client, strm, del, lost>> BY DEF Lookup
<1>2. put[a].conn \in Opened /\ put[a].reply # "ok" /\ ~put[a].late
  BY <1>0, <1>1 DEF PutInv, Entered
<1>3. PICK p \in Peers : p = PeerOf(put[a].conn) BY <1>0, <1>2, PeerOfOpened
<1>4. ASSUME NEW how \in {"gone", "denied", "error"}, put' = Replies(a, how), UNCHANGED <<rec, srv>>,
             SameCalls
      PROVE  MuxInv'
  BY <1>1, <1>4, RefusedIsOutcome, RecordsSameAdmit, AdmitKeeps
<1>5. ASSUME NEW r \in Records, put' = [put EXCEPT ![a].pc = "insert", ![a].rec = r], SameCalls,
             RecordsAdmit, rec'[r].peer = p
      PROVE  MuxInv'
  <2>1. PICK q \in PutStates : q = [put[a] EXCEPT !.pc = "insert", !.rec = r] BY <1>0 DEF PutStates
  <2>2. /\ q.pc = "insert" /\ q.rec = r /\ q.conn = put[a].conn /\ q.stream = put[a].stream
        /\ q.reply = put[a].reply /\ q.late = put[a].late
    BY <1>0, <2>1 DEF PutStates
  <2>3. put' = [put EXCEPT ![a] = q] BY <1>0, <1>5, <2>1
  <2>4. put' \in [Puts -> PutStates] /\ put'[a] = q /\ \A b \in Puts : b # a => put'[b] = put[b]
    BY <1>0, <2>3
  <2>5. AdmittedOrRefused(a) BY <1>2, <1>3, <1>5, <2>2, <2>4 DEF AdmittedOrRefused
  <2> QED BY <1>1, <1>5, <2>5, AdmitKeeps
<1>6. UNCHANGED env => SameCalls BY <1>0 DEF SameCalls, Types
<1>7. Happens("deny") => SameCalls BY <1>0, HappensKeepsCalls DEF Kinds
<1>8. ASSUME put' = [put EXCEPT ![a].pc = "insert", ![a].rec = srv.peers[p]],
             srv.peers[p] # None, UNCHANGED <<rec, srv, env>>
      PROVE  MuxInv'
  <2>1. PICK r \in Records : r = srv.peers[p] BY <1>0, <1>8 DEF SrvStates
  <2>2. rec'[r].peer = p BY <1>8, <2>1 DEF MuxInv, RecordInv
  <2> QED BY <1>5, <1>6, <1>8, <2>1, <2>2, RecordsSameAdmit
<1>9. ASSUME NEW r \in Records, rec[r].peer = None, rec' = [rec EXCEPT ![r].peer = p],
             srv' = [srv EXCEPT !.peers[p] = r], UNCHANGED env,
             put' = [put EXCEPT ![a].pc = "insert", ![a].rec = r]
      PROVE  MuxInv'
  <2>1. PICK x \in RecStates : x = [rec[r] EXCEPT !.peer = p] BY <1>0 DEF RecStates
  <2>2. x.peer = p /\ x.att = rec[r].att /\ x.unsent = rec[r].unsent /\ x.poke = rec[r].poke
    BY <1>0, <2>1 DEF RecStates
  <2>3. rec' = [rec EXCEPT ![r] = x] BY <1>0, <1>9, <2>1
  <2>4. rec' \in [Records -> RecStates] /\ rec'[r] = x /\ \A q \in Records : q # r => rec'[q] = rec[q]
    BY <1>0, <2>3, RecordSet
  <2>5. srv.peers \in [Peers -> Records \cup {None}] BY <1>0 DEF SrvStates
  <2>6. PICK ps \in [Peers -> Records \cup {None}] : ps = [srv.peers EXCEPT ![p] = r] BY <2>5
  <2>7. srv' = [srv EXCEPT !.peers = ps] BY <1>0, <1>9, <2>6 DEF SrvStates
  <2>8. srv' \in SrvStates /\ srv'.peers = ps /\ srv'.muxes = srv.muxes /\ srv'.doomed = srv.doomed
    BY <1>0, <2>7 DEF SrvStates
  <2>9. ASSUME NEW q \in Peers, srv'.peers[q] # None PROVE rec'[srv'.peers[q]].peer = q
    <3>1. CASE q = p BY <2>2, <2>4, <2>5, <2>6, <2>8, <3>1
    <3>2. CASE q # p
      <4>1. srv'.peers[q] = srv.peers[q] BY <2>5, <2>6, <2>8, <3>2
      <4>2. srv.peers[q] \in Records /\ rec[srv.peers[q]].peer = q
        BY <2>5, <2>9, <4>1 DEF MuxInv, RecordInv
      <4>3. srv.peers[q] # r BY <1>9, <4>2, NoneApart
      <4> QED BY <2>4, <4>1, <4>2, <4>3
    <3> QED BY <3>1, <3>2
  <2>10. RecordsAdmit BY <1>9, <2>2, <2>4, <2>8, <2>9 DEF RecordsAdmit
  <2> QED BY <1>5, <1>6, <1>9, <2>2, <2>4, <2>10
<1>10. \/ \E how \in {"gone", "denied", "error"} :
            put' = Replies(a, how) /\ UNCHANGED <<rec, srv>> /\ (UNCHANGED env \/ Happens("deny"))
       \/ /\ srv.peers[p] # None /\ UNCHANGED <<rec, srv, env>>
          /\ put' = [put EXCEPT ![a].pc = "insert", ![a].rec = srv.peers[p]]
       \/ \E r \in Records :
            /\ rec[r].peer = None /\ rec' = [rec EXCEPT ![r].peer = p]
            /\ srv' = [srv EXCEPT !.peers[p] = r] /\ UNCHANGED env
            /\ put' = [put EXCEPT ![a].pc = "insert", ![a].rec = r]
  BY <1>3 DEF Lookup
<1> QED BY <1>4, <1>6, <1>7, <1>8, <1>9, <1>10

\* The parts of a PUT that an overwriting does not touch.
SamePut(g, h) ==
  /\ g.pc = h.pc /\ g.conn = h.conn /\ g.stream = h.stream /\ g.rec = h.rec
  /\ g.prev = h.prev /\ g.reply = h.reply

LEMMA InsertKeeps == ASSUME MuxInv, NEW a \in Puts, Insert(a) PROVE MuxInv'
<1>0. Types /\ ServerInv /\ PutInv /\ put \in [Puts -> PutStates] /\ put[a] \in PutStates
      /\ strm \in [Streams -> StrmStates]
  BY DEF MuxInv, ServerInv, Types
<1>1. put[a].pc = "insert" /\ UNCHANGED <<client, del, rec, srv, env>> BY DEF Insert
<1>2. SameCalls BY <1>0, <1>1 DEF SameCalls, Types
<1>3. /\ put[a].conn \in Opened /\ put[a].reply # "ok" /\ ~put[a].late /\ put[a].stream \in Streams
      /\ put[a].rec \in Records /\ rec[put[a].rec].peer = PeerOf(put[a].conn)
      /\ ~Entered(a) /\ ~NotAttached(a)
  BY <1>0, <1>1 DEF PutInv, Entered, NotAttached
<1>4. PICK p \in Peers : p = PeerOf(put[a].conn) BY <1>0, <1>3, PeerOfOpened
<1>5. PICK s \in Streams : s = put[a].stream BY <1>3
<1>6. PICK prev \in Puts \cup {None} : prev = strm[s].members[p]
  <2>1. strm[s].members \in [Peers -> Puts \cup {None}] BY <1>0 DEF StrmStates
  <2> QED BY <2>1
<1>7. CASE put' = Replies(a, "gone") /\ strm' = strm /\ lost' = lost
  BY <1>1, <1>2, <1>7, RefusedIsOutcome, RecordsSameAdmit, AdmitKeeps
<1>8. ASSUME strm[s].pc \in Serving, strm' = [strm EXCEPT ![s].members[p] = a],
             put' = [b \in Puts |->
                       IF b = a
                       THEN IF prev # None /\ put[prev].rec # put[a].rec
                            THEN [put[a] EXCEPT !.pc = "swap", !.prev = prev]
                            ELSE [put[a] EXCEPT !.pc = "attach"]
                       ELSE IF b = prev THEN [put[b] EXCEPT !.late = NotAttached(b)]
                       ELSE put[b]],
             lost' = lost \ {<<p, s>>}
      PROVE  MuxInv'
  <2>1. prev # None => Entered(prev) /\ ~put[prev].late /\ prev # a /\ prev \in Puts
    BY <1>3, <1>6 DEF MuxInv, MemberInv
  <2>2. /\ put'[a] \in PutStates /\ put'[a].conn = put[a].conn /\ put'[a].stream = s
        /\ put'[a].rec = put[a].rec /\ ~put'[a].late /\ put'[a].reply # "ok"
        /\ \/ put'[a].pc = "swap" /\ prev # None /\ put'[a].prev = prev
           \/ put'[a].pc = "attach" /\ (prev = None \/ put[prev].rec = put[a].rec)
    <3>1. CASE prev # None /\ put[prev].rec # put[a].rec
      <4>1. put'[a] = [put[a] EXCEPT !.pc = "swap", !.prev = prev] BY <1>8, <3>1
      <4> QED BY <1>0, <1>3, <1>5, <3>1, <4>1 DEF PutStates
    <3>2. CASE ~(prev # None /\ put[prev].rec # put[a].rec)
      <4>1. put'[a] = [put[a] EXCEPT !.pc = "attach"] BY <1>8, <3>2
      <4> QED BY <1>0, <1>3, <1>5, <3>2, <4>1 DEF PutStates
    <3> QED BY <3>1, <3>2
  <2>3. ASSUME NEW b \in Puts, b # a
        PROVE  /\ put'[b] \in PutStates /\ SamePut(put'[b], put[b])
               /\ b # prev => put'[b] = put[b]
               /\ b = prev => put'[b].late = NotAttached(b)
    <3>1. put[b] \in PutStates BY <1>0
    <3>2. CASE b = prev
      <4>1. put'[b] = [put[b] EXCEPT !.late = NotAttached(b)] BY <1>8, <2>3, <3>2
      <4>2. NotAttached(b) \in BOOLEAN BY DEF NotAttached
      <4> QED BY <3>1, <3>2, <4>1, <4>2 DEF PutStates, SamePut
    <3>3. CASE b # prev
      <4>1. put'[b] = put[b] BY <1>8, <2>3, <3>3
      <4> QED BY <3>1, <3>3, <4>1 DEF SamePut
    <3> QED BY <3>2, <3>3
  <2>4. put' \in [Puts -> PutStates]
    <3>1. put' = [b \in Puts |-> put'[b]] BY <1>8
    <3> QED BY <2>2, <2>3, <3>1
  <2>5. /\ strm' \in [Streams -> StrmStates] /\ \A t \in Streams : t # s => strm'[t] = strm[t]
        /\ \A q \in Peers : strm'[s].members[q] = IF q = p THEN a ELSE strm[s].members[q]
        /\ strm'[s].pc = strm[s].pc /\ strm'[s].todo = strm[s].todo /\ strm'[s].down = strm[s].down
        /\ strm'[s].conn = strm[s].conn /\ strm'[s].wire = strm[s].wire
        /\ strm'[s].wake = strm[s].wake /\ strm'[s].detached = strm[s].detached
    <3>1. strm[s] \in StrmStates /\ strm[s].members \in [Peers -> Puts \cup {None}]
      BY <1>0 DEF StrmStates
    <3>2. PICK ms \in [Peers -> Puts \cup {None}] : ms = [strm[s].members EXCEPT ![p] = a] BY <3>1
    <3>3. PICK g \in StrmStates : g = [strm[s] EXCEPT !.members = ms] BY <3>1 DEF StrmStates
    <3>4. /\ g.pc = strm[s].pc /\ g.todo = strm[s].todo /\ g.down = strm[s].down
          /\ g.conn = strm[s].conn /\ g.wire = strm[s].wire
          /\ g.wake = strm[s].wake /\ g.detached = strm[s].detached /\ g.members = ms
      BY <3>1, <3>3 DEF StrmStates
    <3>5. strm' = [strm EXCEPT ![s] = g] BY <1>0, <1>8, <3>1, <3>2, <3>3 DEF StrmStates
    <3>6. /\ strm' \in [Streams -> StrmStates] /\ strm'[s] = g
          /\ \A t \in Streams : t # s => strm'[t] = strm[t]
      BY <1>0, <3>5, StreamSet
    <3> QED BY <3>1, <3>2, <3>4, <3>6
  <2>6. Types'
    <3>1. lost' \subseteq Peers \X Streams BY <1>0, <1>8 DEF Types
    <3> QED BY <1>0, <1>1, <2>4, <2>5, <3>1 DEF Types, client
  <2>7. \A c : PeerOf(c)' = PeerOf(c) BY <1>0, <1>2, CallsKept
  <2>8. \A b \in Puts : b # a => (Entered(b)' <=> Entered(b)) /\ (NotAttached(b)' <=> NotAttached(b))
    BY <2>3 DEF Entered, NotAttached, SamePut
  <2>9. Entered(a)' /\ NotAttached(a)' BY <2>2 DEF Entered, NotAttached
  <2>10. PutInv'
    <3>1. Opened' = Opened BY <1>1, <1>2 DEF Opened, SameCalls, client
    <3>2. ASSUME NEW b \in Puts, b # a, put'[b].late PROVE Entered(b)
      <4>1. CASE b = prev BY <2>1, <4>1, NoneApart
      <4>2. CASE b # prev BY <1>0, <2>3, <3>2, <4>2 DEF PutInv
      <4> QED BY <4>1, <4>2
    <3>3. ASSUME NEW b \in Puts
          PROVE  /\ put'[b].pc # "none" => put'[b].conn \in Opened
                 /\ put'[b].reply = "ok" => put'[b].pc = "done"
                 /\ put'[b].pc = "request" \/ put'[b].pc = "insert" \/ Entered(b)' =>
                      put'[b].stream \in Streams
                 /\ put'[b].pc = "insert" \/ Entered(b)' =>
                      /\ put'[b].rec \in Records
                      /\ rec[put'[b].rec].peer = PeerOf(put'[b].conn)
                 /\ put'[b].pc = "swap" => put'[b].prev \in Puts
                 /\ put'[b].late => Entered(b)'
      <4>1. CASE b = a BY <1>3, <2>1, <2>2, <2>9, <4>1
      <4>2. CASE b # a BY <1>0, <2>3, <2>8, <3>2, <4>2 DEF PutInv, SamePut
      <4> QED BY <4>1, <4>2
    <3> QED BY <1>1, <2>7, <3>1, <3>3 DEF PutInv, PeerOf
  <2>11. RecordInv'
    <3>1. ASSUME NEW r \in Records, NEW b \in Puts, b = rec[r].att
          PROVE  Entered(b)' /\ ~NotAttached(b)' /\ put'[b].rec = r
      <4>1. Entered(b) /\ ~NotAttached(b) /\ put[b].rec = r BY <3>1 DEF MuxInv, RecordInv
      <4>2. b # a BY <1>3, <4>1
      <4> QED BY <2>3, <2>8, <4>1, <4>2 DEF SamePut
    <3>2. \A q \in Peers : srv.peers[q] # None => rec[srv.peers[q]].peer = q BY DEF MuxInv, RecordInv
    <3> QED BY <1>1, <3>1, <3>2 DEF RecordInv, Entered, NotAttached
  <2>12. \A t \in Streams : Touched(strm'[t], strm[t]) BY <2>5 DEF Touched
  <2>13. EnteredKept({})
    <3>1. ASSUME NEW b \in Puts, Entered(b)
          PROVE  /\ Entered(b)' /\ put'[b].stream = put[b].stream /\ put'[b].conn = put[b].conn
                 /\ put'[b].rec = put[b].rec
      BY <1>3, <2>3, <2>8, <3>1 DEF SamePut
    <3> QED BY <3>1 DEF EnteredKept
  <2>14. MembersCome
    <3> SUFFICES ASSUME NEW t \in Streams, NEW q \in Peers, NEW b, b = strm'[t].members[q], b # None
                 PROVE  \/ b = strm[t].members[q] /\ ~put'[b].late
                        \/ /\ strm[t].pc \in Serving /\ WillEnter(b) /\ ~put'[b].late
                           /\ put'[b].stream = t /\ PeerOf(put'[b].conn) = q
      BY DEF MembersCome
    <3>1. CASE t = s /\ q = p
      <4>1. b = a BY <2>5, <3>1
      <4>2. WillEnter(a) BY <2>2 DEF WillEnter
      <4> QED BY <1>4, <1>8, <2>2, <3>1, <4>1, <4>2
    <3>2. CASE ~(t = s /\ q = p)
      <4>1. b = strm[t].members[q] BY <2>5, <3>2
      <4>2. Entered(b) /\ ~put[b].late /\ put[b].stream = t /\ PeerOf(put[b].conn) = q
        BY <4>1 DEF MuxInv, MemberInv
      <4>3. b \in Puts
        <5>1. strm[t].members \in [Peers -> Puts \cup {None}] BY <1>0 DEF StrmStates
        <5> QED BY <4>1, <5>1
      <4>4. b # prev
        <5>1. prev # None => put[prev].stream = s /\ PeerOf(put[prev].conn) = p
          BY <1>6 DEF MuxInv, MemberInv
        <5> QED BY <3>2, <4>2, <5>1
      <4> QED BY <1>3, <2>3, <4>1, <4>2, <4>3, <4>4
    <3> QED BY <3>1, <3>2
  <2>15. PutsGoOn
    <3> SUFFICES ASSUME NEW b \in Puts
                 PROVE  /\ put'[b].pc \in Going =>
                             /\ put[b].pc \in Going /\ put'[b].stream = put[b].stream
                             /\ put'[b].conn = put[b].conn
                        /\ NotAttached(b)' =>
                             \/ put'[b].late
                             \/ strm'[put[b].stream].members[PeerOf(put[b].conn)] = b
                             \/ NotAttached(b) /\ ~put[b].late
                                /\ strm[put[b].stream].members[PeerOf(put[b].conn)] # b
      BY DEF PutsGoOn
    <3>1. CASE b = a
      <4>1. strm'[put[a].stream].members[PeerOf(put[a].conn)] = a BY <1>4, <1>5, <2>5
      <4> QED BY <1>1, <1>5, <2>2, <3>1, <4>1 DEF Going
    <3>2. CASE b = prev /\ b # a
      <4>1. NotAttached(b)' => put'[b].late BY <2>3, <2>8, <3>2
      <4> QED BY <2>3, <3>2, <4>1 DEF SamePut
    <3>3. CASE b # prev /\ b # a
      <4>1. put'[b] = put[b] BY <2>3, <3>3
      <4>2. ASSUME NotAttached(b)', ~put[b].late,
                   strm[put[b].stream].members[PeerOf(put[b].conn)] = b
            PROVE  strm'[put[b].stream].members[PeerOf(put[b].conn)] = b
        <5>1. NotAttached(b) /\ Entered(b) BY <2>8, <3>3, <4>2 DEF NotAttached, Entered
        <5>2. put[b].stream \in Streams /\ PeerOf(put[b].conn) \in Peers
          BY <1>0, <5>1, EnteredFact, PeerOfOpened
        <5>3. ~(put[b].stream = s /\ PeerOf(put[b].conn) = p) BY <1>6, <3>3, <4>2
        <5> QED BY <2>5, <4>2, <5>2, <5>3
      <4> QED BY <2>8, <3>3, <4>1, <4>2
    <3> QED BY <3>1, <3>2, <3>3
  <2>16. MemberInv' /\ SnapshotInv' /\ EnteredInv'
    <3>1. {} \in SUBSET Puts /\ UNCHANGED client BY <1>1
    <3> QED BY <1>0, <1>2, <2>12, <2>13, <2>14, <2>15, <3>1, RequestStep
  <2>17. AttachmentOwned'
    <3> SUFFICES ASSUME NEW r \in Records, NEW b \in Puts, b = rec[r].att
                 PROVE  \/ strm'[put'[b].stream].members[rec[r].peer] = b
                        \/ strm'[put'[b].stream].pc = "detach" /\ b \in strm'[put'[b].stream].todo
                        \/ strm'[put'[b].stream].pc \notin Serving /\ put'[b].pc = "recheck"
                        \/ \E c \in Conns : del[c].pc = "detach" /\ del[c].att = b
                        \/ \E x \in Puts : NotAttached(x)' /\ put'[x].rec = r
                        \/ \E x \in Puts : put'[x].pc = "swap" /\ put'[x].prev = b
                        \/ put'[b].late
      BY <1>1 DEF AttachmentOwned, Owned, NotAttached
    <3>1. /\ Entered(b) /\ rec[r].peer \in Peers /\ put[b].rec = r /\ put[b].stream \in Streams
          /\ rec[r].peer = PeerOf(put[b].conn)
      BY <1>0, AttachedFact DEF ServerInv
    <3>2. b # a /\ SamePut(put'[b], put[b]) BY <1>3, <2>3, <3>1
    <3>3. PICK t \in Streams : t = put[b].stream /\ t = put'[b].stream BY <3>1, <3>2 DEF SamePut
    <3>4. PICK q \in Peers : q = rec[r].peer BY <3>1
    <3>5. \/ strm[t].members[q] = b
          \/ strm[t].pc = "detach" /\ b \in strm[t].todo
          \/ strm[t].pc \notin Serving /\ put[b].pc = "recheck"
          \/ \E c \in Conns : del[c].pc = "detach" /\ del[c].att = b
          \/ \E x \in Puts : NotAttached(x) /\ put[x].rec = r
          \/ \E x \in Puts : put[x].pc = "swap" /\ put[x].prev = b
          \/ put[b].late
      BY <3>3, <3>4 DEF MuxInv, AttachmentOwned, Owned
    <3>6. CASE strm[t].members[q] = b
      <4>1. CASE t = s /\ q = p
        <5>1. b = prev BY <1>6, <3>6, <4>1
        <5>2. CASE put'[a].pc = "swap" BY <2>1, <2>2, <5>1, <5>2, NoneApart
        <5>3. CASE put'[a].pc = "attach"
          <6>1. put'[a].rec = r BY <2>2, <3>1, <5>1, <5>3, NoneApart
          <6> QED BY <2>9, <6>1
        <5> QED BY <2>2, <5>2, <5>3
      <4>2. CASE ~(t = s /\ q = p) BY <2>5, <3>3, <3>4, <3>6, <4>2
      <4> QED BY <4>1, <4>2
    <3>7. CASE strm[t].pc = "detach" /\ b \in strm[t].todo BY <2>5, <3>3, <3>7
    <3>8. CASE strm[t].pc \notin Serving /\ put[b].pc = "recheck"
      BY <2>5, <3>2, <3>3, <3>8 DEF SamePut
    <3>9. CASE \E x \in Puts : NotAttached(x) /\ put[x].rec = r
      <4>1. PICK x \in Puts : NotAttached(x) /\ put[x].rec = r BY <3>9
      <4>2. x # a BY <1>3, <4>1
      <4>3. NotAttached(x)' /\ put'[x].rec = r BY <2>3, <2>8, <4>1, <4>2 DEF SamePut
      <4> QED BY <4>3
    <3>10. CASE \E x \in Puts : put[x].pc = "swap" /\ put[x].prev = b
      <4>1. PICK x \in Puts : put[x].pc = "swap" /\ put[x].prev = b BY <3>10
      <4>2. x # a BY <1>1, <4>1
      <4>3. put'[x].pc = "swap" /\ put'[x].prev = b BY <2>3, <4>1, <4>2 DEF SamePut
      <4> QED BY <4>3
    <3>11. CASE put[b].late
      <4>1. b # prev BY <2>1, <3>11, NoneApart
      <4> QED BY <2>3, <3>2, <3>11, <4>1
    <3> QED BY <3>5, <3>6, <3>7, <3>8, <3>9, <3>10, <3>11
  <2>18. MemberWoken'
    <3> SUFFICES ASSUME NEW r \in Records, NEW b \in Puts, b = rec[r].att, rec[r].unsent,
                        strm'[put'[b].stream].pc \in Serving,
                        strm'[put'[b].stream].members[rec[r].peer] = b
                 PROVE  \/ strm'[put'[b].stream].wake
                        \/ strm'[put'[b].stream].pc = "take" /\ b \in strm'[put'[b].stream].todo
                        \/ put'[b].pc = "recheck" \/ rec[r].poke = b
      BY <1>1 DEF MemberWoken
    <3>1. Entered(b) /\ rec[r].peer \in Peers /\ put[b].stream \in Streams
      BY <1>0, AttachedFact DEF ServerInv
    <3>2. b # a /\ SamePut(put'[b], put[b]) BY <1>3, <2>3, <3>1
    <3>3. PICK t \in Streams : t = put[b].stream /\ t = put'[b].stream BY <3>1, <3>2 DEF SamePut
    <3>4. /\ strm[t].members[rec[r].peer] = b /\ strm[t].pc \in Serving
          /\ strm'[t].pc = strm[t].pc /\ strm'[t].todo = strm[t].todo
          /\ strm'[t].wake = strm[t].wake /\ put'[b].pc = put[b].pc
      BY <2>5, <3>1, <3>2, <3>3, SMTT(30) DEF SamePut
    <3> QED BY <3>3, <3>4 DEF MuxInv, MemberWoken
  <2>19. ServerInv' BY <2>10, <2>11, <2>16, <2>17, <2>18 DEF ServerInv
  <2>20. SameRequests
    <3>1. put'[a].pc # "none" /\ put'[a].conn = put[a].conn BY <2>2
    <3> QED BY <1>1, <2>3, <3>1 DEF SameRequests, SamePut
  <2>21. \A t \in Streams, q \in Peers : strm[t].members[q] # None => strm'[t].members[q] # None
    BY <2>5, NoneApart
  <2>22. \A b \in Puts : put'[b].pc \in Going \/ Entered(b)' =>
           (put[b].pc \in Going \/ Entered(b)) /\ put'[b].stream = put[b].stream
    <3>1. put[a].pc \in Going /\ put'[a].stream = put[a].stream BY <1>1, <1>5, <2>2 DEF Going
    <3> QED BY <2>3, <2>8, <3>1 DEF SamePut
  <2>23. \A b \in Puts : Entered(b)' =>
           Entered(b) \/ strm'[put[b].stream].members[PeerOf(put[b].conn)] # None
    <3>1. strm'[put[a].stream].members[PeerOf(put[a].conn)] # None BY <1>4, <1>5, <2>5, NoneApart
    <3> QED BY <2>8, <3>1
  <2>24. UNCHANGED client /\ LostKept /\ srv'.muxes = srv.muxes /\ srv'.doomed = srv.doomed
    <3>1. strm'[s].members[p] # None BY <2>5, NoneApart
    <3> QED BY <1>1, <1>8, <3>1 DEF LostKept
  <2> QED BY <1>2, <2>6, <2>12, <2>19, <2>20, <2>21, <2>22, <2>23, <2>24, RequestKeeps
<1> QED BY <1>4, <1>5, <1>6, <1>7, <1>8 DEF Insert

LEMMA DetachPrevKeeps == ASSUME MuxInv, NEW a \in Puts, DetachPrev(a) PROVE MuxInv'
<1>0. Types /\ ServerInv /\ PutInv /\ put \in [Puts -> PutStates] /\ put[a] \in PutStates
  BY DEF MuxInv, ServerInv, Types
<1>1. put[a].pc = "swap" /\ UNCHANGED <<client, strm, del, srv, env, lost>> BY DEF DetachPrev
<1>2. SameCalls BY <1>0, <1>1 DEF SameCalls, Types
<1>3. PICK prev \in Puts : prev = put[a].prev BY <1>0, <1>1 DEF PutInv
<1>4. PICK q \in PutStates : q = [put[a] EXCEPT !.pc = "attach", !.prev = None]
  BY <1>0 DEF PutStates
<1>5. /\ q.pc = "attach" /\ q.conn = put[a].conn /\ q.stream = put[a].stream /\ q.rec = put[a].rec
      /\ q.reply = put[a].reply /\ q.late = put[a].late
  BY <1>0, <1>4 DEF PutStates
<1>6. put' = [put EXCEPT ![a] = q] BY <1>0, <1>4 DEF DetachPrev
<1>7. put' \in [Puts -> PutStates] /\ put'[a] = q /\ \A b \in Puts : b # a => put'[b] = put[b]
  BY <1>0, <1>6
<1>8. /\ rec' \in [Records -> RecStates]
      /\ \A r \in Records : /\ rec'[r].peer = rec[r].peer /\ rec'[r].unsent = rec[r].unsent
                            /\ rec'[r].poke = rec[r].poke
                            /\ rec'[r].att = IF rec[r].att = prev THEN None ELSE rec[r].att
  BY <1>0, <1>3, DetachedFact DEF DetachPrev
<1>9. \A r \in Records : rec'[r].att \in Puts => rec'[r].att = rec[r].att /\ rec[r].att # prev
  BY <1>8, NoneApart
<1>10. Types' BY <1>0, <1>1, <1>7, <1>8 DEF Types, client
<1>11. \A c : PeerOf(c)' = PeerOf(c) BY <1>0, <1>2, CallsKept
<1>12. \A b \in Puts :
         /\ put'[b].conn = put[b].conn /\ put'[b].stream = put[b].stream /\ put'[b].rec = put[b].rec
         /\ put'[b].reply = put[b].reply /\ put'[b].late = put[b].late
         /\ put'[b].pc = put[b].pc \/ (b = a /\ put'[b].pc = "attach")
  BY <1>5, <1>7
<1>13. \A b \in Puts : (Entered(b)' <=> Entered(b)) /\ (NotAttached(b)' <=> NotAttached(b))
  BY <1>1, <1>12 DEF Entered, NotAttached
<1>14. PutInv'
  <2>1. Opened' = Opened BY <1>1, <1>2 DEF Opened, SameCalls, client
  <2>2. ASSUME NEW b \in Puts
        PROVE  /\ put'[b].pc # "none" => put'[b].conn \in Opened
               /\ put'[b].reply = "ok" => put'[b].pc = "done"
               /\ put'[b].pc = "request" \/ put'[b].pc = "insert" \/ Entered(b)' =>
                    put'[b].stream \in Streams
               /\ put'[b].pc = "insert" \/ Entered(b)' =>
                    /\ put'[b].rec \in Records
                    /\ rec[put'[b].rec].peer = PeerOf(put'[b].conn)
               /\ put'[b].pc = "swap" => put'[b].prev \in Puts
               /\ put'[b].late => Entered(b)'
    <3>1. CASE b = a
      <4>1. Entered(a) /\ put[a].pc # "none" /\ put[a].reply # "ok" BY <1>0, <1>1 DEF Entered, PutInv
      <4> QED BY <1>0, <1>5, <1>7, <1>13, <3>1, <4>1 DEF PutInv
    <3>2. CASE b # a BY <1>0, <1>7, <1>13, <3>2 DEF PutInv
    <3> QED BY <3>1, <3>2
  <2>3. \A r \in Records : rec'[r].peer = rec[r].peer BY <1>8
  <2> QED BY <1>11, <2>1, <2>2, <2>3 DEF PutInv, PeerOf
<1>15. RecordInv'
  <2>1. ASSUME NEW r \in Records, NEW b \in Puts, b = rec'[r].att
        PROVE  Entered(b)' /\ ~NotAttached(b)' /\ put'[b].rec = r
    <3>1. b = rec[r].att BY <1>9, <2>1
    <3> QED BY <1>12, <1>13, <3>1 DEF MuxInv, RecordInv
  <2>2. ASSUME NEW p \in Peers, srv.peers[p] # None PROVE rec'[srv.peers[p]].peer = p
    <3>1. srv.peers[p] \in Records BY <1>0, <2>2 DEF Types, SrvStates
    <3> QED BY <1>8, <2>2, <3>1 DEF MuxInv, RecordInv
  <2> QED BY <1>1, <2>1, <2>2 DEF RecordInv, Entered, NotAttached
<1>16. \A s \in Streams : Touched(strm'[s], strm[s]) BY <1>1 DEF Touched
<1>17. EnteredKept({}) BY <1>12, <1>13 DEF EnteredKept
<1>18. MembersCome
  <2> SUFFICES ASSUME NEW s \in Streams, NEW p \in Peers, strm[s].members[p] # None
               PROVE  ~put'[strm[s].members[p]].late
    BY <1>1 DEF MembersCome
  <2>1. strm[s].members[p] \in Puts
    <3>1. strm[s].members \in [Peers -> Puts \cup {None}] BY <1>0 DEF Types, StrmStates
    <3> QED BY <3>1
  <2>2. ~put[strm[s].members[p]].late BY DEF MuxInv, MemberInv
  <2> QED BY <1>12, <2>1, <2>2
<1>19. PutsGoOn
  <2> SUFFICES ASSUME NEW b \in Puts
               PROVE  /\ put'[b].pc \in Going => put[b].pc \in Going
                      /\ NotAttached(b)' =>
                           \/ put'[b].late
                           \/ strm[put[b].stream].members[PeerOf(put[b].conn)] = b
                           \/ NotAttached(b) /\ ~put[b].late
                              /\ strm[put[b].stream].members[PeerOf(put[b].conn)] # b
    BY <1>1, <1>12 DEF PutsGoOn
  <2>1. put'[b].pc \in Going => put[b].pc \in Going BY <1>1, <1>12 DEF Going
  <2> QED BY <1>12, <1>13, <2>1
<1>20. MemberInv' /\ SnapshotInv' /\ EnteredInv'
  <2>1. {} \in SUBSET Puts /\ UNCHANGED client BY <1>1
  <2> QED BY <1>0, <1>2, <1>16, <1>17, <1>18, <1>19, <2>1, RequestStep
<1>21. AttachmentOwned'
  <2> SUFFICES ASSUME NEW r \in Records, NEW b \in Puts, b = rec'[r].att
               PROVE  \/ strm[put'[b].stream].members[rec'[r].peer] = b
                      \/ strm[put'[b].stream].pc = "detach" /\ b \in strm[put'[b].stream].todo
                      \/ strm[put'[b].stream].pc \notin Serving /\ put'[b].pc = "recheck"
                      \/ \E c \in Conns : del[c].pc = "detach" /\ del[c].att = b
                      \/ \E x \in Puts : NotAttached(x)' /\ put'[x].rec = r
                      \/ \E x \in Puts : put'[x].pc = "swap" /\ put'[x].prev = b
                      \/ put'[b].late
    BY <1>1 DEF AttachmentOwned, Owned, NotAttached
  <2>1. rec[r].att = b /\ b # prev /\ rec'[r].peer = rec[r].peer BY <1>8, <1>9
  <2>2. \/ strm[put[b].stream].members[rec[r].peer] = b
        \/ strm[put[b].stream].pc = "detach" /\ b \in strm[put[b].stream].todo
        \/ strm[put[b].stream].pc \notin Serving /\ put[b].pc = "recheck"
        \/ \E c \in Conns : del[c].pc = "detach" /\ del[c].att = b
        \/ \E x \in Puts : NotAttached(x) /\ put[x].rec = r
        \/ \E x \in Puts : put[x].pc = "swap" /\ put[x].prev = b
        \/ put[b].late
    BY <2>1 DEF MuxInv, AttachmentOwned, Owned
  <2>3. \A x \in Puts : NotAttached(x) /\ put[x].rec = r => NotAttached(x)' /\ put'[x].rec = r
    BY <1>12, <1>13
  <2>4. \A x \in Puts : put[x].pc = "swap" /\ put[x].prev = b => put'[x].pc = "swap" /\ put'[x].prev = b
    BY <1>3, <1>7, <2>1
  <2>5. put[b].pc = "recheck" => put'[b].pc = "recheck" BY <1>1, <1>12
  <2> QED BY <1>12, <2>1, <2>2, <2>3, <2>4, <2>5
<1>22. MemberWoken'
  <2> SUFFICES ASSUME NEW r \in Records, NEW b \in Puts, b = rec'[r].att, rec'[r].unsent,
                      strm[put'[b].stream].pc \in Serving,
                      strm[put'[b].stream].members[rec'[r].peer] = b
               PROVE  \/ strm[put'[b].stream].wake
                      \/ strm[put'[b].stream].pc = "take" /\ b \in strm[put'[b].stream].todo
                      \/ put'[b].pc = "recheck" \/ rec'[r].poke = b
    BY <1>1 DEF MemberWoken
  <2>1. /\ rec[r].att = b /\ rec'[r].peer = rec[r].peer /\ rec[r].unsent /\ rec'[r].poke = rec[r].poke
        /\ put'[b].stream = put[b].stream
    BY <1>8, <1>9, <1>12
  <2>2. put[b].pc = "recheck" => put'[b].pc = "recheck" BY <1>1, <1>12
  <2> QED BY <2>1, <2>2 DEF MuxInv, MemberWoken
<1>23. ServerInv' BY <1>14, <1>15, <1>20, <1>21, <1>22 DEF ServerInv
<1>24. SameRequests
  <2>1. \A b \in Puts : put[b].pc # "none" => put'[b].pc # "none" /\ put'[b].conn = put[b].conn
    BY <1>12
  <2> QED BY <1>1, <2>1 DEF SameRequests
<1>25. /\ \A s \in Streams, p \in Peers : strm[s].members[p] # None => strm'[s].members[p] # None
       /\ \A b \in Puts : put'[b].pc \in Going \/ Entered(b)' =>
            (put[b].pc \in Going \/ Entered(b)) /\ put'[b].stream = put[b].stream
       /\ \A b \in Puts : Entered(b)' => Entered(b)
  BY <1>1, <1>12, <1>13, <1>19 DEF PutsGoOn
<1>26. UNCHANGED client /\ LostKept /\ srv'.muxes = srv.muxes /\ srv'.doomed = srv.doomed
  BY <1>1 DEF LostKept
<1> QED BY <1>2, <1>10, <1>16, <1>23, <1>24, <1>25, <1>26, RequestKeeps

LEMMA AttachKeeps == ASSUME MuxInv, NEW a \in Puts, Attach(a) PROVE MuxInv'
<1>0. Types /\ ServerInv /\ PutInv /\ put \in [Puts -> PutStates] /\ put[a] \in PutStates
  BY DEF MuxInv, ServerInv, Types
<1>1. put[a].pc = "attach" /\ UNCHANGED <<client, del, srv, env, lost>> BY DEF Attach
<1>2. SameCalls BY <1>0, <1>1 DEF SameCalls, Types
<1>3. Entered(a) /\ NotAttached(a) /\ put[a].reply # "ok"
  BY <1>0, <1>1 DEF Entered, NotAttached, PutInv
<1>4. PICK r \in Records : r = put[a].rec BY <1>0, <1>3, EnteredFact
<1>5. PICK p \in Peers : p = PeerOf(put[a].conn) /\ p = rec[r].peer
  BY <1>0, <1>3, <1>4, EnteredFact, PeerOfOpened
<1>6. PICK s \in Streams : s = put[a].stream BY <1>0, <1>3, EnteredFact
<1>7. PICK old : old = rec[r].att OBVIOUS
<1>8. /\ old \in Puts => put[old].rec = r /\ put[old].stream \in Streams
      /\ old # a
  BY <1>0, <1>3, <1>7, AttachedFact DEF ServerInv
<1>9. EndedAs(strm', old, p, "replaced")
  <2>1. strm' = Ended(strm, old, p, "replaced") BY <1>4, <1>5, <1>7 DEF Attach
  <2>2. old \in Puts => p \in Peers /\ put[old].stream \in Streams BY <1>8
  <2> QED BY <1>0, <2>1, <2>2, EndedFact
<1>10. /\ strm' \in [Streams -> StrmStates]
       /\ \A t \in Streams : Touched(strm'[t], strm[t])
       /\ \A t \in Streams : /\ strm'[t].pc = strm[t].pc /\ strm'[t].todo = strm[t].todo
                             /\ strm[t].wake => strm'[t].wake
       /\ \A t \in Streams, x \in Peers :
            \/ strm'[t].members[x] = strm[t].members[x]
            \/ /\ strm[t].members[x] = old /\ strm'[t].members[x] = None
               /\ x \in Range(strm'[t].detached)
  <2>1. \A t \in Streams : Touched(strm'[t], strm[t]) BY <1>9 DEF EndedAs, Touched
  <2>2. strm' \in [Streams -> StrmStates] BY <1>9 DEF EndedAs
  <2>3. \A t \in Streams, x \in Peers :
          \/ strm'[t].members[x] = strm[t].members[x]
          \/ strm[t].members[x] = old /\ strm'[t].members[x] = None
    BY <1>9 DEF EndedAs
  <2>4. \A t \in Streams, x \in Peers :
          strm'[t].members[x] # strm[t].members[x] => x \in Range(strm'[t].detached)
    BY <1>9 DEF EndedAs
  <2> QED BY <2>1, <2>2, <2>3, <2>4 DEF Touched
<1>11. PICK q \in PutStates : q = [put[a] EXCEPT !.pc = "recheck"] BY <1>0 DEF PutStates
<1>12. /\ q.pc = "recheck" /\ q.conn = put[a].conn /\ q.stream = put[a].stream /\ q.rec = put[a].rec
       /\ q.reply = put[a].reply /\ q.late = put[a].late
  BY <1>0, <1>11 DEF PutStates
<1>13. put' = [put EXCEPT ![a] = q] BY <1>0, <1>11 DEF Attach
<1>14. put' \in [Puts -> PutStates] /\ put'[a] = q /\ \A b \in Puts : b # a => put'[b] = put[b]
  BY <1>0, <1>13
<1>15. /\ rec' \in [Records -> RecStates] /\ rec'[r].att = a /\ rec'[r].peer = rec[r].peer
       /\ \A x \in Records : x # r => rec'[x] = rec[x]
  <2>1. PICK again \in BOOLEAN : rec' = [rec EXCEPT ![r].att = a, ![r].unsent = @ \/ again]
    BY <1>4 DEF Attach
  <2>2. rec \in [Records -> RecStates] /\ rec[r] \in RecStates BY <1>0 DEF Types
  <2>3. PICK u \in BOOLEAN : u = (rec[r].unsent \/ again) OBVIOUS
  <2>4. PICK x \in RecStates : x = [rec[r] EXCEPT !.att = a, !.unsent = u]
    BY <2>2 DEF RecStates
  <2>5. x.att = a /\ x.peer = rec[r].peer BY <2>2, <2>4 DEF RecStates
  <2>6. rec' = [rec EXCEPT ![r] = x] BY <2>1, <2>2, <2>3, <2>4 DEF RecStates
  <2> QED BY <2>2, <2>5, <2>6
<1>16. Types' BY <1>0, <1>1, <1>10, <1>14, <1>15 DEF Types, client
<1>17. \A c : PeerOf(c)' = PeerOf(c) BY <1>0, <1>2, CallsKept
<1>18. \A b \in Puts :
         /\ put'[b].conn = put[b].conn /\ put'[b].stream = put[b].stream /\ put'[b].rec = put[b].rec
         /\ put'[b].reply = put[b].reply /\ put'[b].late = put[b].late
         /\ put'[b].pc = put[b].pc \/ (b = a /\ put'[b].pc = "recheck")
  BY <1>12, <1>14
<1>19. \A b \in Puts : (Entered(b)' <=> Entered(b)) /\ (NotAttached(b)' <=> NotAttached(b) /\ b # a)
  BY <1>1, <1>12, <1>14, <1>18 DEF Entered, NotAttached
<1>20. \A x \in Records : rec'[x].peer = rec[x].peer BY <1>15
<1>21. PutInv'
  <2>1. Opened' = Opened BY <1>1, <1>2 DEF Opened, SameCalls, client
  <2>2. ASSUME NEW b \in Puts
        PROVE  /\ put'[b].pc # "none" => put'[b].conn \in Opened
               /\ put'[b].reply = "ok" => put'[b].pc = "done"
               /\ put'[b].pc = "request" \/ put'[b].pc = "insert" \/ Entered(b)' =>
                    put'[b].stream \in Streams
               /\ put'[b].pc = "insert" \/ Entered(b)' =>
                    /\ put'[b].rec \in Records
                    /\ rec[put'[b].rec].peer = PeerOf(put'[b].conn)
               /\ put'[b].pc = "swap" => put'[b].prev \in Puts
               /\ put'[b].late => Entered(b)'
    <3>1. CASE b = a BY <1>0, <1>1, <1>3, <1>12, <1>14, <1>19, <3>1 DEF PutInv
    <3>2. CASE b # a BY <1>0, <1>14, <1>19, <3>2 DEF PutInv
    <3> QED BY <3>1, <3>2
  <2> QED BY <1>17, <1>20, <2>1, <2>2 DEF PutInv, PeerOf
<1>22. RecordInv'
  <2>1. ASSUME NEW x \in Records, NEW b \in Puts, b = rec'[x].att
        PROVE  Entered(b)' /\ ~NotAttached(b)' /\ put'[b].rec = x
    <3>1. CASE x = r BY <1>3, <1>4, <1>15, <1>18, <1>19, <2>1, <3>1
    <3>2. CASE x # r
      <4>1. b = rec[x].att BY <1>15, <2>1, <3>2
      <4>2. Entered(b) /\ ~NotAttached(b) /\ put[b].rec = x BY <4>1 DEF MuxInv, RecordInv
      <4> QED BY <1>18, <1>19, <4>2
    <3> QED BY <3>1, <3>2
  <2>2. ASSUME NEW x \in Peers, srv.peers[x] # None PROVE rec'[srv.peers[x]].peer = x
    <3>1. srv.peers[x] \in Records BY <1>0, <2>2 DEF Types, SrvStates
    <3> QED BY <1>20, <2>2, <3>1 DEF MuxInv, RecordInv
  <2> QED BY <1>1, <2>1, <2>2 DEF RecordInv, Entered, NotAttached
<1>23. EnteredKept({}) BY <1>18, <1>19 DEF EnteredKept
<1>24. MembersCome
  <2> SUFFICES ASSUME NEW t \in Streams, NEW x \in Peers, strm'[t].members[x] # None
               PROVE  strm'[t].members[x] = strm[t].members[x] /\ ~put'[strm'[t].members[x]].late
    BY DEF MembersCome
  <2>1. strm'[t].members[x] = strm[t].members[x] BY <1>10
  <2>2. strm[t].members[x] \in Puts
    <3>1. strm[t].members \in [Peers -> Puts \cup {None}] BY <1>0 DEF Types, StrmStates
    <3> QED BY <2>1, <3>1
  <2>3. ~put[strm[t].members[x]].late BY <2>1 DEF MuxInv, MemberInv
  <2> QED BY <1>18, <2>1, <2>2, <2>3
<1>25. PutsGoOn
  <2> SUFFICES ASSUME NEW b \in Puts
               PROVE  /\ put'[b].pc \in Going => put[b].pc \in Going
                      /\ NotAttached(b)' =>
                           \/ put'[b].late
                           \/ strm'[put[b].stream].members[PeerOf(put[b].conn)] = b
                           \/ NotAttached(b) /\ ~put[b].late
                              /\ strm[put[b].stream].members[PeerOf(put[b].conn)] # b
    BY <1>18 DEF PutsGoOn
  <2>1. put'[b].pc \in Going => put[b].pc \in Going BY <1>1, <1>18 DEF Going
  <2>2. ASSUME NotAttached(b)', ~put'[b].late,
               strm[put[b].stream].members[PeerOf(put[b].conn)] = b
        PROVE  strm'[put[b].stream].members[PeerOf(put[b].conn)] = b
    <3>1. NotAttached(b) /\ Entered(b) BY <1>19, <2>2 DEF NotAttached, Entered
    <3>2. put[b].stream \in Streams /\ PeerOf(put[b].conn) \in Peers
      BY <1>0, <3>1, EnteredFact, PeerOfOpened
    <3>3. b # old
      <4>1. old \in Puts => ~NotAttached(old) BY <1>7 DEF MuxInv, RecordInv
      <4> QED BY <3>1, <4>1
    <3> QED BY <1>10, <2>2, <3>2, <3>3
  <2> QED BY <1>18, <1>19, <2>1, <2>2
<1>26. MemberInv' /\ SnapshotInv' /\ EnteredInv'
  <2>1. {} \in SUBSET Puts /\ UNCHANGED client BY <1>1
  <2> QED BY <1>0, <1>2, <1>10, <1>23, <1>24, <1>25, <2>1, RequestStep
<1>27. AttachmentOwned'
  <2> SUFFICES ASSUME NEW x \in Records, NEW b \in Puts, b = rec'[x].att
               PROVE  \/ strm'[put'[b].stream].members[rec'[x].peer] = b
                      \/ strm'[put'[b].stream].pc = "detach" /\ b \in strm'[put'[b].stream].todo
                      \/ strm'[put'[b].stream].pc \notin Serving /\ put'[b].pc = "recheck"
                      \/ \E c \in Conns : del[c].pc = "detach" /\ del[c].att = b
                      \/ \E y \in Puts : NotAttached(y)' /\ put'[y].rec = x
                      \/ \E y \in Puts : put'[y].pc = "swap" /\ put'[y].prev = b
                      \/ put'[b].late
    BY <1>1 DEF AttachmentOwned, Owned, NotAttached
  <2>1. CASE x = r
    <3>1. b = a /\ put'[b].stream = s /\ rec'[x].peer = p /\ put'[b].pc = "recheck"
      BY <1>5, <1>6, <1>12, <1>14, <1>15, <2>1
    <3>2. strm[s].pc \in Serving => put[a].late \/ strm[s].members[p] = a
      BY <1>3, <1>5, <1>6 DEF MuxInv, EnteredInv
    <3>3. strm[s].members[p] = a => strm'[s].members[p] = a BY <1>8, <1>10
    <3> QED BY <1>10, <1>18, <3>1, <3>2, <3>3
  <2>2. CASE x # r
    <3>1. rec[x].att = b /\ rec'[x].peer = rec[x].peer BY <1>15, <2>2
    <3>2. /\ put[b].rec = x /\ put[b].stream \in Streams /\ rec[x].peer \in Peers /\ b # a
      BY <1>0, <1>4, <2>2, <3>1, AttachedFact DEF ServerInv
    <3>3. b # old BY <1>8, <2>2, <3>2
    <3>4. \/ strm[put[b].stream].members[rec[x].peer] = b
          \/ strm[put[b].stream].pc = "detach" /\ b \in strm[put[b].stream].todo
          \/ strm[put[b].stream].pc \notin Serving /\ put[b].pc = "recheck"
          \/ \E c \in Conns : del[c].pc = "detach" /\ del[c].att = b
          \/ \E y \in Puts : NotAttached(y) /\ put[y].rec = x
          \/ \E y \in Puts : put[y].pc = "swap" /\ put[y].prev = b
          \/ put[b].late
      BY <3>1 DEF MuxInv, AttachmentOwned, Owned
    <3>5. \A y \in Puts : NotAttached(y) /\ put[y].rec = x => NotAttached(y)' /\ put'[y].rec = x
      BY <1>4, <1>18, <1>19, <2>2
    <3>6. \A y \in Puts : put[y].pc = "swap" /\ put[y].prev = b => put'[y].pc = "swap" /\ put'[y].prev = b
      BY <1>1, <1>14
    <3>7. put'[b] = put[b] BY <1>14, <3>2
    <3>8. strm[put[b].stream].members[rec[x].peer] = b => strm'[put[b].stream].members[rec[x].peer] = b
      BY <1>10, <3>2, <3>3
    <3>9. PICK t \in Streams : t = put[b].stream BY <3>2
    <3>10. strm'[t].pc = strm[t].pc /\ strm'[t].todo = strm[t].todo BY <1>10
    <3>11. CASE \E y \in Puts : NotAttached(y) /\ put[y].rec = x BY <3>5, <3>11
    <3>12. CASE \E y \in Puts : put[y].pc = "swap" /\ put[y].prev = b BY <3>6, <3>12
    <3>13. CASE \E c \in Conns : del[c].pc = "detach" /\ del[c].att = b BY <3>13
    <3>14. CASE \/ strm[t].members[rec[x].peer] = b
                \/ strm[t].pc = "detach" /\ b \in strm[t].todo
                \/ strm[t].pc \notin Serving /\ put[b].pc = "recheck"
                \/ put[b].late
      BY <3>1, <3>7, <3>8, <3>9, <3>10, <3>14
    <3> QED BY <3>4, <3>9, <3>11, <3>12, <3>13, <3>14
  <2> QED BY <2>1, <2>2
<1>28. MemberWoken'
  <2> SUFFICES ASSUME NEW x \in Records, NEW b \in Puts, b = rec'[x].att, rec'[x].unsent,
                      strm'[put'[b].stream].pc \in Serving,
                      strm'[put'[b].stream].members[rec'[x].peer] = b
               PROVE  \/ strm'[put'[b].stream].wake
                      \/ strm'[put'[b].stream].pc = "take" /\ b \in strm'[put'[b].stream].todo
                      \/ put'[b].pc = "recheck" \/ rec'[x].poke = b
    BY DEF MemberWoken
  <2>1. CASE x = r BY <1>12, <1>14, <1>15, <2>1
  <2>2. CASE x # r
    <3>1. rec'[x] = rec[x] /\ rec[x].att = b BY <1>15, <2>2
    <3>2. put[b].rec = x /\ put[b].stream \in Streams /\ rec[x].peer \in Peers /\ b # a
      BY <1>0, <1>4, <2>2, <3>1, AttachedFact DEF ServerInv
    <3>3. put'[b] = put[b] BY <1>14, <3>2
    <3>4. PICK t \in Streams : t = put[b].stream BY <3>2
    <3>5. strm[t].members[rec[x].peer] = b /\ strm[t].pc \in Serving
      <4>1. /\ strm'[t].pc = strm[t].pc
            /\ \/ strm'[t].members[rec[x].peer] = strm[t].members[rec[x].peer]
               \/ strm'[t].members[rec[x].peer] = None
        BY <1>10, <3>2
      <4>2. strm'[t].members[rec[x].peer] = b /\ strm'[t].pc \in Serving BY <3>1, <3>3, <3>4
      <4>3. b # None BY NoneApart
      <4> QED BY <4>1, <4>2, <4>3
    <3>6. \/ strm[t].wake
          \/ strm[t].pc = "take" /\ b \in strm[t].todo
          \/ put[b].pc = "recheck" \/ rec[x].poke = b
      BY <3>1, <3>4, <3>5 DEF MuxInv, MemberWoken
    <3>7. /\ strm'[t].pc = strm[t].pc /\ strm'[t].todo = strm[t].todo
          /\ strm[t].wake => strm'[t].wake
      BY <1>10
    <3> QED BY <3>1, <3>3, <3>4, <3>6, <3>7
  <2> QED BY <2>1, <2>2
<1>29. ServerInv' BY <1>21, <1>22, <1>26, <1>27, <1>28 DEF ServerInv
<1>30. SameRequests
  <2>1. \A b \in Puts : put[b].pc # "none" => put'[b].pc # "none" /\ put'[b].conn = put[b].conn
    BY <1>18
  <2> QED BY <1>1, <2>1 DEF SameRequests
<1>31. /\ \A t \in Streams, x \in Peers : strm[t].members[x] # None =>
            strm'[t].members[x] # None \/ x \in Range(strm'[t].detached)
       /\ \A b \in Puts : put'[b].pc \in Going \/ Entered(b)' =>
            (put[b].pc \in Going \/ Entered(b)) /\ put'[b].stream = put[b].stream
       /\ \A b \in Puts : Entered(b)' => Entered(b)
  BY <1>10, <1>18, <1>19, <1>25 DEF PutsGoOn
<1>32. UNCHANGED client /\ LostKept /\ srv'.muxes = srv.muxes /\ srv'.doomed = srv.doomed
  BY <1>1 DEF LostKept
<1> QED BY <1>2, <1>10, <1>16, <1>29, <1>30, <1>31, <1>32, RequestKeeps

LEMMA RecheckKeeps == ASSUME MuxInv, NEW a \in Puts, Recheck(a) PROVE MuxInv'
<1>0. Types /\ ServerInv /\ PutInv BY DEF MuxInv, ServerInv
<1>1. put[a].pc = "recheck" /\ UNCHANGED <<client, del, srv, env, lost>> BY DEF Recheck
<1>2. SameCalls BY <1>0, <1>1 DEF SameCalls, Types
<1>3. Entered(a) /\ ~NotAttached(a) BY <1>1 DEF Entered, NotAttached
<1>4. PICK s \in Streams : s = put[a].stream BY <1>0, <1>3, EnteredFact
<1>5. /\ strm' \in [Streams -> StrmStates]
      /\ \A t \in Streams : Woken(strm'[t], strm[t])
      /\ strm[s].pc \in Serving => strm'[s].wake = TRUE
  BY <1>0, <1>4, PokedFact DEF Recheck
<1>6. /\ \A t \in Streams : Touched(strm'[t], strm[t])
      /\ \A t \in Streams :
           /\ strm'[t].members = strm[t].members /\ strm'[t].pc = strm[t].pc
           /\ strm'[t].todo = strm[t].todo
           /\ strm[t].wake => strm'[t].wake
  BY <1>5 DEF Woken, Touched
<1>7. /\ put' \in [Puts -> PutStates] /\ \A b \in Puts : b # a => put'[b] = put[b]
      /\ put'[a].pc = "done" /\ put'[a].conn = put[a].conn
      /\ rec' \in [Records -> RecStates]
      /\ \A r \in Records : /\ rec'[r].peer = rec[r].peer /\ rec'[r].unsent = rec[r].unsent
                            /\ rec'[r].poke = rec[r].poke
                            /\ rec'[r].att \in Puts => rec'[r].att = rec[r].att
      /\ \/ /\ strm[s].pc \in Serving
            /\ put'[a].reply = "ok" /\ put'[a].stream = put[a].stream
            /\ put'[a].rec = put[a].rec /\ put'[a].late = put[a].late
         \/ /\ strm[s].pc \notin Serving
            /\ put'[a].reply # "ok" /\ ~put'[a].late /\ \A r \in Records : rec'[r].att # a
  <2>1. CASE strm[s].pc \in Serving
    <3>1. put' = Replies(a, "ok") /\ rec' = rec BY <1>4, <2>1 DEF Recheck
    <3>2. rec \in [Records -> RecStates] BY <1>0 DEF Types
    <3> QED BY <1>0, <2>1, <3>1, <3>2, RepliesFact
  <2>2. CASE strm[s].pc \notin Serving
    <3>1. put' = Replies(a, "gone") /\ rec' = Detached(rec, a) BY <1>4, <2>2 DEF Recheck
    <3>2. /\ put' \in [Puts -> PutStates] /\ \A b \in Puts : b # a => put'[b] = put[b]
          /\ put'[a].pc = "done" /\ put'[a].conn = put[a].conn /\ put'[a].reply = "gone"
          /\ ~put'[a].late
      BY <1>0, <3>1, RepliesFact
    <3>3. /\ rec' \in [Records -> RecStates]
          /\ \A r \in Records : /\ rec'[r].peer = rec[r].peer /\ rec'[r].unsent = rec[r].unsent
                                /\ rec'[r].poke = rec[r].poke
                                /\ rec'[r].att = IF rec[r].att = a THEN None ELSE rec[r].att
      BY <1>0, <3>1, DetachedFact
    <3> QED BY <2>2, <3>2, <3>3, NoneApart
  <2> QED BY <2>1, <2>2
<1>8. Types' BY <1>0, <1>1, <1>5, <1>7 DEF Types, client
<1>9. \A c : PeerOf(c)' = PeerOf(c) BY <1>0, <1>2, CallsKept
<1>10. \A b \in Puts : NotAttached(b)' <=> NotAttached(b) BY <1>3, <1>7 DEF NotAttached
<1>11. \A b \in Puts :
         /\ Entered(b)' => /\ Entered(b) /\ put'[b].stream = put[b].stream
                           /\ put'[b].rec = put[b].rec /\ put'[b].late = put[b].late
         /\ Entered(b) /\ ~Entered(b)' => b = a /\ strm[s].pc \notin Serving
         /\ put'[b].conn = put[b].conn
  BY <1>3, <1>7 DEF Entered
<1>12. \A r \in Records : rec'[r].att \in Puts =>
         /\ rec'[r].att = rec[r].att
         /\ rec[r].att = a => strm[s].pc \in Serving
  BY <1>7
<1>13. PutInv'
  <2>1. Opened' = Opened BY <1>1, <1>2 DEF Opened, SameCalls, client
  <2>2. ASSUME NEW b \in Puts
        PROVE  /\ put'[b].pc # "none" => put'[b].conn \in Opened
               /\ put'[b].reply = "ok" => put'[b].pc = "done"
               /\ put'[b].pc = "request" \/ put'[b].pc = "insert" \/ Entered(b)' =>
                    put'[b].stream \in Streams
               /\ put'[b].pc = "insert" \/ Entered(b)' =>
                    /\ put'[b].rec \in Records
                    /\ rec[put'[b].rec].peer = PeerOf(put'[b].conn)
               /\ put'[b].pc = "swap" => put'[b].prev \in Puts
               /\ put'[b].late => Entered(b)'
    <3>1. CASE b = a
      <4>1. /\ put[a].stream \in Streams /\ put[a].rec \in Records
            /\ put[a].conn \in Opened /\ rec[put[a].rec].peer = PeerOf(put[a].conn)
        BY <1>0, <1>3, EnteredFact
      <4>2. put'[a].late => Entered(a)' BY <1>7 DEF Entered
      <4> QED BY <1>7, <1>11, <3>1, <4>1, <4>2
    <3>2. CASE b # a
      <4>1. put'[b] = put[b] BY <1>7, <3>2
      <4>2. Entered(b)' <=> Entered(b) BY <4>1 DEF Entered
      <4> QED BY <1>0, <4>1, <4>2 DEF PutInv
    <3> QED BY <3>1, <3>2
  <2>3. \A r \in Records : rec'[r].peer = rec[r].peer BY <1>7
  <2> QED BY <1>9, <2>1, <2>2, <2>3 DEF PutInv, PeerOf
<1>14. RecordInv'
  <2>1. ASSUME NEW r \in Records, NEW b \in Puts, b = rec'[r].att
        PROVE  Entered(b)' /\ ~NotAttached(b)' /\ put'[b].rec = r
    <3>1. b = rec[r].att /\ (b = a => strm[s].pc \in Serving) BY <1>12, <2>1
    <3>2. Entered(b) /\ ~NotAttached(b) /\ put[b].rec = r BY <3>1 DEF MuxInv, RecordInv
    <3> QED BY <1>10, <1>11, <3>1, <3>2
  <2>2. ASSUME NEW p \in Peers, srv.peers[p] # None PROVE rec'[srv.peers[p]].peer = p
    <3>1. srv.peers[p] \in Records BY <1>0, <2>2 DEF Types, SrvStates
    <3> QED BY <1>7, <2>2, <3>1 DEF MuxInv, RecordInv
  <2> QED BY <1>1, <2>1, <2>2 DEF RecordInv, Entered, NotAttached
<1>15. PICK X \in SUBSET Puts : X = IF strm[s].pc \in Serving THEN {} ELSE {a} OBVIOUS
<1>16. EnteredKept(X)
  <2>1. \A b \in Puts : Entered(b) /\ b \notin X =>
          /\ Entered(b)' /\ put'[b].stream = put[b].stream /\ put'[b].conn = put[b].conn
          /\ put'[b].rec = put[b].rec
    BY <1>11, <1>15
  <2>2. \A b \in X : Entered(b) => strm[put[b].stream].pc \notin Serving BY <1>4, <1>15
  <2> QED BY <2>1, <2>2 DEF EnteredKept
<1>17. MembersCome
  <2> SUFFICES ASSUME NEW t \in Streams, NEW p \in Peers, strm[t].members[p] # None
               PROVE  ~put'[strm[t].members[p]].late
    BY <1>6 DEF MembersCome
  <2>1. strm[t].members[p] \in Puts
    <3>1. strm[t].members \in [Peers -> Puts \cup {None}] BY <1>0 DEF Types, StrmStates
    <3> QED BY <3>1
  <2>2. ~put[strm[t].members[p]].late BY DEF MuxInv, MemberInv
  <2> QED BY <1>7, <2>1, <2>2
<1>18. PutsGoOn
  <2> SUFFICES ASSUME NEW b \in Puts
               PROVE  /\ put'[b].pc \in Going => put[b].pc \in Going /\ put'[b].stream = put[b].stream
                      /\ NotAttached(b)' =>
                           \/ put'[b].late
                           \/ strm'[put[b].stream].members[PeerOf(put[b].conn)] = b
                           \/ NotAttached(b) /\ ~put[b].late
                              /\ strm[put[b].stream].members[PeerOf(put[b].conn)] # b
    BY <1>11 DEF PutsGoOn
  <2>1. put'[b].pc \in Going => put[b].pc \in Going /\ put'[b].stream = put[b].stream
    BY <1>7 DEF Going
  <2>2. ASSUME NotAttached(b)', ~put'[b].late,
               strm[put[b].stream].members[PeerOf(put[b].conn)] = b
        PROVE  strm'[put[b].stream].members[PeerOf(put[b].conn)] = b
    <3>1. NotAttached(b) /\ Entered(b) BY <1>10, <2>2 DEF NotAttached, Entered
    <3>2. put[b].stream \in Streams BY <1>0, <3>1, EnteredFact
    <3> QED BY <1>6, <2>2, <3>2
  <2>3. NotAttached(b)' /\ ~put'[b].late => ~put[b].late BY <1>3, <1>7, <1>10
  <2> QED BY <1>10, <2>1, <2>2, <2>3
<1>19. MemberInv' /\ SnapshotInv' /\ EnteredInv'
  <2>1. UNCHANGED client BY <1>1
  <2> QED BY <1>0, <1>2, <1>6, <1>16, <1>17, <1>18, <2>1, RequestStep
<1>20. AttachmentOwned'
  <2> SUFFICES ASSUME NEW r \in Records, NEW b \in Puts, b = rec'[r].att
               PROVE  \/ strm'[put'[b].stream].members[rec'[r].peer] = b
                      \/ strm'[put'[b].stream].pc = "detach" /\ b \in strm'[put'[b].stream].todo
                      \/ strm'[put'[b].stream].pc \notin Serving /\ put'[b].pc = "recheck"
                      \/ \E c \in Conns : del[c].pc = "detach" /\ del[c].att = b
                      \/ \E x \in Puts : NotAttached(x)' /\ put'[x].rec = r
                      \/ \E x \in Puts : put'[x].pc = "swap" /\ put'[x].prev = b
                      \/ put'[b].late
    BY <1>1 DEF AttachmentOwned, Owned, NotAttached
  <2>1. rec[r].att = b /\ (b = a => strm[s].pc \in Serving) /\ rec'[r].peer = rec[r].peer
    BY <1>7, <1>12
  <2>2. \/ strm[put[b].stream].members[rec[r].peer] = b
        \/ strm[put[b].stream].pc = "detach" /\ b \in strm[put[b].stream].todo
        \/ strm[put[b].stream].pc \notin Serving /\ put[b].pc = "recheck"
        \/ \E c \in Conns : del[c].pc = "detach" /\ del[c].att = b
        \/ \E x \in Puts : NotAttached(x) /\ put[x].rec = r
        \/ \E x \in Puts : put[x].pc = "swap" /\ put[x].prev = b
        \/ put[b].late
    BY <2>1 DEF MuxInv, AttachmentOwned, Owned
  <2>3. \A x \in Puts : NotAttached(x) /\ put[x].rec = r => NotAttached(x)' /\ put'[x].rec = r
    BY <1>3, <1>7, <1>10
  <2>4. \A x \in Puts : put[x].pc = "swap" /\ put[x].prev = b => put'[x].pc = "swap" /\ put'[x].prev = b
    BY <1>1, <1>7
  <2>5. put[b].stream \in Streams BY <1>0, <2>1, AttachedFact DEF ServerInv
  <2>6. put'[b].stream = put[b].stream /\ put'[b].late = put[b].late BY <1>7, <2>1
  <2>7. strm[put[b].stream].pc \notin Serving /\ put[b].pc = "recheck" => put'[b].pc = "recheck"
    BY <1>4, <1>7, <2>1
  <2> QED BY <1>6, <2>1, <2>2, <2>3, <2>4, <2>5, <2>6, <2>7
<1>21. MemberWoken'
  <2> SUFFICES ASSUME NEW r \in Records, NEW b \in Puts, b = rec'[r].att, rec'[r].unsent,
                      strm'[put'[b].stream].pc \in Serving,
                      strm'[put'[b].stream].members[rec'[r].peer] = b
               PROVE  \/ strm'[put'[b].stream].wake
                      \/ strm'[put'[b].stream].pc = "take" /\ b \in strm'[put'[b].stream].todo
                      \/ put'[b].pc = "recheck" \/ rec'[r].poke = b
    BY DEF MemberWoken
  <2>1. /\ rec[r].att = b /\ (b = a => strm[s].pc \in Serving) /\ rec'[r].peer = rec[r].peer
        /\ rec[r].unsent /\ rec'[r].poke = rec[r].poke
    BY <1>7, <1>12
  <2>2. put'[b].stream = put[b].stream BY <1>7, <2>1
  <2>3. PICK t \in Streams : t = put[b].stream BY <1>0, <2>1, AttachedFact DEF ServerInv
  <2>4. strm[t].pc \in Serving /\ strm[t].members[rec[r].peer] = b BY <1>6, <2>1, <2>2, <2>3
  <2>5. \/ strm[t].wake
        \/ strm[t].pc = "take" /\ b \in strm[t].todo
        \/ put[b].pc = "recheck" \/ rec[r].poke = b
    BY <2>1, <2>3, <2>4 DEF MuxInv, MemberWoken
  <2>6. b = a => strm'[t].wake BY <1>4, <1>5, <2>1, <2>3
  <2>7. b # a => put'[b] = put[b] BY <1>7
  <2> QED BY <1>6, <2>1, <2>2, <2>3, <2>5, <2>6, <2>7, SMTT(20)
<1>22. ServerInv' BY <1>13, <1>14, <1>19, <1>20, <1>21 DEF ServerInv
<1>23. SameRequests
  <2>1. \A b \in Puts : put[b].pc # "none" => put'[b].pc # "none" /\ put'[b].conn = put[b].conn
    BY <1>7
  <2> QED BY <1>1, <2>1 DEF SameRequests
<1>24. /\ \A b \in Puts : put'[b].pc \in Going \/ Entered(b)' =>
            (put[b].pc \in Going \/ Entered(b)) /\ put'[b].stream = put[b].stream
       /\ \A b \in Puts : Entered(b)' => Entered(b)
  BY <1>11, <1>18 DEF PutsGoOn
<1>25. \A t \in Streams, p \in Peers : strm[t].members[p] # None => strm'[t].members[p] # None
  BY <1>6
<1>26. UNCHANGED client /\ LostKept /\ srv'.muxes = srv.muxes /\ srv'.doomed = srv.doomed
  BY <1>1 DEF LostKept
<1> QED BY <1>2, <1>6, <1>8, <1>22, <1>23, <1>24, <1>25, <1>26, RequestKeeps

LEMMA LeaveMemberKeeps == ASSUME MuxInv, NEW c \in Conns, LeaveMember(c) PROVE MuxInv'
<1>0. Types /\ ServerInv /\ PutInv BY DEF MuxInv, ServerInv
<1>1. del[c].pc = "sent" /\ UNCHANGED <<client, rec, srv, env>> BY DEF LeaveMember
<1>2. SameCalls BY <1>0, <1>1 DEF SameCalls, Types
<1>3. PICK s \in Streams : s = del[c].stream BY <1>1 DEF MuxInv, LeaveInv
<1>4. PICK p \in Peers : p = PeerOf(c)
  <2>1. c \in Opened BY <1>1 DEF MuxInv, LeaveInv
  <2> QED BY <1>0, <2>1, PeerOfOpened
<1>5. PICK a : a = strm[s].members[p] OBVIOUS
<1>6. CASE LeaveLost(c) BY <1>6, LeaveEndsKeeps
<1>7. ASSUME a # None,
             strm' = [strm EXCEPT ![s].members[p] = None],
             del' = [del EXCEPT ![c] = [pc |-> "detach", stream |-> None, att |-> a]],
             put' = [put EXCEPT ![a].late = NotAttached(a)],
             lost' = lost \cup {<<p, s>>}
      PROVE  MuxInv'
  <2>1. /\ a \in Puts /\ strm[s] \in StrmStates /\ strm[s].members \in [Peers -> Puts \cup {None}]
        /\ put \in [Puts -> PutStates] /\ put[a] \in PutStates /\ strm \in [Streams -> StrmStates]
        /\ del \in [Conns -> DelStates] /\ reg \in [Peers -> Conns \cup {None}] /\ lost \subseteq Peers \X Streams
    BY <1>0, <1>5, <1>7 DEF Types, StrmStates
  <2>2. /\ strm[s].pc \in Serving /\ Entered(a) /\ ~put[a].late /\ put[a].stream = s
        /\ PeerOf(put[a].conn) = p
    BY <1>5, <1>7 DEF MuxInv, MemberInv
  <2>3. PICK ms \in [Peers -> Puts \cup {None}] : ms = [strm[s].members EXCEPT ![p] = None]
    BY <2>1
  <2>4. PICK h \in StrmStates : h = [strm[s] EXCEPT !.members = ms] BY <2>1 DEF StrmStates
  <2>5. /\ h.pc = strm[s].pc /\ h.todo = strm[s].todo /\ h.down = strm[s].down
        /\ h.conn = strm[s].conn /\ h.wire = strm[s].wire /\ h.wake = strm[s].wake
        /\ h.detached = strm[s].detached /\ h.members = ms
    BY <2>1, <2>4 DEF StrmStates
  <2>6. strm' = [strm EXCEPT ![s] = h] BY <1>7, <2>1, <2>3, <2>4 DEF StrmStates
  <2>7. strm' \in [Streams -> StrmStates] /\ strm'[s] = h /\ \A t \in Streams : t # s => strm'[t] = strm[t]
    BY <2>1, <2>6
  <2>8. \A t \in Streams : /\ strm'[t].pc = strm[t].pc /\ strm'[t].todo = strm[t].todo
                           /\ strm'[t].wake = strm[t].wake
    BY <2>5, <2>7
  <2>9. \A t \in Streams, x \in Peers :
          strm'[t].members[x] = IF t = s /\ x = p THEN None ELSE strm[t].members[x]
    BY <2>1, <2>3, <2>5, <2>7
  <2>10. \A t \in Streams : Touched(strm'[t], strm[t]) BY <2>5, <2>7 DEF Touched
  <2>11. PICK l \in BOOLEAN : l = NotAttached(a)
    <3>1. NotAttached(a) \in BOOLEAN BY DEF NotAttached
    <3> QED BY <3>1, Zenon
  <2>12. PICK q \in PutStates : q = [put[a] EXCEPT !.late = l] BY <2>1 DEF PutStates
  <2>13. /\ q.pc = put[a].pc /\ q.conn = put[a].conn /\ q.stream = put[a].stream /\ q.rec = put[a].rec
         /\ q.reply = put[a].reply /\ q.prev = put[a].prev /\ q.late = l
    BY <2>1, <2>12 DEF PutStates
  <2>14. put' = [put EXCEPT ![a] = q] BY <1>7, <2>1, <2>11, <2>12
  <2>15. put' \in [Puts -> PutStates] /\ put'[a] = q /\ \A b \in Puts : b # a => put'[b] = put[b]
    BY <2>1, <2>14
  <2>16. \A b \in Puts :
           /\ put'[b].pc = put[b].pc /\ put'[b].conn = put[b].conn /\ put'[b].stream = put[b].stream
           /\ put'[b].rec = put[b].rec /\ put'[b].reply = put[b].reply /\ put'[b].prev = put[b].prev
           /\ put[b].late => put'[b].late
           /\ put'[b].late => put[b].late \/ (b = a /\ NotAttached(a))
    BY <2>2, <2>11, <2>13, <2>15
  <2>17. \A b \in Puts : (Entered(b)' <=> Entered(b)) /\ (NotAttached(b)' <=> NotAttached(b))
    BY <2>16 DEF Entered, NotAttached
  <2>18. /\ del' \in [Conns -> DelStates] /\ del'[c].pc = "detach" /\ del'[c].att = a
         /\ \A b \in Conns : b # c => del'[b] = del[b]
    <3>1. PICK d \in DelStates : d = [pc |-> "detach", stream |-> None, att |-> a]
      BY <2>1 DEF DelStates
    <3> QED BY <1>7, <2>1, <3>1
  <2>19. lost' \subseteq Peers \X Streams BY <1>7, <2>1
  <2>20. Types' BY <1>0, <1>1, <2>7, <2>15, <2>18, <2>19 DEF Types, client
  <2>21. \A b : PeerOf(b)' = PeerOf(b) BY <1>0, <1>2, CallsKept
  <2>22. PutInv'
    <3>1. Opened' = Opened BY <1>1, <1>2 DEF Opened, SameCalls, client
    <3>2. \A b \in Puts : put'[b].late => Entered(b)
      BY <1>0, <2>2, <2>16 DEF PutInv
    <3> QED BY <1>0, <1>1, <2>16, <2>17, <2>21, <3>1, <3>2 DEF PutInv, PeerOf
  <2>23. RecordInv'
    <3>1. \A r \in Records : rec[r].att \in Puts =>
            /\ Entered(rec[r].att) /\ ~NotAttached(rec[r].att)
            /\ put'[rec[r].att].rec = r
      BY <2>16 DEF MuxInv, RecordInv
    <3>2. \A r \in Records, b \in Puts : b = rec[r].att =>
            Entered(b)' /\ ~NotAttached(b)' /\ put'[b].rec = r
      BY <2>17, <3>1
    <3> QED BY <1>1, <3>2 DEF RecordInv, MuxInv, Entered, NotAttached
  <2>24. EnteredKept({}) BY <2>16, <2>17 DEF EnteredKept
  <2>25. \A t \in Streams, x \in Peers : strm'[t].members[x] # None =>
           /\ strm'[t].members[x] = strm[t].members[x]
           /\ strm[t].members[x] \in Puts /\ strm[t].members[x] # a
    <3> SUFFICES ASSUME NEW t \in Streams, NEW x \in Peers, strm'[t].members[x] # None
                 PROVE  /\ strm'[t].members[x] = strm[t].members[x]
                        /\ strm[t].members[x] \in Puts /\ strm[t].members[x] # a
      OBVIOUS
    <3>1. strm'[t].members[x] = strm[t].members[x] /\ ~(t = s /\ x = p) BY <2>9
    <3>2. strm[t].members \in [Peers -> Puts \cup {None}] BY <1>0 DEF Types, StrmStates
    <3>3. PICK b \in Puts : b = strm[t].members[x] BY <3>1, <3>2
    <3>4. put[b].stream = t /\ PeerOf(put[b].conn) = x BY <3>1, <3>3 DEF MuxInv, MemberInv
    <3> QED BY <2>2, <3>1, <3>3, <3>4
  <2>26. MembersCome
    <3> SUFFICES ASSUME NEW t \in Streams, NEW x \in Peers, NEW b, b = strm'[t].members[x], b # None
                 PROVE  b = strm[t].members[x] /\ ~put'[b].late
      BY DEF MembersCome
    <3>1. b = strm[t].members[x] /\ b \in Puts /\ b # a BY <2>25
    <3>2. ~put[b].late BY <3>1 DEF MuxInv, MemberInv
    <3> QED BY <2>16, <3>1, <3>2
  <2>27. PutsGoOn
    <3> SUFFICES ASSUME NEW b \in Puts, NotAttached(b)', ~put'[b].late,
                        strm[put[b].stream].members[PeerOf(put[b].conn)] = b
                 PROVE  strm'[put[b].stream].members[PeerOf(put[b].conn)] = b
      BY <2>16, <2>17 DEF PutsGoOn
    <3>1. NotAttached(b) /\ Entered(b) BY <2>17 DEF NotAttached, Entered
    <3>2. put[b].stream \in Streams /\ PeerOf(put[b].conn) \in Peers
      BY <1>0, <3>1, EnteredFact, PeerOfOpened
    <3>3. b # a BY <2>11, <2>13, <2>15, <3>1
    <3> QED BY <1>5, <2>9, <3>2, <3>3
  <2>28. MemberInv' /\ SnapshotInv' /\ EnteredInv'
    <3>1. {} \in SUBSET Puts /\ UNCHANGED client BY <1>1
    <3> QED BY <1>0, <1>2, <2>10, <2>24, <2>26, <2>27, <3>1, RequestStep
  <2>29. AttachmentOwned'
    <3> SUFFICES ASSUME NEW r \in Records, NEW b \in Puts, b = rec[r].att
                 PROVE  \/ strm'[put'[b].stream].members[rec[r].peer] = b
                        \/ strm'[put'[b].stream].pc = "detach" /\ b \in strm'[put'[b].stream].todo
                        \/ strm'[put'[b].stream].pc \notin Serving /\ put'[b].pc = "recheck"
                        \/ \E x \in Conns : del'[x].pc = "detach" /\ del'[x].att = b
                        \/ \E x \in Puts : NotAttached(x)' /\ put'[x].rec = r
                        \/ \E x \in Puts : put'[x].pc = "swap" /\ put'[x].prev = b
                        \/ put'[b].late
      BY <1>1 DEF AttachmentOwned, Owned, NotAttached
    <3>1. CASE b = a BY <2>18, <3>1
    <3>2. CASE b # a
      <4>1. put[b].stream \in Streams /\ rec[r].peer \in Peers BY <1>0, AttachedFact DEF ServerInv
      <4>2. \/ strm[put[b].stream].members[rec[r].peer] = b
            \/ strm[put[b].stream].pc = "detach" /\ b \in strm[put[b].stream].todo
            \/ strm[put[b].stream].pc \notin Serving /\ put[b].pc = "recheck"
            \/ \E x \in Conns : del[x].pc = "detach" /\ del[x].att = b
            \/ \E x \in Puts : NotAttached(x) /\ put[x].rec = r
            \/ \E x \in Puts : put[x].pc = "swap" /\ put[x].prev = b
            \/ put[b].late
        BY DEF MuxInv, AttachmentOwned, Owned
      <4>3. strm[put[b].stream].members[rec[r].peer] = b => strm'[put[b].stream].members[rec[r].peer] = b
        BY <1>5, <2>9, <3>2, <4>1
      <4>4. \A x \in Conns : del[x].pc = "detach" => del'[x] = del[x] BY <1>1, <2>18
      <4>5. \A x \in Puts : NotAttached(x) /\ put[x].rec = r => NotAttached(x)' /\ put'[x].rec = r
        BY <2>16, <2>17
      <4>6. \A x \in Puts : put[x].pc = "swap" /\ put[x].prev = b => put'[x].pc = "swap" /\ put'[x].prev = b
        BY <2>16
      <4>7. put'[b] = put[b] BY <2>15, <3>2
      <4>8. PICK t \in Streams : t = put[b].stream BY <4>1
      <4>9. strm'[t].pc = strm[t].pc /\ strm'[t].todo = strm[t].todo BY <2>8
      <4>10. CASE \E x \in Puts : NotAttached(x) /\ put[x].rec = r BY <4>5, <4>10
      <4>11. CASE \E x \in Puts : put[x].pc = "swap" /\ put[x].prev = b BY <4>6, <4>11
      <4>12. CASE \E x \in Conns : del[x].pc = "detach" /\ del[x].att = b BY <4>4, <4>12
      <4>13. CASE \/ strm[t].members[rec[r].peer] = b
                  \/ strm[t].pc = "detach" /\ b \in strm[t].todo
                  \/ strm[t].pc \notin Serving /\ put[b].pc = "recheck"
                  \/ put[b].late
        BY <4>3, <4>7, <4>8, <4>9, <4>13
      <4> QED BY <4>2, <4>8, <4>10, <4>11, <4>12, <4>13
    <3> QED BY <3>1, <3>2
  <2>30. MemberWoken'
    <3> SUFFICES ASSUME NEW r \in Records, NEW b \in Puts, b = rec[r].att, rec[r].unsent,
                        strm'[put'[b].stream].pc \in Serving,
                        strm'[put'[b].stream].members[rec[r].peer] = b
                 PROVE  \/ strm'[put'[b].stream].wake
                        \/ strm'[put'[b].stream].pc = "take" /\ b \in strm'[put'[b].stream].todo
                        \/ put'[b].pc = "recheck" \/ rec[r].poke = b
      BY <1>1 DEF MemberWoken
    <3>1. PICK t \in Streams : t = put[b].stream BY <1>0, AttachedFact DEF ServerInv
    <3>2. rec[r].peer \in Peers BY <1>0, AttachedFact DEF ServerInv
    <3>3. put'[b].stream = t /\ put'[b].pc = put[b].pc BY <2>16, <3>1
    <3>4. strm[t].members[rec[r].peer] = b /\ strm[t].pc \in Serving
      BY <2>8, <2>25, <3>1, <3>2, <3>3, NoneApart
    <3>5. \/ strm[t].wake
          \/ strm[t].pc = "take" /\ b \in strm[t].todo
          \/ put[b].pc = "recheck" \/ rec[r].poke = b
      BY <3>1, <3>4 DEF MuxInv, MemberWoken
    <3> QED BY <2>8, <3>1, <3>3, <3>5
  <2>31. ServerInv' BY <2>22, <2>23, <2>28, <2>29, <2>30 DEF ServerInv
  <2>32. SameRequests
    <3>1. \A b \in Puts : put[b].pc # "none" => put'[b].pc # "none" /\ put'[b].conn = put[b].conn
      BY <2>16
    <3> QED BY <1>1, <2>18, <3>1 DEF SameRequests
  <2>33. /\ \A b \in Puts : put'[b].pc \in Going \/ Entered(b)' =>
              (put[b].pc \in Going \/ Entered(b)) /\ put'[b].stream = put[b].stream
         /\ \A b \in Puts : Entered(b)' => Entered(b)
    BY <2>16, <2>17
  <2>34. \A t \in Streams, x \in Peers : strm[t].members[x] # None =>
           strm'[t].members[x] # None \/ reg[x] = None \/ <<x, t>> \in lost'
    BY <1>7, <2>9
  <2>35. UNCHANGED client /\ LostKept /\ srv'.muxes = srv.muxes /\ srv'.doomed = srv.doomed
    BY <1>1, <1>7 DEF LostKept
  <2> QED BY <1>2, <2>10, <2>20, <2>31, <2>32, <2>33, <2>34, <2>35, RequestKeeps
<1>8. \/ LeaveLost(c)
      \/ /\ a # None
         /\ strm' = [strm EXCEPT ![s].members[p] = None]
         /\ del' = [del EXCEPT ![c] = [pc |-> "detach", stream |-> None, att |-> a]]
         /\ put' = [put EXCEPT ![a].late = NotAttached(a)]
         /\ lost' = lost \cup {<<p, s>>}
  BY <1>3, <1>4, <1>5 DEF LeaveMember, LeaveLost
<1> QED BY <1>6, <1>7, <1>8

-----------------------------------------------------------------------------
(* The client's steps.                                                     *)

\* The client lets go of a stream's connection, or leaves the stream as it is.
HeldStream(g, h) ==
  /\ KeptStream(g, h)
  /\ \/ g.conn = "cut"
     \/ g.pc \in {h.pc, "request"} /\ g.conn = h.conn /\ g.wire = h.wire

SameStreams ==
  /\ UNCHANGED <<put, rec, srv>>
  /\ \A s \in Streams : HeldStream(strm'[s], strm[s])

LEMMA CutHolds ==
  ASSUME Types, NEW s \in Streams \cup {None}, strm' = Cut(s), UNCHANGED <<put, rec, srv>>
  PROVE  SameStreams /\ strm' \in [Streams -> StrmStates]
<1>1. \A t \in Streams : SameStream(strm'[t], strm[t]) BY CutFact
<1>2. \A t \in Streams : strm'[t] = strm[t] \/ strm'[t].conn = "cut" BY CutFact
<1>3. \A t \in Streams : HeldStream(strm'[t], strm[t])
  BY <1>1, <1>2 DEF HeldStream, KeptStream, SameStream
<1>4. strm' \in [Streams -> StrmStates] BY CutFact
<1> QED BY <1>3, <1>4 DEF SameStreams

LEMMA StreamsHold ==
  ASSUME Types, UNCHANGED <<strm, put, rec, srv>> PROVE SameStreams /\ strm' \in [Streams -> StrmStates]
<1>1. \A t \in Streams : HeldStream(strm'[t], strm[t]) BY DEF HeldStream, KeptStream
<1> QED BY <1>1 DEF SameStreams, Types

LEMMA HeldTells ==
  ASSUME SameStreams, NEW s \in Streams, NEW p, Tells(strm[s], srv.muxes, p)
  PROVE  Tells(strm'[s], srv'.muxes, p)
<1>1. HeldStream(strm'[s], strm[s]) /\ srv' = srv BY DEF SameStreams
<1> QED BY <1>1 DEF HeldStream, KeptStream, Tells

\* Nobody is registered who was not, but for a new connection; who joins now did so
\* before.
ToldGoesOn ==
  /\ ses'.pc \in OnStream => ses.pc \in OnStream /\ ses'.stream = ses.stream
  /\ ses'.pc = "put" => ses.pc = "put" /\ ses'.put = ses.put
  /\ \A c \in Conns : conn'[c].stream \in {None, conn[c].stream}
  /\ \A c \in Registered' : c \in Registered \/ (c \notin Opened /\ conn'[c].stream = None)

LEMMA ClientStep ==
  ASSUME MuxInv, Types', ClientInv', StreamInv', SameStreams, SameCalls, lost' = lost,
         Opened \subseteq Opened',
         \A c \in Conns : del[c].pc = "detach" => del'[c] = del[c],
         ToldGoesOn
  PROVE  MuxInv'
<1>0. Types /\ PutInv /\ ServerInv BY DEF MuxInv, ServerInv
<1>1. SameServer BY DEF SameStreams, SameServer, HeldStream
<1>2. ServerInv' BY <1>0, <1>1, ServerFrame
<1>3. \A c : PeerOf(c)' = PeerOf(c) BY <1>0, CallsKept
<1>4. put' = put /\ srv' = srv BY DEF SameStreams
<1>5. ASSUME NEW c, ServedOrTold(c), ses'.pc \in OnStream PROVE ServedOrTold(c)'
  <2>1. PICK s \in Streams : s = ses.stream /\ s = ses'.stream
    BY <1>5 DEF ToldGoesOn, MuxInv, SessionInv
  <2>2. Tells(strm'[s], srv'.muxes, PeerOf(c)) BY <1>5, <2>1, ServedTells, HeldTells
  <2> QED BY <1>3, <2>1, <2>2 DEF ServedOrTold, Tells
<1>6. Registered' \subseteq Conns
  <2>1. reg' \in [Peers -> Conns \cup {None}] BY DEF Types
  <2> QED BY <2>1 DEF Registered
<1>7. JoinedOrTold'
  <2> SUFFICES ASSUME NEW c \in Registered', HasJoined(c)', <<PeerOf(c), mux.stream>>' \notin lost'
               PROVE  ServedOrTold(c)'
    BY DEF JoinedOrTold
  <2>1. mux'.stream # None /\ conn'[c].stream = mux'.stream BY DEF HasJoined
  <2>2. ses'.pc \in OnStream /\ mux'.stream = ses'.stream BY <2>1 DEF ClientInv, SessionInv
  <2>3. c \in Registered /\ conn'[c].stream = conn[c].stream BY <1>6, <2>1 DEF ToldGoesOn
  <2>4. mux.stream = mux'.stream BY <2>2 DEF ToldGoesOn, MuxInv, SessionInv
  <2>5. <<PeerOf(c), mux.stream>> \notin lost BY <1>3, <2>4
  <2>6. HasJoined(c) BY <2>1, <2>3, <2>4 DEF HasJoined
  <2>7. ServedOrTold(c) BY <2>3, <2>5, <2>6 DEF MuxInv, ToldInv, JoinedOrTold
  <2> QED BY <1>5, <2>2, <2>7
<1>8. JoiningTold'
  <2>1. SUFFICES ASSUME (/\ ses.pc = "put" /\ Entered(ses.put) /\ put[ses.put].conn \in Registered
                         /\ <<PeerOf(put[ses.put].conn), ses.stream>> \notin lost)'
                 PROVE  ServedOrTold(put[ses.put].conn)'
    BY DEF JoiningTold
  <2>2. ses.pc = "put" /\ ses'.put = ses.put /\ ses'.pc \in OnStream
    BY <2>1 DEF ToldGoesOn, OnStream
  <2>3. PICK a \in Puts : a = ses.put /\ put[a].pc # "none" BY <2>2 DEF MuxInv, SessionInv
  <2>4. Entered(a) BY <1>4, <2>1, <2>2, <2>3 DEF Entered
  <2>5. PICK c : c = put[a].conn OBVIOUS
  <2>6. c \in Opened BY <1>0, <2>3, <2>5 DEF PutInv
  <2>7. c \in Registered /\ <<PeerOf(c), ses.stream>> \notin lost
    <3>1. c \in Registered' /\ <<PeerOf(c)', ses'.stream>> \notin lost
      BY <1>4, <2>1, <2>2, <2>3, <2>5 DEF PeerOf
    <3> QED BY <1>3, <2>2, <2>6, <3>1 DEF ToldGoesOn
  <2>8. ServedOrTold(c) BY <2>2, <2>3, <2>4, <2>5, <2>7 DEF MuxInv, ToldInv, JoiningTold
  <2>9. ServedOrTold(c)' BY <1>5, <2>2, <2>8
  <2> QED BY <1>4, <2>2, <2>3, <2>5, <2>9 DEF ServedOrTold
<1> QED BY <1>2, <1>7, <1>8 DEF MuxInv, ServerInv, ClientInv, ToldInv

\* The stream that session has, when it keeps it or lets go of it.
SesGoesOn ==
  \/ ses'.pc \in {"off", "check", "backoff"}
  \/ ses'.pc = ses.pc /\ ses'.stream = ses.stream /\ ses'.put = ses.put
  \/ /\ ses.pc \in OnStream /\ ses'.stream = ses.stream
     /\ ses'.pc \in {"collect", "join", "select", "drain"}

LiveStreams ==
  /\ UNCHANGED <<put, srv>>
  /\ \A s \in Streams :
       /\ strm[s].pc # "none" => strm'[s].pc # "none"
       /\ strm[s].pc \notin {"none", "request"} => strm'[s].pc \notin {"none", "request"}
       /\ strm'[s].pc \in {"detach", "gone"} => strm'[s].conn # "up"

LEMMA LiveStreamsStay ==
  ASSUME MuxInv, LiveStreams, SesGoesOn,
         \A c \in Conns : conn'[c].stream \in {None, conn[c].stream},
         \A c \in Conns : conn'[c].pc = "none" => conn[c].pc = "none"
  PROVE  StreamInv'
<1>0. StreamInv /\ Types /\ SessionInv BY DEF MuxInv, ToldInv
<1>1. put' = put /\ srv' = srv BY DEF LiveStreams
<1>2. \A s \in Streams :
        /\ strm[s].pc # "none" => strm'[s].pc # "none"
        /\ strm[s].pc \notin {"none", "request"} => strm'[s].pc \notin {"none", "request"}
  BY DEF LiveStreams
<1>3. \A s \in Streams : strm'[s].pc \in {"detach", "gone"} => strm'[s].conn # "up"
  BY DEF LiveStreams
<1>4. \A c \in Conns : conn[c].stream # None => conn[c].stream \in Streams
  BY <1>0 DEF Types, ConnStates
<1>5. \A c \in Conns : conn'[c].stream # None => strm'[conn'[c].stream].pc # "none"
  BY <1>0, <1>2, <1>4 DEF StreamInv
<1>6. \A c \in Conns : conn'[c].pc = "none" => conn'[c].stream = None BY <1>0 DEF StreamInv
<1>7. ses'.pc = "dial" => strm'[ses'.stream].pc # "none"
  BY <1>0, <1>2 DEF SesGoesOn, StreamInv, SessionInv, Dialling
<1>8. ses'.pc \in {"hello", "drain"} \cup OnStream => strm'[ses'.stream].pc \notin {"none", "request"}
  BY <1>0, <1>2 DEF SesGoesOn, StreamInv, SessionInv, Dialling, OnStream
<1>9. ses'.pc \in Dialling => \A c \in Conns : conn'[c].stream # ses'.stream
  <2> SUFFICES ASSUME ses'.pc \in Dialling, NEW c \in Conns PROVE conn'[c].stream # ses'.stream
    OBVIOUS
  <2>1. ses.pc \in Dialling /\ ses'.stream = ses.stream BY DEF SesGoesOn, Dialling
  <2>2. ses.stream \in Streams BY <1>0, <2>1 DEF SessionInv
  <2> QED BY <1>0, <2>1, <2>2, NoneApart DEF StreamInv
<1>10. ASSUME ses'.pc = "put",
              put[ses'.put].pc \in Going \/ put[ses'.put].pc \in {"swap", "attach", "recheck"}
                \/ put[ses'.put].reply = "ok"
       PROVE  put[ses'.put].stream = ses'.stream
  <2>1. ses.pc = "put" /\ ses'.stream = ses.stream /\ ses'.put = ses.put BY <1>10 DEF SesGoesOn
  <2> QED BY <1>0, <1>10, <2>1 DEF StreamInv, Entered
<1>11. srv'.doomed # {} => srv'.muxes BY <1>0, <1>1 DEF StreamInv
<1> QED BY <1>1, <1>3, <1>5, <1>6, <1>7, <1>8, <1>9, <1>10, <1>11 DEF StreamInv, Entered

LEMMA StreamsStay ==
  ASSUME MuxInv, SameStreams, SesGoesOn,
         \A c \in Conns : conn'[c].stream \in {None, conn[c].stream},
         \A c \in Conns : conn'[c].pc = "none" => conn[c].pc = "none"
  PROVE  StreamInv'
<1>1. \A s \in Streams :
        /\ strm[s].pc # "none" => strm'[s].pc # "none"
        /\ strm[s].pc \notin {"none", "request"} => strm'[s].pc \notin {"none", "request"}
  BY DEF SameStreams, HeldStream, KeptStream
<1>2. \A s \in Streams : strm'[s].pc \in {"detach", "gone"} => strm'[s].conn # "up"
  BY DEF MuxInv, ToldInv, StreamInv, SameStreams, HeldStream
<1>3. LiveStreams BY <1>1, <1>2 DEF LiveStreams, SameStreams
<1> QED BY <1>3, LiveStreamsStay

\* Connections that stay registered.
LEMMA RegShrinks ==
  ASSUME Types, RegInv, SameCalls, Opened \subseteq Opened',
         \A p \in Peers : reg'[p] # None => reg'[p] = reg[p] /\ conn'[reg[p]].pc # "over"
  PROVE  RegInv' /\ Registered' \subseteq Registered
<1>1. \A c : PeerOf(c)' = PeerOf(c) BY CallsKept
<1>2. RegInv'
  <2> SUFFICES ASSUME NEW p \in Peers, NEW c, c = reg'[p], c # None
               PROVE  c \in Opened' /\ PeerOf(c) = p /\ conn'[c].pc # "over"
    BY <1>1 DEF RegInv, PeerOf
  <2>1. c = reg[p] /\ conn'[c].pc # "over" OBVIOUS
  <2> QED BY <2>1 DEF RegInv
<1>3. Registered' \subseteq Registered BY DEF Registered
<1> QED BY <1>2, <1>3

LEMMA JoiningOpened ==
  ASSUME MuxInv PROVE /\ Joining \subseteq Opened /\ Joining \subseteq Conns
                      /\ Joining # {} => ses.pc \in {"join", "put"}
<1>1. ses.pc = "put" => put[ses.put].conn \in Opened BY DEF MuxInv, PutInv, SessionInv
<1> QED BY <1>1 DEF Joining, MuxInv, SessionInv, Opened

\* What the goroutine of run has to know, when others move: they have poked it, or the
\* Mux is closed, or nothing has changed for it.
LEMMA PendSame ==
  ASSUME MuxInv, ses' = ses, put' = put, Registered' \subseteq Registered,
         \/ mux'.kick \/ mux'.closed
         \/ /\ Registered' = Registered /\ mux' = mux
            /\ \A c \in Registered : /\ conn'[c].stream = conn[c].stream
                                     /\ conn[c].pc = "poke" => conn'[c].pc = "poke"
  PROVE  PendInv'
<1>1. ses.pc = "off" => Registered' = {} BY DEF MuxInv, PendInv, PendingNoticed
<1>2. CASE mux'.kick \/ mux'.closed BY <1>1, <1>2 DEF PendInv, PendingNoticed, JoinNoticed
<1>3. CASE /\ Registered' = Registered /\ mux' = mux
           /\ \A c \in Registered : /\ conn'[c].stream = conn[c].stream
                                    /\ conn[c].pc = "poke" => conn'[c].pc = "poke"
  <2>1. Joining' = Joining BY DEF Joining
  <2>2. JoinNoticed' BY <1>3, <2>1 DEF MuxInv, PendInv, JoinNoticed
  <2>3. PendingNoticed' BY <1>1, <1>3 DEF MuxInv, PendInv, PendingNoticed
  <2> QED BY <2>2, <2>3 DEF PendInv
<1> QED BY <1>2, <1>3

\* A step that the goroutine of run takes no part in.
LEMMA OthersClient ==
  ASSUME MuxInv, Types', put' = put, SameCalls, ses' = ses,
         rd'.pc # "off" => rd.pc # "off", rd'.pc = "inbox" => rd'.conn \in Conns,
         mux'.running = mux.running, mux'.stream = mux.stream,
         mux'.cancelled => mux'.closed, mux'.closed => Registered' = {},
         \A c \in Conns : conn'[c].closed /\ conn'[c].pc # "over" => mux'.closed,
         \A p \in Peers : reg'[p] # None => reg'[p] = reg[p] /\ conn'[reg[p]].pc # "over",
         \A c \in Conns : conn'[c].stream \in {None, conn[c].stream},
         \A c \in Conns : conn'[c].pc = "none" => conn[c].pc = "none",
         \A c \in Conns : del'[c] = del[c] \/ (/\ del'[c].pc = "sent" /\ del'[c].stream \in Streams
                                              /\ c \in Opened /\ c \notin Registered'
                                              /\ c \notin Joining /\ del[c].pc # "detach"),
         PendInv'
  PROVE  ClientInv' /\ Opened \subseteq Opened' /\ Registered' \subseteq Registered
<1>0. Types /\ RegInv BY DEF MuxInv
<1>1. Opened \subseteq Opened' BY DEF Opened, SameCalls
<1>2. RegInv' /\ Registered' \subseteq Registered BY <1>0, <1>1, RegShrinks
<1>4. Joining' = Joining BY DEF Joining
<1>5. SessionInv' BY <1>1 DEF MuxInv, SessionInv
<1>6. ClosedInv' BY DEF ClosedInv
<1>7. LeaveInv'
  <2>1. \A c \in Conns : del'[c].pc # "none" => c \in Opened' /\ c \notin Registered'
    BY <1>1, <1>2 DEF MuxInv, LeaveInv
  <2>2. \A c \in Conns : del'[c].pc = "sent" => del'[c].stream \in Streams
    BY DEF MuxInv, LeaveInv
  <2>3. ASSUME NEW c \in Joining PROVE conn'[c].stream # ses.stream /\ del'[c].pc = "none"
    <3>1. c \in Conns /\ ses.pc \in {"join", "put"} BY <2>3, JoiningOpened
    <3>2. ses.stream \in Streams BY <3>1 DEF MuxInv, SessionInv, OnStream
    <3>3. conn[c].stream # ses.stream /\ del[c].pc = "none" BY <2>3 DEF MuxInv, LeaveInv
    <3> QED BY <2>3, <3>1, <3>2, <3>3, NoneApart
  <2>4. ses.pc = "put" => put[ses.put].conn \notin ses.todo BY DEF MuxInv, LeaveInv
  <2> QED BY <1>4, <2>1, <2>2, <2>3, <2>4 DEF LeaveInv
<1>8. ClientInv' BY <1>2, <1>5, <1>6, <1>7 DEF ClientInv
<1> QED BY <1>1, <1>2, <1>8

LEMMA OthersKeep ==
  ASSUME MuxInv, Types', SameStreams, SameCalls, lost' = lost, ses' = ses,
         rd'.pc # "off" => rd.pc # "off", rd'.pc = "inbox" => rd'.conn \in Conns,
         mux'.running = mux.running, mux'.stream = mux.stream,
         mux'.cancelled => mux'.closed, mux'.closed => Registered' = {},
         \A c \in Conns : conn'[c].closed /\ conn'[c].pc # "over" => mux'.closed,
         \A p \in Peers : reg'[p] # None => reg'[p] = reg[p] /\ conn'[reg[p]].pc # "over",
         \A c \in Conns : conn'[c].stream \in {None, conn[c].stream},
         \A c \in Conns : conn'[c].pc = "none" => conn[c].pc = "none",
         \A c \in Conns : del'[c] = del[c] \/ (/\ del'[c].pc = "sent" /\ del'[c].stream \in Streams
                                              /\ c \in Opened /\ c \notin Registered'
                                              /\ c \notin Joining /\ del[c].pc # "detach"),
         PendInv'
  PROVE  MuxInv'
<1>1. put' = put BY DEF SameStreams
<1>2. ClientInv' /\ Opened \subseteq Opened' /\ Registered' \subseteq Registered BY <1>1, OthersClient
<1>3. StreamInv' BY StreamsStay DEF SesGoesOn
<1>4. ToldGoesOn BY <1>2 DEF ToldGoesOn
<1>5. \A c \in Conns : del[c].pc = "detach" => del'[c] = del[c] OBVIOUS
<1> QED BY <1>2, <1>3, <1>4, <1>5, ClientStep

LEMMA SameCallsStay == ASSUME Types, env' = env PROVE SameCalls
  BY DEF Types, SameCalls

\* One connection moves on.
LEMMA ConnSet ==
  ASSUME Types, NEW c \in Conns, NEW x \in ConnStates, conn' = [conn EXCEPT ![c] = x]
  PROVE  /\ conn' \in [Conns -> ConnStates] /\ conn'[c] = x
         /\ \A b \in Conns : b # c => conn'[b] = conn[b]
  BY DEF Types

LEMMA RegisteredConns == ASSUME Types PROVE Registered \subseteq Conns
  BY DEF Types, Registered

LEMMA OpenPokesKeeps == ASSUME MuxInv, NEW c \in Conns, OpenPokes(c) PROVE MuxInv'
<1>0. Types /\ conn[c] \in ConnStates /\ mux \in MuxStates BY DEF MuxInv, Types
<1>1. UNCHANGED <<reg, ses, rd, strm, put, del, rec, srv, env, lost>> /\ conn[c].pc = "poke"
  BY DEF OpenPokes, server
<1>2. PICK x \in ConnStates : x = [conn[c] EXCEPT !.pc = "wait"] BY <1>0 DEF ConnStates
<1>3. x.pc = "wait" /\ x.closed = conn[c].closed /\ x.stream = conn[c].stream
  BY <1>0, <1>2 DEF ConnStates
<1>4. conn' = [conn EXCEPT ![c] = x] BY <1>0, <1>2 DEF OpenPokes
<1>5. /\ conn' \in [Conns -> ConnStates] /\ conn'[c] = x
      /\ \A b \in Conns : b # c => conn'[b] = conn[b]
  BY <1>0, <1>4, ConnSet
<1>6. /\ mux' \in MuxStates /\ mux'.kick = TRUE /\ mux'.running = mux.running
      /\ mux'.closed = mux.closed /\ mux'.cancelled = mux.cancelled /\ mux'.stream = mux.stream
  BY <1>0 DEF OpenPokes, MuxStates
<1>7. Types' BY <1>0, <1>1, <1>5, <1>6 DEF Types
<1>8. SameStreams /\ SameCalls BY <1>0, <1>1, StreamsHold, SameCallsStay
<1>9. Registered' = Registered BY <1>1 DEF Registered
<1>10. PendInv' BY <1>1, <1>6, <1>9, PendSame
<1>11. /\ \A b \in Conns : conn'[b].closed /\ conn'[b].pc # "over" => mux'.closed
       /\ mux'.cancelled => mux'.closed
       /\ mux'.closed => Registered' = {}
  BY <1>1, <1>3, <1>5, <1>6, <1>9 DEF MuxInv, ClosedInv
<1>12. \A p \in Peers : reg'[p] # None => reg'[p] = reg[p] /\ conn'[reg[p]].pc # "over"
  <2> SUFFICES ASSUME NEW p \in Peers, reg[p] # None PROVE conn'[reg[p]].pc # "over"
    BY <1>1
  <2>1. reg[p] \in Conns /\ conn[reg[p]].pc # "over" BY DEF MuxInv, RegInv, Opened
  <2> QED BY <1>3, <1>5, <2>1
<1>13. \A b \in Conns : conn'[b].stream \in {None, conn[b].stream}
                        /\ (conn'[b].pc = "none" => conn[b].pc = "none")
  BY <1>3, <1>5
<1>14. rd'.pc = "inbox" => rd'.conn \in Conns BY <1>1 DEF MuxInv, SessionInv
<1> QED BY <1>1, <1>6, <1>7, <1>8, <1>10, <1>11, <1>12, <1>13, <1>14, OthersKeep

\* A connection ends, is removed, and may leave its stream.
LEMMA OverKeeps ==
  ASSUME MuxInv, NEW c \in Conns,
         conn' = [conn EXCEPT ![c] = Over], reg' = RegWithout(c), mux' = Kicked(c),
         del' = del \/ del' = Leave(c, StreamOf(c)),
         UNCHANGED <<ses, rd, strm, put, rec, srv, env, lost>>
  PROVE  MuxInv'
<1>0. Types /\ RegInv BY DEF MuxInv
<1>1. Over \in ConnStates /\ Over.pc = "over" /\ Over.stream = None BY NewRecordTypes
<1>2. /\ conn' \in [Conns -> ConnStates] /\ conn'[c].pc = "over" /\ conn'[c].stream = None
      /\ \A b \in Conns : b # c => conn'[b] = conn[b]
  BY <1>0, <1>1, ConnSet
<1>3. /\ reg' \in [Peers -> Conns \cup {None}]
      /\ \A p \in Peers : reg'[p] = IF reg[p] = c THEN None ELSE reg[p]
  BY <1>0, RegWithoutFact
<1>4. /\ mux' \in MuxStates /\ mux'.running = mux.running /\ mux'.closed = mux.closed
      /\ mux'.cancelled = mux.cancelled /\ mux'.stream = mux.stream
      /\ c \in Registered => mux'.kick = TRUE
  BY <1>0, KickedFact
<1>5. Registered' \subseteq Registered /\ c \notin Registered'
  BY <1>3, NoneApart DEF Registered
<1>6. c \notin Registered => Registered' = Registered /\ mux' = mux
  BY DEF RegWithout, Kicked, Registered
<1>7. PICK s \in Streams \cup {None} : s = StreamOf(c)
  BY <1>0 DEF StreamOf, Types, MuxStates
<1>8. s # None => c \in Registered /\ conn[c].stream = mux.stream /\ mux.stream # None
  BY <1>7 DEF StreamOf
<1>9. /\ del' \in [Conns -> DelStates] /\ \A b \in Conns : b # c => del'[b] = del[b]
      /\ del'[c] = del[c] \/ (s \in Streams /\ del'[c].pc = "sent" /\ del'[c].stream = s)
  <2>1. CASE del' = del BY <1>0, <2>1 DEF Types
  <2>2. CASE del' = Leave(c, StreamOf(c)) BY <1>0, <1>7, <2>2, LeaveFact
  <2> QED BY <2>1, <2>2
<1>10. s # None => c \notin Joining /\ del[c].pc # "detach" /\ c \in Opened
  <2>1. s # None => del[c].pc = "none" BY <1>8 DEF MuxInv, LeaveInv
  <2>2. s # None => conn[c].stream = ses.stream BY <1>8 DEF MuxInv, SessionInv
  <2>3. s # None => c \in Opened BY <1>8 DEF Registered, MuxInv, RegInv
  <2> QED BY <2>1, <2>2, <2>3 DEF MuxInv, LeaveInv
<1>11. Types' BY <1>0, <1>2, <1>3, <1>4, <1>9 DEF Types
<1>12. SameStreams /\ SameCalls BY <1>0, StreamsHold, SameCallsStay
<1>13. PendInv'
  <2>1. CASE c \in Registered BY <1>4, <1>5, <2>1, PendSame
  <2>2. CASE c \notin Registered
    <3>1. \A b \in Registered : conn'[b] = conn[b] BY <1>0, <1>2, <2>2, RegisteredConns
    <3> QED BY <1>6, <2>2, <3>1, PendSame
  <2> QED BY <2>1, <2>2
<1>14. /\ \A b \in Conns : conn'[b].closed /\ conn'[b].pc # "over" => mux'.closed
       /\ mux'.cancelled => mux'.closed
       /\ mux'.closed => Registered' = {}
  BY <1>2, <1>4, <1>5 DEF MuxInv, ClosedInv
<1>15. \A p \in Peers : reg'[p] # None => reg'[p] = reg[p] /\ conn'[reg[p]].pc # "over"
  <2> SUFFICES ASSUME NEW p \in Peers, reg'[p] # None
               PROVE  reg'[p] = reg[p] /\ conn'[reg[p]].pc # "over"
    OBVIOUS
  <2>1. reg'[p] = reg[p] /\ reg[p] # c BY <1>3
  <2>2. reg[p] \in Conns /\ conn[reg[p]].pc # "over" BY <1>0, <2>1 DEF RegInv, Opened
  <2> QED BY <1>2, <2>1, <2>2
<1>16. \A b \in Conns : conn'[b].stream \in {None, conn[b].stream}
                        /\ (conn'[b].pc = "none" => conn[b].pc = "none")
  BY <1>2
<1>17. rd'.pc = "inbox" => rd'.conn \in Conns BY DEF MuxInv, SessionInv
<1>18. \A b \in Conns : del'[b] = del[b] \/ (/\ del'[b].pc = "sent" /\ del'[b].stream \in Streams
                                            /\ b \in Opened /\ b \notin Registered'
                                            /\ b \notin Joining /\ del[b].pc # "detach")
  BY <1>5, <1>9, <1>10, NoneApart
<1> QED BY <1>4, <1>11, <1>12, <1>13, <1>14, <1>15, <1>16, <1>17, <1>18, OthersKeep


LEMMA OpenReturnsKeeps == ASSUME MuxInv, NEW c \in Conns, OpenReturns(c) PROVE MuxInv'
<1>0. Types /\ conn[c] \in ConnStates BY DEF MuxInv, Types
<1>1. UNCHANGED <<ses, rd, strm, put, del, rec, srv, env, lost>> /\ conn[c].pc = "wait"
  BY DEF OpenReturns, server
<1>2. CASE conn' = [conn EXCEPT ![c].pc = "open"] /\ UNCHANGED <<reg, mux>>
  <2>1. PICK x \in ConnStates : x = [conn[c] EXCEPT !.pc = "open"] BY <1>0 DEF ConnStates
  <2>2. x.pc = "open" /\ x.closed = conn[c].closed /\ x.stream = conn[c].stream
    BY <1>0, <2>1 DEF ConnStates
  <2>3. conn' = [conn EXCEPT ![c] = x] BY <1>0, <1>2, <2>1
  <2>4. /\ conn' \in [Conns -> ConnStates] /\ conn'[c] = x
        /\ \A b \in Conns : b # c => conn'[b] = conn[b]
    BY <1>0, <2>3, ConnSet
  <2>5. Types' BY <1>0, <1>1, <1>2, <2>4 DEF Types
  <2>6. SameStreams /\ SameCalls BY <1>0, <1>1, StreamsHold, SameCallsStay
  <2>7. Registered' = Registered /\ Registered \subseteq Conns
    BY <1>0, <1>2, RegisteredConns DEF Registered
  <2>8. \A b \in Conns : /\ conn'[b].stream = conn[b].stream /\ conn'[b].closed = conn[b].closed
                         /\ conn[b].pc = "poke" => conn'[b].pc = "poke"
                         /\ conn[b].pc # "over" => conn'[b].pc # "over"
                         /\ conn'[b].pc = "none" => conn[b].pc = "none"
                         /\ conn'[b].pc # "over" => conn[b].pc # "over"
    BY <1>1, <2>2, <2>4
  <2>9. PendInv'
    <3>1. \A b \in Registered : /\ conn'[b].stream = conn[b].stream
                                /\ conn[b].pc = "poke" => conn'[b].pc = "poke"
      BY <2>7, <2>8
    <3> QED BY <1>1, <1>2, <2>7, <3>1, PendSame
  <2>10. /\ \A b \in Conns : conn'[b].closed /\ conn'[b].pc # "over" => mux'.closed
         /\ mux'.cancelled => mux'.closed
         /\ mux'.closed => Registered' = {}
    BY <1>2, <2>7, <2>8 DEF MuxInv, ClosedInv
  <2>11. \A p \in Peers : reg'[p] # None => reg'[p] = reg[p] /\ conn'[reg[p]].pc # "over"
    <3>1. \A p \in Peers : reg[p] # None => reg[p] \in Conns /\ conn[reg[p]].pc # "over"
      BY DEF MuxInv, RegInv, Opened
    <3> QED BY <1>2, <2>8, <3>1
  <2>12. \A b \in Conns : conn'[b].stream \in {None, conn[b].stream}
                          /\ (conn'[b].pc = "none" => conn[b].pc = "none")
    BY <2>8
  <2>13. rd'.pc = "inbox" => rd'.conn \in Conns BY <1>1 DEF MuxInv, SessionInv
  <2> QED BY <1>1, <1>2, <2>5, <2>6, <2>9, <2>10, <2>11, <2>12, <2>13, OthersKeep
<1>3. CASE conn' = [conn EXCEPT ![c] = Over] /\ reg' = RegWithout(c) /\ mux' = Kicked(c)
  BY <1>1, <1>3, OverKeeps
<1>4. CASE conn[c].closed /\ conn' = [conn EXCEPT ![c] = Over] /\ UNCHANGED <<reg, mux>>
  <2>1. c \notin Registered BY <1>1, <1>4 DEF MuxInv, ClosedInv
  <2>2. reg' = RegWithout(c) /\ mux' = Kicked(c) BY <1>4, <2>1 DEF RegWithout, Kicked
  <2> QED BY <1>1, <1>4, <2>2, OverKeeps
<1> QED BY <1>2, <1>3, <1>4 DEF OpenReturns

LEMMA CloseKeeps == ASSUME MuxInv, NEW c \in Conns, Close(c) PROVE MuxInv'
<1>1. /\ conn' = [conn EXCEPT ![c] = Over] /\ reg' = RegWithout(c) /\ mux' = Kicked(c)
      /\ del' = Leave(c, StreamOf(c)) /\ UNCHANGED <<ses, rd, strm, put, rec, srv, env, lost>>
  BY DEF Close
<1> QED BY <1>1, OverKeeps

LEMMA MuxCloseKeeps == ASSUME MuxInv, MuxClose PROVE MuxInv'
<1>0. Types /\ mux \in MuxStates BY DEF MuxInv, Types
<1>1. UNCHANGED <<conn, ses, rd, strm, put, del, rec, srv, lost>> /\ Happens("close")
  BY DEF MuxClose, server
<1>2. SameCalls BY <1>0, <1>1, HappensKeepsCalls DEF Kinds
<1>3. /\ mux' \in MuxStates /\ mux'.running = mux.running /\ mux'.closed = TRUE
      /\ mux'.stream = mux.stream
  <2>1. Registered \in SUBSET Conns BY <1>0, RegisteredConns
  <2> QED BY <1>0, <2>1 DEF MuxClose, MuxStates
<1>4. /\ reg' \in [Peers -> Conns \cup {None}] /\ \A p \in Peers : reg'[p] = None BY DEF MuxClose
<1>5. Registered' = {} BY <1>4 DEF Registered
<1>6. Types' BY <1>0, <1>1, <1>2, <1>3, <1>4, CallsKept DEF Types
<1>7. SameStreams BY <1>0, <1>1, StreamsHold
<1>8. PendInv' BY <1>1, <1>3, <1>5, PendSame
<1>9. rd'.pc = "inbox" => rd'.conn \in Conns BY <1>1 DEF MuxInv, SessionInv
<1> QED BY <1>1, <1>2, <1>3, <1>4, <1>5, <1>6, <1>7, <1>8, <1>9, OthersKeep

LEMMA ReceivingFact ==
  ASSUME Types, NEW s \in Streams \cup {None} PROVE Receiving(s) \in Streams \cup {None}
<1>1. rd.fresh \in Streams \cup {None} BY DEF Types, RdStates
<1> QED BY <1>1 DEF Receiving

LEMMA MuxCancelKeeps == ASSUME MuxInv, MuxCancel PROVE MuxInv'
<1>0. Types /\ mux \in MuxStates /\ conn \in [Conns -> ConnStates] BY DEF MuxInv, Types
<1>1. UNCHANGED <<reg, ses, rd, put, del, rec, srv, env, lost>> /\ mux.closed BY DEF MuxCancel
<1>2. SameCalls BY <1>0, <1>1, SameCallsStay
<1>3. /\ mux' \in MuxStates /\ mux'.running = mux.running /\ mux'.closed = TRUE
      /\ mux'.stream = mux.stream
  BY <1>0, <1>1 DEF MuxCancel, MuxStates
<1>4. Receiving(mux.rcv) \in Streams \cup {None}
  <2>1. mux.rcv \in Streams \cup {None} BY <1>0 DEF MuxStates
  <2> QED BY <1>0, <2>1, ReceivingFact
<1>5. SameStreams /\ strm' \in [Streams -> StrmStates]
  BY <1>0, <1>1, <1>4, CutHolds DEF MuxCancel
<1>6. ASSUME NEW c \in Conns
      PROVE  /\ conn'[c] \in ConnStates /\ conn'[c].pc = conn[c].pc /\ conn'[c].stream = conn[c].stream
  <2>1. conn[c] \in ConnStates BY <1>0
  <2>2. conn'[c] = [conn[c] EXCEPT !.closed = TRUE] \/ conn'[c] = conn[c] BY DEF MuxCancel
  <2> QED BY <2>1, <2>2 DEF ConnStates
<1>7. conn' \in [Conns -> ConnStates]
  <2>1. conn' = [c \in Conns |-> conn'[c]] BY DEF MuxCancel
  <2> QED BY <1>6, <2>1
<1>8. Registered' = {} BY <1>1 DEF Registered, MuxInv, ClosedInv
<1>9. Types' BY <1>0, <1>1, <1>2, <1>3, <1>5, <1>7 DEF Types
<1>10. PendInv' BY <1>1, <1>3, <1>8, PendSame
<1>11. rd'.pc = "inbox" => rd'.conn \in Conns BY <1>1 DEF MuxInv, SessionInv
<1>12. \A p \in Peers : reg'[p] # None => reg'[p] = reg[p] /\ conn'[reg[p]].pc # "over"
  BY <1>8 DEF Registered
<1> QED BY <1>1, <1>2, <1>3, <1>5, <1>6, <1>8, <1>9, <1>10, <1>11, <1>12, OthersKeep

\* A step of the reader, of the connection that it reads from, or of nobody.
LEMMA ReaderMoves ==
  ASSUME MuxInv, UNCHANGED <<conn, reg, mux, ses, del, lost>>, SameStreams, SameCalls,
         strm' \in [Streams -> StrmStates], rd' \in RdStates,
         rd'.pc # "off" => rd.pc # "off", rd'.pc = "inbox" => rd'.conn \in Conns
  PROVE  MuxInv'
<1>0. Types BY DEF MuxInv
<1>1. put' = put /\ rec' = rec /\ srv' = srv BY DEF SameStreams
<1>2. Types'
  <2>1. env' \in EnvStates /\ Len(env'.calls) <= MaxConns BY <1>0, CallsKept
  <2> QED BY <1>0, <1>1, <2>1 DEF Types
<1>3. Registered' = Registered BY DEF Registered
<1>4. PendInv' BY <1>1, <1>3, PendSame
<1>5. /\ \A b \in Conns : conn'[b].closed /\ conn'[b].pc # "over" => mux'.closed
      /\ mux'.cancelled => mux'.closed
      /\ mux'.closed => Registered' = {}
  BY <1>3 DEF MuxInv, ClosedInv
<1>6. \A p \in Peers : reg'[p] # None => reg'[p] = reg[p] /\ conn'[reg[p]].pc # "over"
  BY DEF MuxInv, RegInv
<1> QED BY <1>2, <1>4, <1>5, <1>6, OthersKeep

LEMMA ReaderKeeps == ASSUME MuxInv, Received \/ GiveUp \/ ReadFails PROVE MuxInv'
<1>0. Types /\ rd \in RdStates BY DEF MuxInv, Types
<1>1. UNCHANGED <<conn, reg, mux, ses, strm, put, del, rec, srv, env, lost>> /\ rd.pc \in {"inbox", "read"}
  BY DEF Received, GiveUp, ReadFails, server
<1>2. rd' \in RdStates /\ rd'.pc \in {"read", "done"}
  <2>1. \/ rd' = [rd EXCEPT !.pc = "read", !.conn = None]
        \/ rd' = [rd EXCEPT !.pc = "done", !.conn = None]
        \/ rd' = [rd EXCEPT !.pc = "done"]
    BY DEF Received, GiveUp, ReadFails
  <2> QED BY <1>0, <2>1 DEF RdStates
<1>3. SameStreams /\ SameCalls /\ strm' \in [Streams -> StrmStates]
  BY <1>0, <1>1, StreamsHold, SameCallsStay
<1> QED BY <1>1, <1>2, <1>3, ReaderMoves

\* A stream that is asked for is none of those that the server has.
LEMMA AskedHolds ==
  ASSUME Types, NEW s \in Streams, strm[s].pc = "none",
         strm' = [strm EXCEPT ![s].pc = "request"], UNCHANGED <<put, rec, srv>>
  PROVE  SameStreams /\ strm' \in [Streams -> StrmStates]
<1>1. strm \in [Streams -> StrmStates] /\ strm[s] \in StrmStates BY DEF Types
<1>2. PICK h \in StrmStates : h = [strm[s] EXCEPT !.pc = "request"] BY <1>1 DEF StrmStates
<1>3. /\ h.pc = "request" /\ h.members = strm[s].members /\ h.detached = strm[s].detached
      /\ h.todo = strm[s].todo /\ h.wake = strm[s].wake /\ h.down = strm[s].down
      /\ h.conn = strm[s].conn /\ h.wire = strm[s].wire
  BY <1>1, <1>2 DEF StrmStates
<1>4. /\ strm' \in [Streams -> StrmStates] /\ strm'[s] = h
      /\ \A t \in Streams : t # s => strm'[t] = strm[t]
  BY <1>1, <1>2
<1>5. \A t \in Streams : HeldStream(strm'[t], strm[t]) BY <1>3, <1>4 DEF HeldStream, KeptStream
<1> QED BY <1>4, <1>5 DEF SameStreams

LEMMA ReconnectsKeeps == ASSUME MuxInv, Reconnects PROVE MuxInv'
<1>0. Types /\ rd \in RdStates BY DEF MuxInv, Types
<1>1. /\ UNCHANGED <<conn, reg, mux, ses, put, del, rec, srv, lost>> /\ Happens("again")
      /\ rd.pc = "read"
  BY DEF Reconnects
<1>2. PICK s \in Streams : /\ strm[s].pc = "none" /\ strm' = [strm EXCEPT ![s].pc = "request"]
                           /\ rd' = [rd EXCEPT !.fresh = s]
  BY DEF Reconnects
<1>3. SameStreams /\ strm' \in [Streams -> StrmStates] BY <1>0, <1>1, <1>2, AskedHolds
<1>4. SameCalls BY <1>0, <1>1, HappensKeepsCalls DEF Kinds
<1>5. rd' \in RdStates /\ rd'.pc = "read" BY <1>0, <1>1, <1>2 DEF RdStates
<1> QED BY <1>1, <1>3, <1>4, <1>5, ReaderMoves

LEMMA NetworkCutKeeps == ASSUME MuxInv, NEW s \in Streams, NetworkCut(s) PROVE MuxInv'
<1>0. Types /\ rd \in RdStates BY DEF MuxInv, Types
<1>1. /\ Happens("cut") /\ strm' = Cut(s)
      /\ UNCHANGED <<conn, reg, mux, ses, rd, put, del, rec, srv, lost>>
  BY DEF NetworkCut, client
<1>2. SameCalls BY <1>0, <1>1, HappensKeepsCalls DEF Kinds
<1>3. SameStreams /\ strm' \in [Streams -> StrmStates] BY <1>0, <1>1, CutHolds
<1>4. rd'.pc = "inbox" => rd'.conn \in Conns BY <1>1 DEF MuxInv, SessionInv
<1> QED BY <1>0, <1>1, <1>2, <1>3, <1>4, ReaderMoves

LEMMA OpenKeeps == ASSUME MuxInv, NEW c \in Conns, Open(c) PROVE MuxInv'
<1>0. /\ Types /\ RegInv /\ conn \in [Conns -> ConnStates] /\ conn[c] \in ConnStates
      /\ reg \in [Peers -> Conns \cup {None}] /\ mux \in MuxStates
  BY DEF MuxInv, Types
<1>1. UNCHANGED <<rd, strm, put, del, rec, srv, env, lost>> /\ conn[c].pc = "none" /\ c <= Len(env.calls)
  BY DEF Open, server
<1>2. c \notin Opened /\ c \notin Registered
  <2>1. c \notin Opened BY <1>1 DEF Opened
  <2> QED BY <1>0, <2>1 DEF Registered, RegInv
<1>3. CASE conn' = [conn EXCEPT ![c] = Over] /\ UNCHANGED <<reg, mux, ses>>
  <2>1. reg' = RegWithout(c) /\ mux' = Kicked(c) BY <1>2, <1>3 DEF RegWithout, Kicked
  <2> QED BY <1>1, <1>3, <2>1, OverKeeps
<1>4. CASE /\ ~mux.closed /\ reg[PeerOf(c)] = None
           /\ conn' = [conn EXCEPT ![c].pc = "poke"]
           /\ reg' = [reg EXCEPT ![PeerOf(c)] = c]
           /\ mux' = [mux EXCEPT !.running = TRUE]
           /\ ses' = IF mux.running THEN ses ELSE [Idle EXCEPT !.pc = "check"]
  <2>1. PICK p \in Peers : p = PeerOf(c)
    <3>1. env.calls \in Seq(Peers) BY <1>0 DEF Types, EnvStates
    <3>2. Len(env.calls) \in Nat /\ DOMAIN env.calls = 1 .. Len(env.calls) BY <3>1
    <3>3. c \in 1 .. Len(env.calls) BY <1>1, <3>2, MuxAssumption DEF Conns
    <3> QED BY <3>1, <3>3 DEF PeerOf
  <2>2. PICK x \in ConnStates : x = [conn[c] EXCEPT !.pc = "poke"] BY <1>0 DEF ConnStates
  <2>3. x.pc = "poke" /\ x.closed = conn[c].closed /\ x.stream = conn[c].stream
    BY <1>0, <2>2 DEF ConnStates
  <2>4. conn' = [conn EXCEPT ![c] = x] BY <1>0, <1>4, <2>2
  <2>5. /\ conn' \in [Conns -> ConnStates] /\ conn'[c] = x
        /\ \A b \in Conns : b # c => conn'[b] = conn[b]
    BY <1>0, <2>4, ConnSet
  <2>6. /\ reg' \in [Peers -> Conns \cup {None}] /\ reg'[p] = c
        /\ \A q \in Peers : q # p => reg'[q] = reg[q]
    BY <1>0, <1>4, <2>1
  <2>7. /\ mux' \in MuxStates /\ mux'.running = TRUE /\ mux'.closed = mux.closed /\ mux'.kick = mux.kick
        /\ mux'.cancelled = mux.cancelled /\ mux'.stream = mux.stream
    BY <1>0, <1>4 DEF MuxStates
  <2>8. /\ ses' \in SesStates
        /\ \/ ses.pc # "off" /\ ses' = ses
           \/ ses.pc = "off" /\ ses'.pc = "check" /\ ses'.todo = {}
    <3>1. mux.running <=> ses.pc # "off" BY DEF MuxInv, SessionInv
    <3>2. CASE mux.running BY <1>0, <1>4, <3>1, <3>2 DEF Types
    <3>3. CASE ~mux.running
      <4>1. Idle \in SesStates /\ Idle.todo = {} BY NewRecordTypes DEF Idle
      <4>2. ses' = [Idle EXCEPT !.pc = "check"] BY <1>4, <3>3
      <4> QED BY <3>1, <3>3, <4>1, <4>2 DEF SesStates
    <3> QED BY <3>2, <3>3
  <2>9. Types' BY <1>0, <1>1, <2>5, <2>6, <2>7, <2>8 DEF Types
  <2>10. SameStreams /\ SameCalls BY <1>0, <1>1, StreamsHold, SameCallsStay
  <2>11. \A b : PeerOf(b)' = PeerOf(b) BY <1>0, <2>10, CallsKept
  <2>12. Opened \subseteq Opened' /\ c \in Opened'
    BY <1>1, <2>3, <2>5 DEF Opened
  <2>13. Registered' = Registered \cup {c} /\ Registered \subseteq Conns
    <3>1. reg[p] = None BY <1>4, <2>1
    <3>2. \A b \in Registered : \E q \in Peers : q # p /\ reg[q] = b /\ b # None
      BY <3>1 DEF Registered
    <3>3. Registered \subseteq Registered' BY <2>6, <3>2 DEF Registered
    <3>4. c \in Registered' BY <2>6, NoneApart DEF Registered
    <3>5. Registered' \subseteq Registered \cup {c} BY <2>6 DEF Registered
    <3> QED BY <1>0, <3>3, <3>4, <3>5, RegisteredConns
  <2>14. RegInv'
    <3> SUFFICES ASSUME NEW q \in Peers, NEW b, b = reg'[q], b # None
                 PROVE  b \in Opened' /\ PeerOf(b) = q /\ conn'[b].pc # "over"
      BY <2>11 DEF RegInv, PeerOf
    <3>1. CASE q = p BY <2>1, <2>3, <2>5, <2>6, <2>12, <3>1
    <3>2. CASE q # p
      <4>1. b = reg[q] /\ b \in Opened /\ PeerOf(b) = q /\ conn[b].pc # "over"
        BY <1>0, <2>6, <3>2 DEF RegInv
      <4>2. b \in Conns /\ b # c BY <1>2, <4>1 DEF Opened
      <4> QED BY <2>5, <2>12, <4>1, <4>2
    <3> QED BY <3>1, <3>2
  <2>15. SessionInv'
    <3>1. put' = put /\ rd' = rd BY <1>1
    <3> QED BY <2>7, <2>8, <2>12, <3>1 DEF MuxInv, SessionInv, Dialling, OnStream
  <2>16. ClosedInv'
    <3>1. ~mux'.closed /\ ~mux'.cancelled BY <1>4, <2>7 DEF MuxInv, ClosedInv
    <3>2. \A b \in Conns : conn[b].closed => conn[b].pc = "over" BY <1>4 DEF MuxInv, ClosedInv
    <3>3. \A b \in Conns : conn'[b].closed => conn'[b].pc = "over" BY <1>1, <2>3, <2>5, <3>2
    <3> QED BY <3>1, <3>3 DEF ClosedInv
  <2>17. Joining' \subseteq Joining /\ (Joining' # {} => ses' = ses)
    BY <1>1, <2>8 DEF Joining
  <2>18. LeaveInv'
    <3>1. \A b \in Conns : del[b].pc # "none" => b \in Opened' /\ b \notin Registered'
      BY <1>2, <2>12, <2>13 DEF MuxInv, LeaveInv
    <3>2. ASSUME NEW b \in Joining' PROVE conn'[b].stream # ses'.stream /\ del[b].pc = "none"
      <4>1. b \in Joining /\ ses' = ses BY <2>17, <3>2
      <4>2. b \in Conns /\ b # c BY <1>2, <4>1, JoiningOpened
      <4> QED BY <2>5, <4>1, <4>2 DEF MuxInv, LeaveInv
    <3>3. ses'.pc = "put" => put[ses'.put].conn \notin ses'.todo BY <2>8 DEF MuxInv, LeaveInv
    <3>4. \A b \in Conns : del[b].pc = "sent" => del[b].stream \in Streams BY DEF MuxInv, LeaveInv
    <3> QED BY <1>1, <3>1, <3>2, <3>3, <3>4 DEF LeaveInv
  <2>19. PendInv'
    <3>1. ses'.pc # "off" BY <2>8
    <3>2. c \in Registered' /\ conn'[c].pc = "poke" BY <2>3, <2>5, <2>13
    <3>3. JoinNoticed'
      <4> SUFFICES ASSUME ses'.pc \in {"join", "put", "select"}, ~mux'.kick, ~ses'.retry, ~mux'.closed
                   PROVE  \A b \in Registered' : \/ conn'[b].stream = ses'.stream
                                                 \/ conn'[b].pc = "poke" \/ b \in Joining'
        BY <3>2 DEF JoinNoticed
      <4>1. ses' = ses BY <2>8
      <4>2. Joining' = Joining BY <1>1, <4>1 DEF Joining
      <4>3. \A b \in Registered : \/ conn[b].stream = ses.stream \/ conn[b].pc = "poke" \/ b \in Joining
        BY <2>7, <4>1 DEF MuxInv, PendInv, JoinNoticed
      <4>4. \A b \in Registered : b # c /\ conn'[b] = conn[b] BY <1>2, <2>5, <2>13
      <4> QED BY <2>13, <3>2, <4>1, <4>2, <4>3, <4>4
    <3>4. PendingNoticed' BY <3>1, <3>2 DEF PendingNoticed
    <3> QED BY <3>3, <3>4 DEF PendInv
  <2>20. ClientInv' BY <2>14, <2>15, <2>16, <2>18, <2>19 DEF ClientInv
  <2>21. \A b \in Conns : conn'[b].stream = conn[b].stream /\ (conn'[b].pc = "none" => conn[b].pc = "none")
    BY <1>1, <2>3, <2>5
  <2>22. StreamInv' BY <2>8, <2>10, <2>21, StreamsStay DEF SesGoesOn
  <2>23. ToldGoesOn
    <3>1. conn'[c].stream = None BY <1>1, <2>3, <2>5 DEF MuxInv, ToldInv, StreamInv
    <3> QED BY <1>2, <2>8, <2>13, <2>21, <3>1 DEF ToldGoesOn, OnStream
  <2> QED BY <1>1, <2>9, <2>10, <2>12, <2>20, <2>22, <2>23, ClientStep
<1> QED BY <1>3, <1>4 DEF Open

-----------------------------------------------------------------------------
(* The goroutine of run.                                                   *)

\* A step of it, in which connections may fail and be removed.
LEMMA SesStep ==
  ASSUME MuxInv, Types', UNCHANGED <<del, lost>>, SameStreams, SameCalls,
         \A c \in Conns : /\ conn'[c].pc = conn[c].pc /\ conn'[c].closed = conn[c].closed
                          /\ conn'[c].stream = conn[c].stream,
         \A p \in Peers : reg'[p] \in {None, reg[p]},
         mux'.closed = mux.closed, mux'.cancelled = mux.cancelled,
         SessionInv', PendInv', StreamInv',
         ses'.pc \in OnStream => ses.pc \in OnStream /\ ses'.stream = ses.stream,
         ses'.pc = "put" => ses.pc = "put" /\ ses'.put = ses.put,
         \A c \in ses'.todo : \/ c \in Registered /\ conn[c].stream # ses'.stream
                              \/ c \in ses.todo /\ ses'.stream = ses.stream,
         ses'.pc = "put" => ses'.todo \subseteq ses.todo
  PROVE  MuxInv'
<1>0. Types /\ RegInv BY DEF MuxInv
<1>1. put' = put BY DEF SameStreams
<1>2. Opened' = Opened BY DEF Opened, SameCalls
<1>3. \A p \in Peers : reg'[p] # None => reg'[p] = reg[p] /\ conn'[reg[p]].pc # "over"
  <2>1. \A p \in Peers : reg[p] # None => reg[p] \in Conns /\ conn[reg[p]].pc # "over"
    BY <1>0 DEF RegInv, Opened
  <2> QED BY <2>1
<1>4. RegInv' /\ Registered' \subseteq Registered BY <1>0, <1>2, <1>3, RegShrinks
<1>5. ClosedInv' BY <1>4 DEF MuxInv, ClosedInv
<1>6. LeaveInv'
  <2>1. \A c \in Conns : del[c].pc # "none" => c \in Opened /\ c \notin Registered BY DEF MuxInv, LeaveInv
  <2>2. \A c \in Conns : del[c].pc = "sent" => del[c].stream \in Streams BY DEF MuxInv, LeaveInv
  <2>3. Registered \subseteq Conns BY <1>0, RegisteredConns
  <2>4. ASSUME NEW c \in Joining'
        PROVE  c \in Conns /\ conn[c].stream # ses'.stream /\ del[c].pc = "none"
    <3>1. \/ c \in ses'.todo
          \/ ses'.pc = "put" /\ c = put[ses'.put].conn
      BY <1>1 DEF Joining
    <3>2. CASE c \in Registered /\ conn[c].stream # ses'.stream BY <2>1, <2>3, <3>2
    <3>3. CASE c \in Joining /\ ses'.stream = ses.stream BY <3>3, JoiningOpened DEF MuxInv, LeaveInv
    <3>4. ses'.pc = "put" /\ c = put[ses'.put].conn => c \in Joining /\ ses'.stream = ses.stream
      BY DEF Joining, OnStream
    <3>5. c \in ses.todo => c \in Joining BY DEF Joining
    <3> QED BY <3>1, <3>2, <3>3, <3>4, <3>5
  <2>5. ses'.pc = "put" => put[ses'.put].conn \notin ses'.todo BY DEF MuxInv, LeaveInv
  <2> QED BY <1>1, <1>2, <1>4, <2>1, <2>2, <2>4, <2>5 DEF LeaveInv
<1>7. ClientInv' BY <1>4, <1>5, <1>6 DEF ClientInv
<1>8. ToldGoesOn BY <1>4 DEF ToldGoesOn
<1>9. Opened \subseteq Opened' /\ \A c \in Conns : del[c].pc = "detach" => del'[c] = del[c] BY <1>2
<1> QED BY <1>7, <1>8, <1>9, ClientStep

\* session returns: nothing is left of the stream.
LEMMA SessionEnds ==
  ASSUME MuxInv, NEW err \in BOOLEAN, NEW m \in MuxStates, SessionOver(err, m),
         m.running = TRUE, m.closed = mux.closed, m.cancelled = mux.cancelled, m.stream = None,
         rd' \in RdStates, rd'.pc = "off", SameStreams, strm' \in [Streams -> StrmStates],
         SameCalls, UNCHANGED <<del, lost>>,
         conn' \in [Conns -> ConnStates],
         \A c \in Conns : /\ conn'[c].pc = conn[c].pc /\ conn'[c].closed = conn[c].closed
                          /\ conn'[c].stream = conn[c].stream,
         reg' \in [Peers -> Conns \cup {None}], \A p \in Peers : reg'[p] \in {None, reg[p]}
  PROVE  MuxInv'
<1>0. Types /\ RegInv BY DEF MuxInv
<1>1. /\ ses' \in SesStates /\ mux' \in MuxStates
      /\ ses'.pc \in {"off", "check", "backoff"} /\ ses'.todo = {}
      /\ ses'.pc = "off" => mux.cancelled
      /\ mux'.running <=> ses'.pc # "off"
      /\ mux'.closed = mux.closed /\ mux'.cancelled = mux.cancelled /\ mux'.stream = None
  BY SessionOverFact
<1>2. put' = put /\ rec' = rec /\ srv' = srv BY DEF SameStreams
<1>3. Types' BY <1>0, <1>1, <1>2, CallsKept DEF Types
<1>4. Opened' = Opened BY DEF Opened, SameCalls
<1>5. \A p \in Peers : reg'[p] # None => reg'[p] = reg[p] /\ conn'[reg[p]].pc # "over"
  <2>1. \A p \in Peers : reg[p] # None => reg[p] \in Conns /\ conn[reg[p]].pc # "over"
    BY <1>0 DEF RegInv, Opened
  <2> QED BY <2>1
<1>6. RegInv' /\ Registered' \subseteq Registered BY <1>0, <1>4, <1>5, RegShrinks
<1>7. SessionInv' BY <1>1 DEF SessionInv, Dialling, OnStream
<1>8. ClosedInv' BY <1>1, <1>6 DEF MuxInv, ClosedInv
<1>9. Joining' = {} BY <1>1 DEF Joining
<1>10. LeaveInv' BY <1>1, <1>4, <1>6, <1>9 DEF MuxInv, LeaveInv
<1>11. PendInv'
  <2>1. ses'.pc = "off" => Registered' = {} BY <1>1, <1>6 DEF MuxInv, ClosedInv
  <2> QED BY <1>1, <2>1 DEF PendInv, JoinNoticed, PendingNoticed
<1>12. ClientInv' BY <1>6, <1>7, <1>8, <1>10, <1>11 DEF ClientInv
<1>13. StreamInv' BY <1>1, StreamsStay DEF SesGoesOn
<1>14. ToldGoesOn BY <1>1, <1>6 DEF ToldGoesOn, OnStream
<1>15. Opened \subseteq Opened' /\ \A c \in Conns : del[c].pc = "detach" => del'[c] = del[c] BY <1>4
<1> QED BY <1>3, <1>12, <1>13, <1>14, <1>15, ClientStep

\* What session, once it is not on a stream, has to keep of what others rely on.
LEMMA PendRest ==
  ASSUME ses'.pc \in {"off", "check", "dial", "hello", "collect", "drain", "backoff"},
         ses'.pc = "off" => Registered' = {}
  PROVE  PendInv'
  BY DEF PendInv, JoinNoticed, PendingNoticed

LEMMA BackoffKeeps == ASSUME MuxInv, Backoff PROVE MuxInv'
<1>0. Types /\ ses \in SesStates /\ ses.pc = "backoff" BY DEF MuxInv, Types, Backoff
<1>1. UNCHANGED <<conn, reg, mux, rd, strm, put, del, rec, srv, env, lost>> BY DEF Backoff, server
<1>2. /\ ses' \in SesStates /\ ses'.pc = "check" /\ ses'.todo = ses.todo
  BY <1>0 DEF Backoff, SesStates
<1>3. Types' BY <1>0, <1>1, <1>2 DEF Types
<1>4. SameStreams /\ SameCalls BY <1>0, <1>1, StreamsHold, SameCallsStay
<1>5. ses.todo = {} /\ rd.pc = "off" /\ mux.stream = None /\ mux.running
  BY <1>0 DEF MuxInv, SessionInv, OnStream
<1>6. SessionInv' BY <1>1, <1>2, <1>5 DEF SessionInv, Dialling, OnStream
<1>7. PendInv' BY <1>2, PendRest
<1>8. \A c \in Conns : conn'[c].stream \in {None, conn[c].stream} /\ (conn'[c].pc = "none" => conn[c].pc = "none")
  BY <1>1
<1>9. StreamInv' BY <1>2, <1>4, <1>8, StreamsStay DEF SesGoesOn
<1> QED BY <1>1, <1>2, <1>3, <1>4, <1>5, <1>6, <1>7, <1>9, SesStep DEF OnStream

LEMMA KeepRunningKeeps == ASSUME MuxInv, KeepRunning PROVE MuxInv'
<1>0. /\ Types /\ ses \in SesStates /\ mux \in MuxStates /\ ses.pc = "check"
      /\ strm \in [Streams -> StrmStates] /\ reg \in [Peers -> Conns \cup {None}]
  BY DEF MuxInv, Types, KeepRunning
<1>1. UNCHANGED <<conn, reg, rd, put, del, rec, srv, env, lost>> BY DEF KeepRunning
<1>2. ses.todo = {} /\ rd.pc = "off" /\ mux.stream = None /\ mux.running = TRUE
  BY <1>0 DEF MuxInv, SessionInv, OnStream, MuxStates
<1>3. SameCalls BY <1>0, <1>1, SameCallsStay
<1>4. Registered' = Registered /\ Registered \subseteq Conns
  BY <1>0, <1>1, RegisteredConns DEF Registered
<1>5. CASE /\ mux.closed \/ Registered = {}
           /\ ses' = Idle /\ mux' = [mux EXCEPT !.running = FALSE] /\ UNCHANGED strm
  <2>1. Registered = {} BY <1>5 DEF MuxInv, ClosedInv
  <2>2. ses' \in SesStates /\ ses'.pc = "off" /\ ses'.todo = {} BY <1>5, NewRecordTypes DEF Idle
  <2>3. /\ mux' \in MuxStates /\ mux'.running = FALSE /\ mux'.closed = mux.closed
        /\ mux'.cancelled = mux.cancelled /\ mux'.stream = None
    BY <1>0, <1>2, <1>5 DEF MuxStates
  <2>4. Types' BY <1>0, <1>1, <1>5, <2>2, <2>3 DEF Types
  <2>5. SameStreams BY <1>0, <1>1, <1>5, StreamsHold
  <2>6. SessionInv' BY <1>1, <1>2, <2>2, <2>3 DEF SessionInv, Dialling, OnStream
  <2>7. PendInv' BY <1>4, <2>1, <2>2, PendRest
  <2>8. \A c \in Conns : conn'[c].stream \in {None, conn[c].stream} /\ (conn'[c].pc = "none" => conn[c].pc = "none")
    BY <1>1
  <2>9. StreamInv' BY <2>2, <2>5, <2>8, StreamsStay DEF SesGoesOn
  <2> QED BY <1>1, <1>3, <2>2, <2>3, <2>4, <2>5, <2>6, <2>7, <2>9, SesStep DEF OnStream
<1>6. ASSUME NEW c \in Registered, NEW s \in Streams, strm[s].pc = "none",
             strm' = [strm EXCEPT ![s].pc = "request"],
             ses' = [ses EXCEPT !.pc = "dial", !.auth = c, !.stream = s], mux' = mux
      PROVE  MuxInv'
  <2>1. ses' \in SesStates /\ ses'.pc = "dial" /\ ses'.todo = {} /\ ses'.auth = c /\ ses'.stream = s
    BY <1>0, <1>2, <1>4, <1>6 DEF SesStates
  <2>2. strm[s] \in StrmStates BY <1>0
  <2>3. PICK h \in StrmStates : h = [strm[s] EXCEPT !.pc = "request"] BY <2>2 DEF StrmStates
  <2>4. /\ h.pc = "request" /\ h.members = strm[s].members /\ h.detached = strm[s].detached
        /\ h.todo = strm[s].todo /\ h.wake = strm[s].wake /\ h.down = strm[s].down
        /\ h.conn = strm[s].conn /\ h.wire = strm[s].wire
    BY <2>2, <2>3 DEF StrmStates
  <2>5. /\ strm' \in [Streams -> StrmStates] /\ strm'[s] = h
        /\ \A t \in Streams : t # s => strm'[t] = strm[t]
    BY <1>0, <1>6, <2>2, <2>3
  <2>6. SameStreams BY <1>0, <1>1, <1>6, AskedHolds
  <2>7. Types' BY <1>0, <1>1, <1>6, <2>1, <2>5 DEF Types
  <2>8. c \in Opened BY DEF Registered, MuxInv, RegInv
  <2>9. Opened' = Opened BY <1>1 DEF Opened
  <2>10. SessionInv' BY <1>1, <1>2, <1>6, <2>1, <2>8, <2>9 DEF SessionInv, Dialling, OnStream
  <2>11. PendInv' BY <2>1, PendRest
  <2>12. StreamInv'
    <3>0. StreamInv BY DEF MuxInv, ToldInv
    <3>1. \A b \in Conns : conn[b].stream # None => conn[b].stream \in Streams
      BY <1>0 DEF Types, ConnStates
    <3>2. \A b \in Conns : conn[b].stream # None => conn[b].stream # s /\ strm'[conn[b].stream].pc # "none"
      BY <1>6, <2>5, <3>0, <3>1 DEF StreamInv
    <3>3. \A b \in Conns : conn[b].stream # s BY <3>2, NoneApart
    <3>4. \A t \in Streams : strm'[t].pc \in {"detach", "gone"} => strm'[t].conn # "up"
      BY <2>4, <2>5, <3>0 DEF StreamInv
    <3> QED BY <1>1, <2>1, <2>4, <2>5, <3>0, <3>2, <3>3, <3>4 DEF StreamInv, Dialling, OnStream
  <2> QED BY <1>1, <1>3, <1>6, <2>1, <2>6, <2>7, <2>10, <2>11, <2>12, SesStep DEF OnStream
<1>7. CASE SessionOver(TRUE, mux) /\ UNCHANGED strm
  <2>1. SameStreams /\ strm' \in [Streams -> StrmStates] BY <1>0, <1>1, <1>7, StreamsHold
  <2>2. rd' \in RdStates /\ rd'.pc = "off" /\ conn' \in [Conns -> ConnStates]
    BY <1>0, <1>1, <1>2 DEF Types
  <2> QED BY <1>0, <1>1, <1>2, <1>3, <1>7, <2>1, <2>2, SessionEnds
<1> QED BY <1>5, <1>6, <1>7 DEF KeepRunning

LEMMA DialledKeeps == ASSUME MuxInv, Dialled PROVE MuxInv'
<1>0. /\ Types /\ ses \in SesStates /\ mux \in MuxStates /\ ses.pc = "dial" /\ SessionInv /\ StreamInv
      /\ reg \in [Peers -> Conns \cup {None}]
  BY DEF MuxInv, Types, Dialled, ToldInv
<1>1. UNCHANGED <<conn, reg, rd, put, del, rec, srv, env, lost>> /\ strm[ses.stream].pc # "request"
  BY DEF Dialled
<1>2. ses.todo = {} /\ rd.pc = "off" /\ mux.stream = None /\ mux.running = TRUE /\ ses.stream \in Streams
  BY <1>0 DEF SessionInv, OnStream, MuxStates, Dialling
<1>3. SameCalls BY <1>0, <1>1, SameCallsStay
<1>4. CASE strm' = Cut(ses.stream) /\ SessionOver(TRUE, mux)
  <2>1. SameStreams /\ strm' \in [Streams -> StrmStates] BY <1>0, <1>1, <1>2, <1>4, CutHolds
  <2>2. rd' \in RdStates /\ rd'.pc = "off" /\ conn' \in [Conns -> ConnStates]
    BY <1>0, <1>1, <1>2 DEF Types
  <2> QED BY <1>0, <1>1, <1>2, <1>3, <1>4, <2>1, <2>2, SessionEnds
<1>5. CASE /\ mux' = [mux EXCEPT !.rcv = ses.stream]
           /\ ses' = [ses EXCEPT !.pc = "hello", !.auth = None]
           /\ UNCHANGED strm
  <2>1. ses' \in SesStates /\ ses'.pc = "hello" /\ ses'.todo = {} /\ ses'.stream = ses.stream
    BY <1>0, <1>2, <1>5 DEF SesStates
  <2>2. /\ mux' \in MuxStates /\ mux'.running = TRUE /\ mux'.closed = mux.closed
        /\ mux'.cancelled = mux.cancelled /\ mux'.stream = None
    BY <1>0, <1>2, <1>5 DEF MuxStates
  <2>3. Types' BY <1>0, <1>1, <1>5, <2>1, <2>2 DEF Types
  <2>4. SameStreams BY <1>0, <1>1, <1>5, StreamsHold
  <2>5. SessionInv' BY <1>1, <1>2, <2>1, <2>2 DEF SessionInv, Dialling, OnStream
  <2>6. PendInv' BY <2>1, PendRest
  <2>7. strm[ses.stream].pc \notin {"none", "request"} /\ \A c \in Conns : conn[c].stream # ses.stream
    BY <1>0, <1>1 DEF StreamInv, Dialling
  <2>8. StreamInv' BY <1>0, <1>1, <1>5, <2>1, <2>7 DEF StreamInv, Dialling, OnStream
  <2> QED BY <1>1, <1>3, <2>1, <2>2, <2>3, <2>4, <2>5, <2>6, <2>8, SesStep DEF OnStream
<1> QED BY <1>4, <1>5 DEF Dialled

LEMMA ConnectFailsKeeps == ASSUME MuxInv, ConnectFails PROVE MuxInv'
<1>0. /\ Types /\ mux \in MuxStates /\ ses.pc \in Dialling /\ SessionInv
      /\ conn \in [Conns -> ConnStates] /\ reg \in [Peers -> Conns \cup {None}]
  BY DEF MuxInv, Types, ConnectFails, Dialling
<1>1. UNCHANGED <<rd, put, del, rec, srv, lost>> /\ strm' = Cut(ses.stream) BY DEF ConnectFails
<1>2. rd.pc = "off" /\ mux.stream = None /\ mux.running = TRUE /\ ses.stream \in Streams
  BY <1>0 DEF SessionInv, OnStream, MuxStates, Dialling
<1>3. PICK m \in MuxStates : m = [mux EXCEPT !.rcv = None] BY <1>0 DEF MuxStates
<1>4. m.running = TRUE /\ m.closed = mux.closed /\ m.cancelled = mux.cancelled /\ m.stream = None
  BY <1>0, <1>2, <1>3 DEF MuxStates
<1>5. SameStreams /\ strm' \in [Streams -> StrmStates] BY <1>0, <1>1, <1>2, CutHolds
<1>6. rd' \in RdStates /\ rd'.pc = "off" BY <1>0, <1>1, <1>2 DEF Types
<1>7. SameCalls
  <2>1. env' = env \/ Happens("cut") \/ Happens("deny") BY DEF ConnectFails
  <2> QED BY <1>0, <2>1, SameCallsStay, HappensKeepsCalls DEF Kinds
<1>8. CASE SessionOver(TRUE, m) /\ UNCHANGED <<conn, reg>>
  BY <1>0, <1>1, <1>4, <1>5, <1>6, <1>7, <1>8, SessionEnds
<1>9. CASE /\ conn' = Failed(Registered) /\ reg' = [p \in Peers |-> None] /\ SessionOver(FALSE, m)
  <2>1. /\ conn' \in [Conns -> ConnStates]
        /\ \A c \in Conns : /\ conn'[c].pc = conn[c].pc /\ conn'[c].closed = conn[c].closed
                            /\ conn'[c].stream = conn[c].stream
    BY <1>0, <1>9, FailedFact
  <2>2. reg' \in [Peers -> Conns \cup {None}] /\ \A p \in Peers : reg'[p] \in {None, reg[p]} BY <1>9
  <2> QED BY <1>1, <1>4, <1>5, <1>6, <1>7, <1>9, <2>1, <2>2, SessionEnds
<1> QED BY <1>3, <1>8, <1>9 DEF ConnectFails

LEMMA DialDeniedKeeps == ASSUME MuxInv, DialDenied PROVE MuxInv'
<1>0. /\ Types /\ mux \in MuxStates /\ ses.pc = "dial" /\ SessionInv /\ RegInv
      /\ conn \in [Conns -> ConnStates] /\ reg \in [Peers -> Conns \cup {None}]
      /\ strm \in [Streams -> StrmStates]
  BY DEF MuxInv, Types, DialDenied
<1>1. UNCHANGED <<rd, put, del, rec, srv, lost>> /\ Happens("deny") /\ strm[ses.stream].pc = "request"
  BY DEF DialDenied
<1>2. rd.pc = "off" /\ mux.stream = None /\ mux.running = TRUE
  BY <1>0 DEF SessionInv, OnStream, MuxStates
<1>3. PICK s \in Streams : s = ses.stream BY <1>0 DEF SessionInv, Dialling
<1>4. PICK c : c = ses.auth OBVIOUS
<1>5. PICK m \in MuxStates : m = Kicked(c) BY <1>0, KickedFact
<1>6. m.running = TRUE /\ m.closed = mux.closed /\ m.cancelled = mux.cancelled /\ m.stream = None
  BY <1>0, <1>2, <1>5, KickedFact
<1>7. strm[s] \in StrmStates BY <1>0
<1>8. PICK h \in StrmStates : h = [strm[s] EXCEPT !.pc = "gone", !.conn = "cut"] BY <1>7 DEF StrmStates
<1>9. /\ h.pc = "gone" /\ h.members = strm[s].members /\ h.detached = strm[s].detached
      /\ h.todo = strm[s].todo /\ h.wake = strm[s].wake /\ h.down = strm[s].down
      /\ h.conn = "cut"
  BY <1>7, <1>8 DEF StrmStates
<1>10. /\ strm' \in [Streams -> StrmStates] /\ strm'[s] = h
       /\ \A t \in Streams : t # s => strm'[t] = strm[t]
  <2>1. strm' = [strm EXCEPT ![s].pc = "gone", ![s].conn = "cut"] BY <1>3 DEF DialDenied
  <2>2. strm' = [strm EXCEPT ![s] = h] BY <1>0, <1>7, <1>8, <2>1
  <2> QED BY <1>0, <2>2, StreamSet
<1>11. SameStreams
  <2>1. \A t \in Streams : HeldStream(strm'[t], strm[t])
    BY <1>1, <1>3, <1>9, <1>10 DEF HeldStream, KeptStream
  <2> QED BY <1>1, <2>1 DEF SameStreams
<1>12. rd' \in RdStates /\ rd'.pc = "off" BY <1>0, <1>1, <1>2 DEF Types
<1>13. SameCalls BY <1>0, <1>1, HappensKeepsCalls DEF Kinds
<1>14. /\ conn' \in [Conns -> ConnStates]
       /\ \A b \in Conns : /\ conn'[b].pc = conn[b].pc /\ conn'[b].closed = conn[b].closed
                           /\ conn'[b].stream = conn[b].stream
  BY <1>0, FailedFact DEF DialDenied
<1>15. reg' \in [Peers -> Conns \cup {None}] /\ \A p \in Peers : reg'[p] \in {None, reg[p]}
  BY <1>0, RegWithoutFact DEF DialDenied
<1>16. SessionOver(FALSE, m) BY <1>4, <1>5 DEF DialDenied
<1> QED BY <1>1, <1>6, <1>10, <1>11, <1>12, <1>13, <1>14, <1>15, <1>16, SessionEnds

LEMMA DrainKeeps == ASSUME MuxInv, Drain PROVE MuxInv'
<1>0. /\ Types /\ mux \in MuxStates /\ ses.pc = "drain" /\ SessionInv /\ ses \in SesStates
      /\ conn \in [Conns -> ConnStates] /\ reg \in [Peers -> Conns \cup {None}]
  BY DEF MuxInv, Types, Drain
<1>1. UNCHANGED <<conn, reg, strm, put, del, rec, srv, env, lost>> BY DEF Drain, server
<1>2. mux.stream = None /\ mux.running = TRUE BY <1>0 DEF SessionInv, OnStream, MuxStates
<1>3. PICK err \in BOOLEAN : err = ses.err BY <1>0 DEF SesStates
<1>4. SessionOver(err, mux) BY <1>3 DEF Drain
<1>5. rd' \in RdStates /\ rd'.pc = "off" BY NewRecordTypes DEF Drain, NewReader
<1>6. SameStreams /\ strm' \in [Streams -> StrmStates] /\ SameCalls
  BY <1>0, <1>1, StreamsHold, SameCallsStay
<1> QED BY <1>0, <1>1, <1>2, <1>4, <1>5, <1>6, SessionEnds

LEMMA CollectKeeps == ASSUME MuxInv, Collect PROVE MuxInv'
<1>0. Types /\ ses \in SesStates /\ ses.pc = "collect" /\ SessionInv BY DEF MuxInv, Types, Collect
<1>1. UNCHANGED <<conn, reg, mux, rd, strm, put, del, rec, srv, env, lost>> BY DEF Collect, server
<1>2. PICK d \in SUBSET Conns : d = {c \in Registered : conn[c].stream # ses.stream}
  BY <1>0, RegisteredConns
<1>3. /\ ses' \in SesStates /\ ses'.pc = "join" /\ ses'.todo = d /\ ses'.stream = ses.stream
  BY <1>0, <1>2 DEF Collect, SesStates
<1>4. Types' BY <1>0, <1>1, <1>3 DEF Types
<1>5. SameStreams /\ SameCalls BY <1>0, <1>1, StreamsHold, SameCallsStay
<1>6. Registered' = Registered /\ Opened' = Opened BY <1>1 DEF Registered, Opened
<1>7. Registered \subseteq Opened BY DEF Registered, MuxInv, RegInv
<1>8. SessionInv'
  BY <1>0, <1>1, <1>2, <1>3, <1>6, <1>7 DEF SessionInv, Dialling, OnStream
<1>9. PendInv'
  <2>1. \A c \in Registered : conn[c].stream = ses.stream \/ c \in Joining' BY <1>2, <1>3 DEF Joining
  <2>2. JoinNoticed' BY <1>1, <1>3, <1>6, <2>1 DEF JoinNoticed
  <2> QED BY <1>3, <2>2 DEF PendInv, PendingNoticed
<1>10. \A c \in Conns : conn'[c].stream \in {None, conn[c].stream} /\ (conn'[c].pc = "none" => conn[c].pc = "none")
  BY <1>1
<1>11. StreamInv' BY <1>0, <1>3, <1>5, <1>10, StreamsStay DEF SesGoesOn, OnStream
<1>12. \A c \in ses'.todo : c \in Registered /\ conn[c].stream # ses'.stream BY <1>2, <1>3
<1> QED BY <1>0, <1>1, <1>3, <1>4, <1>5, <1>8, <1>9, <1>11, <1>12, SesStep DEF OnStream

LEMMA TeardownKeeps == ASSUME MuxInv, Teardown PROVE MuxInv'
<1>0. /\ Types /\ ses \in SesStates /\ ses.pc \in {"put", "join", "select"} /\ SessionInv /\ mux \in MuxStates
      /\ rd \in RdStates
  BY DEF MuxInv, Types, Teardown
<1>1. UNCHANGED <<conn, reg, put, del, rec, srv, env, lost>> /\ strm' = Cut(Receiving(ses.stream))
  BY DEF Teardown
<1>2. ses.stream \in Streams /\ mux.running = TRUE BY <1>0 DEF SessionInv, OnStream, MuxStates
<1>3. ses' \in SesStates /\ ses'.pc = "drain" /\ ses'.todo = {} /\ ses'.stream = ses.stream
  <2>1. \/ ses' = [ses EXCEPT !.pc = "drain", !.err = TRUE, !.put = None, !.todo = {}]
        \/ ses' = [ses EXCEPT !.pc = "drain"] /\ ses.todo = {}
    BY <1>0 DEF Teardown, SessionInv
  <2> QED BY <1>0, <2>1 DEF SesStates
<1>4. /\ mux' \in MuxStates /\ mux'.running = TRUE /\ mux'.closed = mux.closed
      /\ mux'.cancelled = mux.cancelled /\ mux'.stream = None
  BY <1>0, <1>2 DEF Teardown, Torn, MuxStates
<1>5. rd' \in RdStates /\ rd'.pc = rd.pc /\ rd'.conn = rd.conn BY <1>0 DEF Teardown, RdStates
<1>6. SameStreams /\ strm' \in [Streams -> StrmStates] /\ SameCalls
  <2>1. Receiving(ses.stream) \in Streams \cup {None} BY <1>0, <1>2, ReceivingFact
  <2> QED BY <1>0, <1>1, <2>1, CutHolds, SameCallsStay
<1>7. Types' BY <1>0, <1>1, <1>3, <1>4, <1>5, <1>6 DEF Types
<1>8. SessionInv' BY <1>0, <1>2, <1>3, <1>4, <1>5 DEF SessionInv, Dialling, OnStream
<1>9. PendInv' BY <1>3, PendRest
<1>10. \A c \in Conns : conn'[c].stream \in {None, conn[c].stream} /\ (conn'[c].pc = "none" => conn[c].pc = "none")
  BY <1>1
<1>11. StreamInv' BY <1>0, <1>3, <1>6, <1>10, StreamsStay DEF SesGoesOn, OnStream
<1> QED BY <1>1, <1>3, <1>4, <1>6, <1>7, <1>8, <1>9, <1>11, SesStep DEF OnStream

LEMMA SelectKeeps == ASSUME MuxInv, Select PROVE MuxInv'
<1>0. /\ Types /\ ses \in SesStates /\ ses.pc = "select" /\ SessionInv /\ mux \in MuxStates
      /\ conn \in [Conns -> ConnStates] /\ reg \in [Peers -> Conns \cup {None}]
  BY DEF MuxInv, Types, Select
<1>1. UNCHANGED <<conn, reg, put, del, rec, srv, env, lost>> BY DEF Select
<1>2. ses.stream \in Streams /\ mux.running = TRUE /\ ses.todo = {} /\ mux.stream = ses.stream
  BY <1>0 DEF SessionInv, OnStream, MuxStates
<1>3. SameCalls BY <1>0, <1>1, SameCallsStay
<1>4. CASE /\ ses' = [ses EXCEPT !.pc = "collect"] /\ UNCHANGED <<rd, strm>>
           /\ mux' = [mux EXCEPT !.kick = FALSE] \/ mux' = mux
  <2>1. ses' \in SesStates /\ ses'.pc = "collect" /\ ses'.todo = {} /\ ses'.stream = ses.stream
    BY <1>0, <1>2, <1>4 DEF SesStates
  <2>2. /\ mux' \in MuxStates /\ mux'.running = TRUE /\ mux'.closed = mux.closed
        /\ mux'.cancelled = mux.cancelled /\ mux'.stream = mux.stream
    BY <1>0, <1>2, <1>4 DEF MuxStates
  <2>3. Types' BY <1>0, <1>1, <1>4, <2>1, <2>2 DEF Types
  <2>4. SameStreams BY <1>0, <1>1, <1>4, StreamsHold
  <2>5. SessionInv' BY <1>0, <1>1, <1>2, <1>4, <2>1, <2>2 DEF SessionInv, Dialling, OnStream
  <2>6. PendInv' BY <2>1, PendRest
  <2>7. \A c \in Conns : conn'[c].stream \in {None, conn[c].stream} /\ (conn'[c].pc = "none" => conn[c].pc = "none")
    BY <1>1
  <2>8. StreamInv' BY <1>0, <2>1, <2>4, <2>7, StreamsStay DEF SesGoesOn, OnStream
  <2> QED BY <1>0, <1>1, <1>3, <2>1, <2>2, <2>3, <2>4, <2>5, <2>6, <2>8, SesStep DEF OnStream
<1>5. CASE SessionOver(TRUE, Torn) /\ strm' = Cut(Receiving(ses.stream)) /\ rd' = NewReader
  <2>1. PICK m \in MuxStates : m = Torn BY <1>0 DEF Torn, MuxStates
  <2>2. m.running = TRUE /\ m.closed = mux.closed /\ m.cancelled = mux.cancelled /\ m.stream = None
    BY <1>0, <1>2, <2>1 DEF Torn, MuxStates
  <2>3. SameStreams /\ strm' \in [Streams -> StrmStates]
    <3>1. Receiving(ses.stream) \in Streams \cup {None} BY <1>0, <1>2, ReceivingFact
    <3> QED BY <1>0, <1>1, <1>5, <3>1, CutHolds
  <2>4. rd' \in RdStates /\ rd'.pc = "off" BY <1>5, NewRecordTypes DEF NewReader
  <2> QED BY <1>0, <1>1, <1>3, <1>5, <2>1, <2>2, <2>3, <2>4, SessionEnds
<1> QED BY <1>4, <1>5 DEF Select

LEMMA JoinFailsKeeps == ASSUME MuxInv, JoinFails PROVE MuxInv'
<1>0. /\ Types /\ ses \in SesStates /\ ses.pc = "put" /\ SessionInv /\ RegInv /\ mux \in MuxStates
      /\ conn \in [Conns -> ConnStates] /\ reg \in [Peers -> Conns \cup {None}]
  BY DEF MuxInv, Types, JoinFails
<1>1. UNCHANGED <<rd, strm, put, del, rec, srv, lost>> BY DEF JoinFails, server
<1>2. PICK c : c = put[ses.put].conn OBVIOUS
<1>3. SameCalls
  <2>1. env' = env \/ Happens("drop") BY DEF JoinFails
  <2> QED BY <1>0, <2>1, SameCallsStay, HappensKeepsCalls DEF Kinds
<1>4. SameStreams BY <1>0, <1>1, StreamsHold
<1>5. /\ ses' \in SesStates /\ ses'.pc = "join" /\ ses'.stream = ses.stream /\ ses'.todo \subseteq ses.todo
      /\ \/ mux.cancelled /\ UNCHANGED <<conn, reg, mux>>
         \/ ses'.retry = TRUE /\ UNCHANGED <<conn, reg, mux>>
         \/ /\ ses'.todo = ses.todo /\ ses'.retry = ses.retry
            /\ conn' = Failed({c}) /\ reg' = RegWithout(c) /\ mux' = Kicked(c)
  <2>1. CASE /\ mux.cancelled /\ UNCHANGED <<conn, reg, mux>>
             /\ ses' = [ses EXCEPT !.pc = "join", !.put = None, !.todo = {}, !.retry = FALSE]
    BY <1>0, <2>1 DEF SesStates
  <2>2. CASE /\ ses' = [ses EXCEPT !.pc = "join", !.put = None, !.retry = TRUE]
             /\ UNCHANGED <<conn, reg, mux>>
    BY <1>0, <2>2 DEF SesStates
  <2>3. CASE /\ ses' = [ses EXCEPT !.pc = "join", !.put = None]
             /\ conn' = Failed({c}) /\ reg' = RegWithout(c) /\ mux' = Kicked(c)
    BY <1>0, <2>3 DEF SesStates
  <2> QED BY <1>2, <2>1, <2>2, <2>3 DEF JoinFails
<1>6. /\ conn' \in [Conns -> ConnStates]
      /\ \A b \in Conns : /\ conn'[b].pc = conn[b].pc /\ conn'[b].closed = conn[b].closed
                          /\ conn'[b].stream = conn[b].stream
  <2>1. CASE conn' = conn BY <1>0, <2>1
  <2>2. CASE conn' = Failed({c}) BY <1>0, <2>2, FailedFact
  <2> QED BY <1>5, <2>1, <2>2
<1>7. reg' \in [Peers -> Conns \cup {None}] /\ \A p \in Peers : reg'[p] \in {None, reg[p]}
  <2>1. CASE reg' = reg BY <1>0, <2>1
  <2>2. CASE reg' = RegWithout(c) BY <1>0, <2>2, RegWithoutFact
  <2> QED BY <1>5, <2>1, <2>2
<1>8. /\ mux' \in MuxStates /\ mux'.running = mux.running /\ mux'.closed = mux.closed
      /\ mux'.cancelled = mux.cancelled /\ mux'.stream = mux.stream
  <2>1. CASE mux' = mux BY <1>0, <2>1
  <2>2. CASE mux' = Kicked(c) BY <1>0, <2>2, KickedFact
  <2> QED BY <1>5, <2>1, <2>2
<1>9. Types' BY <1>0, <1>1, <1>3, <1>5, <1>6, <1>7, <1>8, CallsKept DEF Types
<1>10. Opened' = Opened BY <1>3, <1>6 DEF Opened, SameCalls
<1>11. SessionInv' BY <1>0, <1>1, <1>5, <1>8, <1>10 DEF SessionInv, Dialling, OnStream
<1>12. PendInv'
  <2>1. JoinNoticed'
    <3>1. CASE mux.cancelled /\ UNCHANGED <<conn, reg, mux>>
      <4>1. mux'.closed BY <1>8, <3>1 DEF MuxInv, ClosedInv
      <4> QED BY <4>1 DEF JoinNoticed
    <3>2. CASE ses'.retry = TRUE BY <3>2 DEF JoinNoticed
    <3>3. CASE /\ ses'.todo = ses.todo /\ ses'.retry = ses.retry
               /\ reg' = RegWithout(c) /\ mux' = Kicked(c)
      <4>1. CASE c \in Registered
        <5>1. mux'.kick = TRUE BY <1>0, <3>3, <4>1, KickedFact
        <5> QED BY <5>1 DEF JoinNoticed
      <4>2. CASE c \notin Registered
        <5>1. reg' = reg /\ mux' = mux BY <3>3, <4>2 DEF RegWithout, Kicked
        <5>2. Registered' = Registered /\ Registered \subseteq Conns
          BY <1>0, <5>1, RegisteredConns DEF Registered
        <5>3. \A b \in Registered : b \in Joining => b \in Joining'
          BY <1>2, <3>3, <4>2 DEF Joining
        <5>4. \/ mux.kick \/ ses.retry \/ mux.closed
              \/ \A b \in Registered : \/ conn[b].stream = ses.stream \/ conn[b].pc = "poke"
                                       \/ b \in Joining
          BY <1>0 DEF MuxInv, PendInv, JoinNoticed
        <5>5. ses'.pc = "join" /\ ses'.stream = ses.stream BY <1>5
        <5> QED BY <1>6, <3>3, <5>1, <5>2, <5>3, <5>4, <5>5 DEF JoinNoticed
      <4> QED BY <4>1, <4>2
    <3> QED BY <1>5, <3>1, <3>2, <3>3
  <2> QED BY <1>5, <2>1 DEF PendInv, PendingNoticed
<1>13. \A b \in Conns : conn'[b].stream \in {None, conn[b].stream} /\ (conn'[b].pc = "none" => conn[b].pc = "none")
  BY <1>6
<1>14. StreamInv' BY <1>0, <1>4, <1>5, <1>13, StreamsStay DEF SesGoesOn, OnStream
<1>15. \A b \in ses'.todo : b \in ses.todo /\ ses'.stream = ses.stream BY <1>5
<1> QED BY <1>0, <1>1, <1>3, <1>4, <1>5, <1>6, <1>7, <1>8, <1>9, <1>11, <1>12, <1>14, <1>15, SesStep
        DEF OnStream

\* A PUT is sent.
LEMMA PutSentKeeps ==
  ASSUME MuxInv, ses.pc = "join", NEW c \in ses.todo, NEW a \in Puts, put[a].pc = "none",
         put' = [put EXCEPT ![a] = [NewPut EXCEPT !.pc = "request", !.conn = c,
                                                  !.stream = ses.stream]],
         ses' = [ses EXCEPT !.pc = "put", !.put = a, !.todo = @ \ {c}],
         UNCHANGED <<conn, reg, mux, rd, strm, del, rec, srv, env, lost>>
  PROVE  MuxInv'
<1>0. /\ Types /\ ses \in SesStates /\ SessionInv /\ PutInv /\ put \in [Puts -> PutStates]
      /\ StreamInv /\ ServerInv
  BY DEF MuxInv, Types, ServerInv, ToldInv
<1>1. PICK s \in Streams : s = ses.stream BY <1>0 DEF SessionInv, OnStream
<1>2. c \in Opened /\ c \in Conns BY <1>0 DEF SessionInv, Opened
<1>3. PICK q \in PutStates : q = [NewPut EXCEPT !.pc = "request", !.conn = c, !.stream = s]
  <2>1. NewPut \in PutStates BY NewRecordTypes
  <2> QED BY <1>2, <2>1 DEF PutStates
<1>4. /\ q.pc = "request" /\ q.conn = c /\ q.stream = s /\ q.reply = "none" /\ ~q.late
  BY <1>3 DEF NewPut
<1>5. put' \in [Puts -> PutStates] /\ put'[a] = q /\ \A b \in Puts : b # a => put'[b] = put[b]
  BY <1>0, <1>1, <1>3
<1>6. /\ ses' \in SesStates /\ ses'.pc = "put" /\ ses'.put = a /\ ses'.todo = ses.todo \ {c}
      /\ ses'.stream = ses.stream /\ ses'.retry = ses.retry
  BY <1>0 DEF SesStates
<1>7. Types' BY <1>0, <1>5, <1>6 DEF Types
<1>8. \A b : PeerOf(b)' = PeerOf(b) BY DEF PeerOf
<1>9. ~Entered(a) /\ ~NotAttached(a) BY <1>0 DEF Entered, NotAttached, PutInv
<1>10. \A b \in Puts : /\ Entered(b)' <=> Entered(b)
                       /\ NotAttached(b)' <=> NotAttached(b)
                       /\ Entered(b) \/ NotAttached(b) => b # a /\ put'[b] = put[b]
  BY <1>4, <1>5, <1>9 DEF Entered, NotAttached
<1>11. Opened' = Opened /\ Registered' = Registered BY DEF Opened, Registered
<1>12. strm[s].pc \notin {"none", "request"} BY <1>0, <1>1 DEF StreamInv, OnStream
<1>13. PutInv'
  <2>1. ASSUME NEW b \in Puts
        PROVE  /\ put'[b].pc # "none" => put'[b].conn \in Opened
               /\ put'[b].reply = "ok" => put'[b].pc = "done"
               /\ put'[b].pc = "request" \/ put'[b].pc = "insert" \/ Entered(b)' =>
                    put'[b].stream \in Streams
               /\ put'[b].pc = "insert" \/ Entered(b)' =>
                    /\ put'[b].rec \in Records
                    /\ rec[put'[b].rec].peer = PeerOf(put'[b].conn)
               /\ put'[b].pc = "swap" => put'[b].prev \in Puts
               /\ put'[b].late => Entered(b)'
    <3>1. CASE b = a BY <1>2, <1>4, <1>5, <1>9, <1>10, <3>1
    <3>2. CASE b # a BY <1>0, <1>5, <1>10, <3>2 DEF PutInv
    <3> QED BY <3>1, <3>2
  <2> QED BY <1>8, <1>11, <2>1 DEF PutInv, PeerOf
<1>14. RecordInv'
  <2>1. \A r \in Records : rec[r].att \in Puts =>
          Entered(rec[r].att) /\ ~NotAttached(rec[r].att) /\ put[rec[r].att].rec = r
    BY DEF MuxInv, RecordInv
  <2>2. \A r \in Records, b \in Puts : b = rec[r].att =>
          Entered(b)' /\ ~NotAttached(b)' /\ put'[b].rec = r
    BY <1>10, <2>1
  <2> QED BY <2>2 DEF RecordInv, MuxInv, Entered, NotAttached
<1>15. MemberInv'
  <2> SUFFICES ASSUME NEW t \in Streams, NEW p \in Peers, NEW b, b = strm[t].members[p], b # None
               PROVE  /\ strm[t].pc \in Serving /\ Entered(b)' /\ ~put'[b].late
                      /\ put'[b].stream = t /\ PeerOf(put'[b].conn) = p
    BY <1>8 DEF MemberInv, Entered, PeerOf
  <2>1. b \in Puts
    <3>1. strm[t].members \in [Peers -> Puts \cup {None}] BY <1>0 DEF Types, StrmStates
    <3> QED BY <3>1
  <2>2. /\ strm[t].pc \in Serving /\ Entered(b) /\ ~put[b].late
        /\ put[b].stream = t /\ PeerOf(put[b].conn) = p
    BY DEF MuxInv, MemberInv
  <2> QED BY <1>10, <2>1, <2>2
<1>16. SnapshotInv'
  <2> SUFFICES ASSUME NEW t \in Streams, NEW b \in strm[t].todo
               PROVE  /\ strm[t].pc \notin {"none", "request"}
                      /\ strm[t].pc = "take" => Entered(b)' /\ put'[b].stream = t
    BY DEF SnapshotInv, Entered
  <2>1. strm[t].todo \in SUBSET Puts BY <1>0 DEF Types, StrmStates
  <2>2. /\ strm[t].pc \notin {"none", "request"}
        /\ strm[t].pc = "take" => Entered(b) /\ put[b].stream = t
    BY DEF MuxInv, SnapshotInv
  <2> QED BY <1>10, <2>1, <2>2
<1>17. EnteredInv'
  <2> SUFFICES ASSUME NEW b \in Puts
               PROVE  /\ put'[b].pc \in Going => strm[put'[b].stream].pc \notin {"none", "request"}
                      /\ NotAttached(b)' /\ strm[put'[b].stream].pc \in Serving =>
                           \/ put'[b].late
                           \/ strm[put'[b].stream].members[PeerOf(put'[b].conn)] = b
    BY <1>8 DEF EnteredInv, NotAttached, PeerOf
  <2>1. CASE b = a BY <1>4, <1>5, <1>9, <1>10, <1>12, <2>1
  <2>2. CASE b # a BY <1>5, <1>10, <2>2 DEF MuxInv, EnteredInv
  <2> QED BY <2>1, <2>2
<1>18. AttachmentOwned'
  <2> SUFFICES ASSUME NEW r \in Records, NEW b \in Puts, b = rec[r].att
               PROVE  \/ strm[put'[b].stream].members[rec[r].peer] = b
                      \/ strm[put'[b].stream].pc = "detach" /\ b \in strm[put'[b].stream].todo
                      \/ strm[put'[b].stream].pc \notin Serving /\ put'[b].pc = "recheck"
                      \/ \E x \in Conns : del[x].pc = "detach" /\ del[x].att = b
                      \/ \E x \in Puts : NotAttached(x)' /\ put'[x].rec = r
                      \/ \E x \in Puts : put'[x].pc = "swap" /\ put'[x].prev = b
                      \/ put'[b].late
    BY DEF AttachmentOwned, Owned, NotAttached
  <2>1. Entered(b) BY DEF MuxInv, RecordInv
  <2>2. put'[b] = put[b] BY <1>10, <2>1
  <2>3. \/ strm[put[b].stream].members[rec[r].peer] = b
        \/ strm[put[b].stream].pc = "detach" /\ b \in strm[put[b].stream].todo
        \/ strm[put[b].stream].pc \notin Serving /\ put[b].pc = "recheck"
        \/ \E x \in Conns : del[x].pc = "detach" /\ del[x].att = b
        \/ \E x \in Puts : NotAttached(x) /\ put[x].rec = r
        \/ \E x \in Puts : put[x].pc = "swap" /\ put[x].prev = b
        \/ put[b].late
    BY DEF MuxInv, AttachmentOwned, Owned
  <2>4. \A x \in Puts : NotAttached(x) /\ put[x].rec = r => NotAttached(x)' /\ put'[x].rec = r
    BY <1>10
  <2>5. \A x \in Puts : put[x].pc = "swap" /\ put[x].prev = b => put'[x].pc = "swap" /\ put'[x].prev = b
    BY <1>10 DEF NotAttached
  <2> QED BY <2>2, <2>3, <2>4, <2>5
<1>19. MemberWoken'
  <2> SUFFICES ASSUME NEW r \in Records, NEW b \in Puts, b = rec'[r].att, rec'[r].unsent,
                      strm'[put'[b].stream].pc \in Serving,
                      strm'[put'[b].stream].members[rec'[r].peer] = b
               PROVE  \/ strm'[put'[b].stream].wake
                      \/ strm'[put'[b].stream].pc = "take" /\ b \in strm'[put'[b].stream].todo
                      \/ put'[b].pc = "recheck" \/ rec'[r].poke = b
    BY DEF MemberWoken
  <2>0. strm' = strm /\ rec' = rec OBVIOUS
  <2>1. Entered(b) BY <2>0 DEF MuxInv, RecordInv
  <2>2. put'[b] = put[b] BY <1>10, <2>1
  <2> QED BY <2>0, <2>2 DEF MuxInv, MemberWoken
<1>20. RegInv' BY <1>8, <1>11 DEF MuxInv, RegInv
<1>21. SessionInv'
  <2>1. put'[a].pc # "none" BY <1>4, <1>5
  <2>2. ses'.todo \subseteq Opened BY <1>0, <1>6 DEF SessionInv
  <2> QED BY <1>0, <1>6, <1>11, <2>1, <2>2 DEF SessionInv, Dialling, OnStream
<1>22. ClosedInv' BY <1>11 DEF MuxInv, ClosedInv
<1>23. Joining' = Joining BY <1>4, <1>5, <1>6 DEF Joining
<1>24. LeaveInv'
  <2>1. put'[ses'.put].conn \notin ses'.todo BY <1>4, <1>5, <1>6
  <2> QED BY <1>6, <1>11, <1>23, <2>1 DEF MuxInv, LeaveInv
<1>25. PendInv' BY <1>6, <1>11, <1>23 DEF MuxInv, PendInv, JoinNoticed, PendingNoticed
<1>26. StreamInv'
  <2>1. put'[ses'.put].stream = ses'.stream BY <1>1, <1>4, <1>5, <1>6
  <2> QED BY <1>0, <1>1, <1>6, <1>12, <2>1 DEF StreamInv, Dialling, OnStream
<1>27. JoiningTold'
  <2>1. ~Entered(ses.put)' BY <1>4, <1>5, <1>6 DEF Entered
  <2> QED BY <2>1 DEF JoiningTold
<1>28. JoinedOrTold'
  BY <1>6, <1>8, <1>11 DEF MuxInv, ToldInv, JoinedOrTold, HasJoined, ServedOrTold
<1> QED BY <1>7, <1>13, <1>14, <1>15, <1>16, <1>17, <1>18, <1>19, <1>20, <1>21, <1>22, <1>24, <1>25,
           <1>26, <1>27, <1>28 DEF MuxInv, ToldInv

LEMMA JoinKeeps == ASSUME MuxInv, Join PROVE MuxInv'
<1>0. Types /\ ses \in SesStates /\ ses.pc = "join" /\ SessionInv BY DEF MuxInv, Types, Join
<1>1. UNCHANGED <<conn, reg, mux, rd, strm, del, rec, srv, env, lost>> BY DEF Join
<1>2. ASSUME NEW c \in ses.todo, NEW a \in Puts, put[a].pc = "none",
             put' = [put EXCEPT ![a] = [NewPut EXCEPT !.pc = "request", !.conn = c,
                                                      !.stream = ses.stream]],
             ses' = [ses EXCEPT !.pc = "put", !.put = a, !.todo = @ \ {c}]
      PROVE  MuxInv'
  BY <1>0, <1>1, <1>2, PutSentKeeps
<1>3. CASE /\ UNCHANGED put
           /\ \/ ses.todo = {} /\ Registered # {} /\ ses' = [ses EXCEPT !.pc = "select"]
              \/ ses' = [ses EXCEPT !.todo = {}, !.retry = ~mux.cancelled]
  <2>1. mux.cancelled \in BOOLEAN BY <1>0 DEF Types, MuxStates
  <2>2. /\ ses' \in SesStates /\ ses'.todo = {} /\ ses'.stream = ses.stream
        /\ \/ /\ ses'.pc = "select" /\ Registered # {} /\ ses.todo = {} /\ ses'.retry = ses.retry
           \/ ses'.pc = "join" /\ (ses'.retry \/ mux.cancelled)
    <3>1. CASE ses.todo = {} /\ Registered # {} /\ ses' = [ses EXCEPT !.pc = "select"]
      BY <1>0, <3>1 DEF SesStates
    <3>2. CASE ses' = [ses EXCEPT !.todo = {}, !.retry = ~mux.cancelled]
      <4>1. PICK x \in BOOLEAN : x = ~mux.cancelled BY <2>1
      <4>2. ses' = [ses EXCEPT !.todo = {}, !.retry = x] BY <3>2, <4>1
      <4> QED BY <1>0, <4>1, <4>2 DEF SesStates
    <3> QED BY <1>3, <3>1, <3>2
  <2>3. Types' BY <1>0, <1>1, <1>3, <2>2 DEF Types
  <2>4. SameStreams /\ SameCalls BY <1>0, <1>1, <1>3, StreamsHold, SameCallsStay
  <2>5. Registered' = Registered /\ Opened' = Opened BY <1>1 DEF Registered, Opened
  <2>6. SessionInv' BY <1>0, <1>1, <2>2 DEF SessionInv, Dialling, OnStream
  <2>7. PendInv'
    <3>1. CASE ses'.pc = "join"
      <4>1. ses'.retry \/ mux.closed BY <2>2, <3>1 DEF MuxInv, ClosedInv
      <4> QED BY <1>1, <3>1, <4>1 DEF PendInv, JoinNoticed, PendingNoticed
    <3>2. CASE ses'.pc = "select"
      <4>1. Registered # {} /\ ses.todo = {} /\ ses'.retry = ses.retry BY <2>2, <3>2
      <4>2. Joining = {} /\ Joining' = {} BY <1>0, <2>2, <3>2, <4>1 DEF Joining
      <4>3. \/ mux.kick \/ ses.retry \/ mux.closed
            \/ \A b \in Registered : conn[b].stream = ses.stream \/ conn[b].pc = "poke"
        BY <1>0, <4>2 DEF MuxInv, PendInv, JoinNoticed
      <4>4. JoinNoticed' BY <1>1, <2>2, <2>5, <4>1, <4>3 DEF JoinNoticed
      <4>5. PendingNoticed' BY <1>1, <2>2, <2>5, <3>2, <4>1, <4>3 DEF PendingNoticed
      <4> QED BY <4>4, <4>5 DEF PendInv
    <3> QED BY <2>2, <3>1, <3>2
  <2>8. \A c \in Conns : conn'[c].stream \in {None, conn[c].stream} /\ (conn'[c].pc = "none" => conn[c].pc = "none")
    BY <1>1
  <2>9. StreamInv' BY <1>0, <2>2, <2>4, <2>8, StreamsStay DEF SesGoesOn, OnStream
  <2> QED BY <1>0, <1>1, <2>2, <2>3, <2>4, <2>6, <2>7, <2>9, SesStep DEF OnStream
<1> QED BY <1>2, <1>3 DEF Join

\* The PUT has succeeded: the connection is on the stream, or leaves it again.
LEMMA JoinedKeeps == ASSUME MuxInv, Joined PROVE MuxInv'
<1>0. /\ Types /\ ses \in SesStates /\ ses.pc = "put" /\ SessionInv /\ PutInv /\ ServerInv /\ LeaveInv
      /\ StreamInv /\ conn \in [Conns -> ConnStates]
  BY DEF MuxInv, Types, ServerInv, ToldInv, Joined
<1>1. UNCHANGED <<reg, mux, rd, strm, put, rec, srv, env, lost>> BY DEF Joined
<1>2. PICK a \in Puts : a = ses.put BY <1>0 DEF SessionInv
<1>3. PICK c : c = put[a].conn OBVIOUS
<1>4. PICK s \in Streams : s = ses.stream BY <1>0 DEF SessionInv, OnStream
<1>5. put[a].reply = "ok" /\ Entered(a) BY <1>2 DEF Joined, Entered
<1>6. c \in Opened /\ c \in Conns /\ conn[c].pc # "none"
  BY <1>0, <1>3, <1>5, EnteredFact, PeerOfOpened
<1>7. c \notin ses.todo /\ del[c].pc = "none" BY <1>0, <1>2, <1>3 DEF LeaveInv, Joining
<1>8. /\ conn' \in [Conns -> ConnStates]
      /\ \A b \in Conns : conn'[b].pc = conn[b].pc /\ conn'[b].closed = conn[b].closed
      /\ \A b \in Conns : conn'[b].stream = IF b = c /\ c \in Registered THEN s ELSE conn[b].stream
  <2>1. CASE c \in Registered
    <3>1. conn[c] \in ConnStates BY <1>0, <1>6
    <3>2. PICK x \in ConnStates : x = [conn[c] EXCEPT !.stream = s, !.ready = TRUE]
      BY <3>1 DEF ConnStates
    <3>3. x.pc = conn[c].pc /\ x.closed = conn[c].closed /\ x.stream = s
      BY <3>1, <3>2 DEF ConnStates
    <3>4. conn' = [conn EXCEPT ![c] = x]
      <4>1. conn' = [conn EXCEPT ![c].stream = s, ![c].ready = TRUE]
        BY <1>2, <1>3, <1>4, <2>1 DEF Joined
      <4> QED BY <1>0, <1>6, <3>2, <4>1
    <3>5. /\ conn' \in [Conns -> ConnStates] /\ conn'[c] = x
          /\ \A b \in Conns : b # c => conn'[b] = conn[b]
      BY <1>0, <1>6, <3>4, ConnSet
    <3> QED BY <2>1, <3>3, <3>5
  <2>2. CASE c \notin Registered BY <1>0, <1>2, <1>3, <2>2 DEF Joined
  <2> QED BY <2>1, <2>2
<1>9. /\ del' \in [Conns -> DelStates]
      /\ \A b \in Conns : b # c => del'[b] = del[b]
      /\ \/ del'[c] = del[c]
         \/ c \notin Registered /\ del'[c].pc = "sent" /\ del'[c].stream = s
  <2>1. CASE c \in Registered BY <1>0, <1>2, <1>3, <2>1 DEF Joined, Types
  <2>2. CASE c \notin Registered
    <3>1. del' = Leave(c, s) BY <1>2, <1>3, <1>4, <2>2 DEF Joined
    <3> QED BY <1>0, <1>6, <2>2, <3>1, LeaveFact
  <2> QED BY <2>1, <2>2
<1>10. /\ ses' \in SesStates /\ ses'.pc = "join" /\ ses'.todo = ses.todo
       /\ ses'.stream = ses.stream /\ ses'.retry = ses.retry
  BY <1>0 DEF Joined, SesStates
<1>11. Types' BY <1>0, <1>1, <1>8, <1>9, <1>10 DEF Types
<1>12. SameCalls BY <1>0, <1>1, SameCallsStay
<1>13. \A b : PeerOf(b)' = PeerOf(b) BY <1>1 DEF PeerOf
<1>14. Opened' = Opened /\ Registered' = Registered /\ Registered \subseteq Conns
  BY <1>0, <1>1, <1>8, RegisteredConns DEF Opened, Registered
<1>15. SameServer
  <2>1. \A t \in Streams : KeptStream(strm'[t], strm[t]) BY <1>1 DEF KeptStream
  <2> QED BY <1>1, <2>1 DEF SameServer
<1>16. ServerInv'
  <2>1. \A b \in Conns : del[b].pc = "detach" => del'[b] = del[b] BY <1>7, <1>9
  <2> QED BY <1>0, <1>11, <1>12, <1>14, <1>15, <2>1, ServerFrame
<1>17. RegInv'
  <2>1. \A p \in Peers : reg'[p] # None => reg'[p] = reg[p] /\ conn'[reg[p]].pc # "over"
    BY <1>1, <1>8 DEF MuxInv, RegInv, Opened
  <2> QED BY <1>0, <1>12, <1>14, <2>1, RegShrinks DEF MuxInv
<1>18. SessionInv' BY <1>0, <1>1, <1>10, <1>14 DEF SessionInv, Dialling, OnStream
<1>19. ClosedInv' BY <1>1, <1>8, <1>14 DEF MuxInv, ClosedInv
<1>20. Joining' = ses.todo /\ Joining = ses.todo \cup {c} BY <1>0, <1>2, <1>3, <1>10 DEF Joining
<1>21. LeaveInv'
  <2>1. \A b \in Conns : del'[b].pc # "none" => b \in Opened /\ b \notin Registered
    BY <1>0, <1>6, <1>9 DEF LeaveInv
  <2>2. \A b \in Conns : del'[b].pc = "sent" => del'[b].stream \in Streams
    BY <1>0, <1>9 DEF LeaveInv
  <2>3. ASSUME NEW b \in ses.todo PROVE conn'[b].stream # s /\ del'[b].pc = "none"
    <3>1. b \in Conns /\ b # c BY <1>0, <1>7 DEF SessionInv, Opened
    <3>2. conn[b].stream # s /\ del[b].pc = "none" BY <1>0, <1>4, <1>20 DEF LeaveInv
    <3> QED BY <1>8, <1>9, <3>1, <3>2
  <2> QED BY <1>4, <1>10, <1>14, <1>20, <2>1, <2>2, <2>3 DEF LeaveInv
<1>22. PendInv'
  <2>1. \/ mux.kick \/ ses.retry \/ mux.closed
        \/ \A b \in Registered : conn[b].stream = s \/ conn[b].pc = "poke" \/ b \in Joining
    BY <1>0, <1>4 DEF MuxInv, PendInv, JoinNoticed
  <2>2. \A b \in Registered : conn[b].stream = s \/ conn[b].pc = "poke" \/ b \in Joining =>
          conn'[b].stream = s \/ conn'[b].pc = "poke" \/ b \in Joining'
    BY <1>8, <1>14, <1>20
  <2>3. JoinNoticed' BY <1>1, <1>4, <1>10, <1>14, <2>1, <2>2 DEF JoinNoticed
  <2> QED BY <1>10, <2>3 DEF PendInv, PendingNoticed
<1>23. StreamInv'
  <2>1. strm[s].pc \notin {"none", "request"} BY <1>0, <1>4 DEF StreamInv, OnStream
  <2>2. \A b \in Conns : conn'[b].stream # None => strm[conn'[b].stream].pc # "none"
    BY <1>0, <1>8, <2>1 DEF StreamInv
  <2>3. \A b \in Conns : conn'[b].pc = "none" => conn'[b].stream = None
    BY <1>0, <1>6, <1>8 DEF StreamInv
  <2>4. /\ \A t \in Streams : strm[t].pc \in {"detach", "gone"} => strm[t].conn # "up"
        /\ srv.doomed # {} => srv.muxes
    BY <1>0 DEF StreamInv
  <2> QED BY <1>1, <1>4, <1>10, <2>1, <2>2, <2>3, <2>4 DEF StreamInv, Dialling
<1>24. JoiningTold' BY <1>10 DEF JoiningTold
<1>25. JoinedOrTold'
  <2> SUFFICES ASSUME NEW b \in Registered', HasJoined(b)', <<PeerOf(b), mux.stream>>' \notin lost'
               PROVE  ServedOrTold(b)'
    BY DEF JoinedOrTold
  <2>1. b \in Registered /\ b \in Conns /\ mux.stream # None
        /\ conn'[b].stream = mux.stream
    BY <1>1, <1>14 DEF HasJoined
  <2>0. <<PeerOf(b), mux.stream>> \notin lost /\ mux.stream = ses.stream
    <3>1. PeerOf(b)' = PeerOf(b) BY <1>1 DEF PeerOf
    <3>2. mux.stream = ses.stream BY <1>0, <2>1 DEF SessionInv
    <3> QED BY <1>1, <3>1, <3>2
  <2>2. ServedOrTold(b)
    <3>1. CASE b = c BY <1>0, <1>2, <1>3, <1>5, <2>0, <2>1, <3>1 DEF MuxInv, ToldInv, JoiningTold
    <3>2. CASE b # c
      <4>1. HasJoined(b) BY <1>8, <2>1, <3>2 DEF HasJoined
      <4> QED BY <2>0, <2>1, <4>1 DEF MuxInv, ToldInv, JoinedOrTold
    <3> QED BY <3>1, <3>2
  <2> QED BY <1>1, <1>10, <1>13, <2>2 DEF ServedOrTold
<1> QED BY <1>11, <1>16, <1>17, <1>18, <1>19, <1>21, <1>22, <1>23, <1>24, <1>25
        DEF MuxInv, ServerInv, ToldInv

\* The first event is read; the others are still there.
LEMMA TailFact ==
  ASSUME NEW S, NEW w \in Seq(S), w # <<>>
  PROVE  /\ Tail(w) \in Seq(S) /\ Head(w) \in S
         /\ \A e : Contains(w, e) => e = Head(w) \/ Contains(Tail(w), e)
<1>1. /\ Head(w) \in S /\ Tail(w) \in Seq(S) /\ Len(Tail(w)) = Len(w) - 1
      /\ \A i \in 1 .. Len(Tail(w)) : Tail(w)[i] = w[i + 1]
  BY HeadTailProperties
<1>2. Len(w) \in Nat /\ Head(w) = w[1] OBVIOUS
<1>3. ASSUME NEW e, NEW i \in 1 .. Len(w), w[i] = e
      PROVE  e = Head(w) \/ \E j \in 1 .. Len(Tail(w)) : Tail(w)[j] = e
  <2>1. CASE i = 1 BY <1>2, <1>3, <2>1
  <2>2. CASE i # 1
    <3>1. i - 1 \in 1 .. Len(Tail(w)) BY <1>1, <1>2, <2>2
    <3>2. Tail(w)[i - 1] = w[i] BY <1>1, <3>1
    <3> QED BY <1>3, <3>1, <3>2
  <2> QED BY <2>1, <2>2
<1> QED BY <1>1, <1>3 DEF Contains

\* The stream is named, and is read from now on: nobody has joined it yet.
LEMMA HelloKeeps == ASSUME MuxInv, Hello PROVE MuxInv'
<1>0. /\ Types /\ ses \in SesStates /\ ses.pc = "hello" /\ SessionInv /\ ServerInv /\ StreamInv
      /\ mux \in MuxStates /\ strm \in [Streams -> StrmStates]
  BY DEF MuxInv, Types, ServerInv, ToldInv, Hello
<1>1. UNCHANGED <<conn, reg, put, del, rec, srv, env, lost>> BY DEF Hello
<1>2. PICK s \in Streams : s = ses.stream BY <1>0 DEF SessionInv, Dialling
<1>3. strm[s] \in StrmStates /\ strm[s].wire \in Seq(Events) /\ strm[s].wire # <<>>
  BY <1>0, <1>2 DEF StrmStates, Hello
<1>4. PICK w \in Seq(Events) : w = Tail(strm[s].wire) BY <1>3, TailFact
<1>5. PICK q \in StrmStates : q = [strm[s] EXCEPT !.wire = w] BY <1>3 DEF StrmStates
<1>6. q.pc = strm[s].pc /\ q.conn = strm[s].conn /\ KeptStream(q, strm[s])
  BY <1>3, <1>5 DEF StrmStates, KeptStream
<1>7. strm' = [strm EXCEPT ![s] = q] BY <1>0, <1>2, <1>4, <1>5 DEF Hello
<1>8. strm' \in [Streams -> StrmStates] /\ strm'[s] = q /\ \A t \in Streams : t # s => strm'[t] = strm[t]
  BY <1>0, <1>7
<1>9. \A t \in Streams : strm'[t].pc = strm[t].pc /\ strm'[t].conn = strm[t].conn BY <1>6, <1>8
<1>10. SameServer
  <2>1. \A t \in Streams : t # s => KeptStream(strm'[t], strm[t]) BY <1>8 DEF KeptStream
  <2> QED BY <1>1, <1>6, <1>8, <2>1 DEF SameServer
<1>11. /\ ses' \in SesStates /\ ses'.pc = "collect" /\ ses'.todo = ses.todo /\ ses'.stream = s
  BY <1>0, <1>2 DEF Hello, SesStates
<1>12. /\ mux' \in MuxStates /\ mux'.stream = s /\ mux'.running = mux.running
       /\ mux'.closed = mux.closed /\ mux'.cancelled = mux.cancelled
  BY <1>0, <1>2 DEF Hello, MuxStates
<1>13. rd' \in RdStates /\ rd'.pc = "read"
  <2>1. NewReader \in RdStates BY NewRecordTypes
  <2> QED BY <2>1 DEF Hello, RdStates
<1>14. Types' BY <1>0, <1>1, <1>8, <1>11, <1>12, <1>13 DEF Types
<1>15. SameCalls BY <1>0, <1>1, SameCallsStay
<1>16. Opened' = Opened /\ Registered' = Registered BY <1>1 DEF Opened, Registered
<1>17. ServerInv' BY <1>0, <1>1, <1>10, <1>14, <1>15, <1>16, ServerFrame
<1>18. ses.todo = {} BY <1>0 DEF SessionInv
<1>19. RegInv' BY <1>1, <1>16 DEF MuxInv, RegInv, PeerOf
<1>20. SessionInv' BY <1>0, <1>11, <1>12, <1>13, <1>18 DEF SessionInv, Dialling, OnStream
<1>21. ClosedInv' BY <1>1, <1>12, <1>16 DEF MuxInv, ClosedInv
<1>22. LeaveInv'
  <2>1. Joining' = {} BY <1>11, <1>18 DEF Joining
  <2> QED BY <1>1, <1>11, <1>16, <2>1 DEF MuxInv, LeaveInv
<1>23. PendInv' BY <1>11, PendRest
<1>24. \A c \in Conns : conn[c].stream # s BY <1>0, <1>2 DEF StreamInv, Dialling
<1>25. StreamInv'
  <2>1. strm[s].pc \notin {"none", "request"} BY <1>0, <1>2 DEF StreamInv
  <2>2. \A c \in Conns : conn[c].stream # None => conn[c].stream \in Streams
    BY <1>0 DEF Types, ConnStates
  <2>3. \A c \in Conns : conn[c].stream # None => strm'[conn[c].stream].pc # "none"
    BY <1>0, <1>9, <2>2 DEF StreamInv
  <2>4. /\ \A t \in Streams : strm'[t].pc \in {"detach", "gone"} => strm'[t].conn # "up"
        /\ \A c \in Conns : conn[c].pc = "none" => conn[c].stream = None
        /\ srv.doomed # {} => srv.muxes
    BY <1>0, <1>9 DEF StreamInv
  <2>5. strm'[s].pc \notin {"none", "request"} BY <1>9, <2>1
  <2> QED BY <1>1, <1>11, <2>3, <2>4, <2>5 DEF StreamInv, Dialling
<1>26. JoiningTold' BY <1>11 DEF JoiningTold
<1>27. JoinedOrTold'
  <2>1. \A c \in Registered' : ~HasJoined(c)'
    BY <1>0, <1>1, <1>12, <1>16, <1>24, RegisteredConns DEF HasJoined
  <2> QED BY <2>1 DEF JoinedOrTold
<1> QED BY <1>14, <1>17, <1>19, <1>20, <1>21, <1>22, <1>23, <1>25, <1>26, <1>27
        DEF MuxInv, ServerInv, ToldInv

\* The client reads an event: of a takeover it is told now, or it is recorded as lost.
LEMMA ReadEventKeeps == ASSUME MuxInv, ReadEvent PROVE MuxInv'
<1>0. /\ Types /\ RegInv /\ SessionInv /\ ServerInv /\ StreamInv /\ rd \in RdStates
      /\ strm \in [Streams -> StrmStates] /\ reg \in [Peers -> Conns \cup {None}]
      /\ conn \in [Conns -> ConnStates] /\ mux \in MuxStates /\ rd.pc = "read" /\ lost \subseteq Peers \X Streams
  BY DEF MuxInv, Types, ServerInv, ToldInv, ReadEvent
<1>1. UNCHANGED <<ses, put, del, rec, srv, env>> BY DEF ReadEvent
<1>2. PICK s \in Streams : s = Receiving(ses.stream)
  <2>1. ses.stream \in Streams BY <1>0 DEF SessionInv
  <2>2. rd.fresh \in Streams \cup {None} BY <1>0 DEF RdStates
  <2> QED BY <2>1, <2>2 DEF Receiving
<1>3. strm[s] \in StrmStates /\ strm[s].wire \in Seq(Events) /\ strm[s].wire # <<>>
  BY <1>0, <1>2 DEF StrmStates, ReadEvent
<1>4. PICK w \in Seq(Events) : w = Tail(strm[s].wire) BY <1>3, TailFact
<1>5. PICK e \in Events : /\ e = Head(strm[s].wire)
                          /\ \A x : Contains(strm[s].wire, x) => x = e \/ Contains(w, x)
  BY <1>3, <1>4, TailFact
<1>6. PICK q \in StrmStates : q = [strm[s] EXCEPT !.wire = w] BY <1>3 DEF StrmStates
<1>7. q.pc = strm[s].pc /\ q.conn = strm[s].conn /\ q.wire = w /\ KeptStream(q, strm[s])
  BY <1>3, <1>6 DEF StrmStates, KeptStream
<1>8. strm' = [strm EXCEPT ![s] = q] BY <1>0, <1>2, <1>4, <1>6 DEF ReadEvent
<1>9. strm' \in [Streams -> StrmStates] /\ strm'[s] = q /\ \A t \in Streams : t # s => strm'[t] = strm[t]
  BY <1>0, <1>8
<1>10. SameServer
  <2>1. \A t \in Streams : t # s => KeptStream(strm'[t], strm[t]) BY <1>9 DEF KeptStream
  <2> QED BY <1>1, <1>7, <1>9, <2>1 DEF SameServer
<1>11. e.peer \in Peers \cup {None} BY DEF Events
<1>12. PICK c \in Conns \cup {None} : c = IF e.peer = None THEN None ELSE reg[e.peer]
  BY <1>0, <1>11
<1> DEFINE ours == c # None /\ conn[c].stream = ses.stream
<1>13. \/ /\ e.event # "detached" /\ UNCHANGED <<conn, reg, mux, lost>>
          /\ \/ rd' = IF c = None THEN rd ELSE [rd EXCEPT !.pc = "inbox", !.conn = c]
             \/ rd' = [rd EXCEPT !.pc = "done"]
       \/ /\ e.event = "detached" /\ ours
          /\ conn' = Failed({c}) /\ reg' = RegWithout(c) /\ mux' = Kicked(c)
          /\ UNCHANGED <<rd, lost>>
       \/ /\ e.event = "detached" /\ ~ours
          /\ lost' = IF c # None /\ strm[s].members[e.peer] = None
                     THEN lost \cup {<<e.peer, s>>} ELSE lost
          /\ UNCHANGED <<conn, reg, mux, rd>>
  BY <1>2, <1>5, <1>12 DEF ReadEvent
<1> HIDE DEF ours
<1>14. /\ rd' \in RdStates
       /\ rd'.pc = "inbox" => rd'.conn \in Conns
  <2>1. CASE rd' = rd BY <1>0, <2>1
  <2>2. CASE rd' = [rd EXCEPT !.pc = "done"] BY <1>0, <2>2 DEF RdStates
  <2>3. CASE c # None /\ rd' = [rd EXCEPT !.pc = "inbox", !.conn = c] BY <1>0, <2>3 DEF RdStates
  <2> QED BY <1>13, <2>1, <2>2, <2>3
<1>15. /\ conn' \in [Conns -> ConnStates]
       /\ \A b \in Conns : /\ conn'[b].pc = conn[b].pc /\ conn'[b].closed = conn[b].closed
                           /\ conn'[b].stream = conn[b].stream
  <2>1. CASE conn' = conn BY <1>0, <2>1
  <2>2. CASE conn' = Failed({c}) BY <1>0, <2>2, FailedFact
  <2> QED BY <1>13, <2>1, <2>2
<1>16. /\ reg' \in [Peers -> Conns \cup {None}] /\ \A p \in Peers : reg'[p] \in {None, reg[p]}
  <2>1. CASE reg' = reg BY <1>0, <2>1
  <2>2. CASE reg' = RegWithout(c) BY <1>0, <2>2, RegWithoutFact
  <2> QED BY <1>13, <2>1, <2>2
<1>17. /\ mux' \in MuxStates /\ mux'.running = mux.running /\ mux'.closed = mux.closed
       /\ mux'.cancelled = mux.cancelled /\ mux'.stream = mux.stream
  <2>1. CASE mux' = mux BY <1>0, <2>1
  <2>2. CASE mux' = Kicked(c) BY <1>0, <2>2, KickedFact
  <2> QED BY <1>13, <2>1, <2>2
<1>18. lost' \subseteq Peers \X Streams /\ lost \subseteq lost'
  <2>1. c # None => <<e.peer, s>> \in Peers \X Streams BY <1>11, <1>12
  <2> QED BY <1>0, <1>13, <2>1
<1>19. Types' BY <1>0, <1>1, <1>9, <1>14, <1>15, <1>16, <1>17, <1>18 DEF Types
<1>20. SameCalls BY <1>0, <1>1, SameCallsStay
<1>21. \A b : PeerOf(b)' = PeerOf(b) BY <1>1 DEF PeerOf
<1>22. Registered' \subseteq Registered BY <1>16 DEF Registered
<1>23. PendInv'
  <2>1. CASE UNCHANGED <<conn, reg, mux>>
    <3>1. Registered' = Registered BY <2>1 DEF Registered
    <3> QED BY <1>1, <2>1, <3>1, PendSame
  <2>2. CASE ours /\ e.event = "detached" /\ mux' = Kicked(c)
    <3>1. c \in Registered BY <1>11, <1>12, <2>2 DEF ours, Registered
    <3>2. mux'.kick = TRUE BY <1>0, <2>2, <3>1, KickedFact
    <3> QED BY <1>1, <1>22, <3>2, PendSame
  <2> QED BY <1>13, <2>1, <2>2
<1>24. ClientInv' /\ Opened \subseteq Opened'
  <2>1. \A p \in Peers : reg'[p] # None => reg'[p] = reg[p] /\ conn'[reg[p]].pc # "over"
    <3>1. \A p \in Peers : reg[p] # None => reg[p] \in Conns /\ conn[reg[p]].pc # "over"
      BY <1>0 DEF RegInv, Opened
    <3> QED BY <1>15, <1>16, <3>1
  <2>2. /\ mux'.cancelled => mux'.closed
        /\ mux'.closed => Registered' = {}
        /\ \A b \in Conns : conn'[b].closed /\ conn'[b].pc # "over" => mux'.closed
    BY <1>15, <1>17, <1>22 DEF MuxInv, ClosedInv
  <2>3. \A b \in Conns : conn'[b].stream \in {None, conn[b].stream} /\ (conn'[b].pc = "none" => conn[b].pc = "none")
    BY <1>15
  <2> QED BY <1>0, <1>1, <1>14, <1>17, <1>19, <1>20, <1>23, <2>1, <2>2, <2>3, OthersClient
<1>25. ServerInv' BY <1>0, <1>1, <1>10, <1>19, <1>20, <1>24, ServerFrame
<1>26. StreamInv'
  <2>1. \A t \in Streams : strm'[t].pc = strm[t].pc /\ strm'[t].conn = strm[t].conn BY <1>7, <1>9
  <2>2. \A t \in Streams : strm[t].pc \in {"detach", "gone"} => strm[t].conn # "up" BY <1>0 DEF StreamInv
  <2>3. LiveStreams BY <1>1, <2>1, <2>2 DEF LiveStreams
  <2>4. \A b \in Conns : conn'[b].stream \in {None, conn[b].stream} /\ (conn'[b].pc = "none" => conn[b].pc = "none")
    BY <1>15
  <2>5. SesGoesOn BY <1>1 DEF SesGoesOn
  <2> QED BY <2>3, <2>4, <2>5, LiveStreamsStay
<1>27. ASSUME NEW p \in Peers, NEW t \in Streams, Tells(strm[t], srv.muxes, p)
       PROVE  Tells(strm'[t], srv.muxes, p) \/ reg'[p] = None \/ <<p, t>> \in lost'
  <2>1. CASE t # s BY <1>9, <1>27, <2>1
  <2>2. CASE t = s /\ Contains(strm[s].wire, Event("detached", p)) /\ e = Event("detached", p)
    <3>1. e.event = "detached" /\ e.peer = p BY <2>2 DEF Event
    <3>2. p # None BY MuxAssumption DEF None
    <3>3. c = reg[p] BY <1>12, <3>1, <3>2
    <3>4. CASE reg' = RegWithout(c) BY <1>0, <3>3, <3>4, RegWithoutFact
    <3>5. CASE reg' = reg /\ lost' = IF c # None /\ strm[s].members[e.peer] = None
                                     THEN lost \cup {<<e.peer, s>>} ELSE lost
      <4>1. CASE c = None BY <3>3, <3>5, <4>1
      <4>2. CASE c # None /\ strm[s].members[p] = None BY <2>2, <3>1, <3>5, <4>2
      <4>3. CASE strm[s].members[p] # None
        <5>1. strm'[s].members[p] # None BY <1>7, <1>9, <4>3 DEF KeptStream
        <5> QED BY <2>2, <5>1 DEF Tells
      <4> QED BY <4>1, <4>2, <4>3
    <3> QED BY <1>13, <3>1, <3>4, <3>5
  <2>3. CASE t = s /\ ~(Contains(strm[s].wire, Event("detached", p)) /\ e = Event("detached", p))
    <3>1. Contains(strm[s].wire, Event("detached", p)) => Contains(w, Event("detached", p))
      BY <1>5, <2>3
    <3> QED BY <1>7, <1>9, <1>27, <2>3, <3>1 DEF Tells, KeptStream
  <2> QED BY <2>1, <2>2, <2>3
<1>28. ASSUME NEW b \in Registered', <<PeerOf(b), ses.stream>> \notin lost', ServedOrTold(b)
       PROVE  ServedOrTold(b)'
  <2>0. PICK t \in Streams : t = ses.stream BY <1>0 DEF SessionInv
  <2>1. PICK p \in Peers : reg'[p] = b /\ b # None BY <1>28 DEF Registered
  <2>2. reg[p] = b /\ PeerOf(b) = p BY <1>0, <1>16, <2>1 DEF RegInv
  <2>3. Tells(strm[t], srv.muxes, p) BY <1>28, <2>0, <2>2, ServedTells
  <2>4. Tells(strm'[t], srv.muxes, p) BY <1>27, <1>28, <2>0, <2>1, <2>2, <2>3
  <2> QED BY <1>1, <1>21, <2>0, <2>2, <2>4 DEF ServedOrTold, Tells
<1>29. JoiningTold'
  <2>1. SUFFICES ASSUME (/\ ses.pc = "put" /\ Entered(ses.put) /\ put[ses.put].conn \in Registered
                         /\ <<PeerOf(put[ses.put].conn), ses.stream>> \notin lost)'
                 PROVE  ServedOrTold(put[ses.put].conn)'
    BY DEF JoiningTold
  <2>2. PICK b : b = put[ses.put].conn OBVIOUS
  <2>3. b \in Registered' /\ <<PeerOf(b), ses.stream>> \notin lost'
    BY <1>1, <1>21, <2>1, <2>2 DEF PeerOf
  <2>4. ses.pc = "put" /\ Entered(ses.put) BY <1>1, <2>1 DEF Entered
  <2>5. b \in Registered /\ <<PeerOf(b), ses.stream>> \notin lost BY <1>18, <1>22, <2>3
  <2>6. ServedOrTold(b) BY <2>2, <2>4, <2>5 DEF MuxInv, ToldInv, JoiningTold
  <2>7. ServedOrTold(b)' BY <1>28, <2>3, <2>6
  <2> QED BY <1>1, <2>2, <2>7 DEF ServedOrTold
<1>30. JoinedOrTold'
  <2> SUFFICES ASSUME NEW b \in Registered', HasJoined(b)', <<PeerOf(b), mux.stream>>' \notin lost'
               PROVE  ServedOrTold(b)'
    BY DEF JoinedOrTold
  <2>1. b \in Registered /\ b \in Conns BY <1>0, <1>22, RegisteredConns
  <2>2. HasJoined(b) BY <1>15, <1>17, <2>1 DEF HasJoined
  <2>3. mux.stream = ses.stream BY <1>0, <2>2 DEF HasJoined, SessionInv
  <2>4. <<PeerOf(b), ses.stream>> \notin lost' BY <1>17, <1>21, <2>3
  <2>5. <<PeerOf(b), mux.stream>> \notin lost BY <1>18, <2>3, <2>4
  <2>6. ServedOrTold(b) BY <2>1, <2>2, <2>5 DEF MuxInv, ToldInv, JoinedOrTold
  <2> QED BY <1>28, <2>4, <2>6
<1> QED BY <1>19, <1>24, <1>25, <1>26, <1>29, <1>30 DEF MuxInv, ServerInv, ClientInv, ToldInv

-----------------------------------------------------------------------------
(* The invariant, and what follows.                                        *)

LEMMA InitKeeps == ASSUME Init PROVE MuxInv
<1>0. /\ NewConn \in ConnStates /\ NewConn.pc = "none" /\ ~NewConn.closed /\ NewConn.stream = None
      /\ NewStream \in StrmStates /\ NewStream.pc = "none" /\ NewStream.todo = {}
      /\ NewPut \in PutStates /\ NewPut.pc = "none" /\ NewPut.reply = "none" /\ ~NewPut.late
      /\ NewRecord \in RecStates /\ NewRecord.att = None
  BY NewRecordTypes DEF NewConn, NewStream, NewPut, NewRecord
<1>1. \A p \in Peers : NewStream.members[p] = None BY DEF NewStream
<1>2. conn = [c \in Conns |-> NewConn] /\ reg = [p \in Peers |-> None] BY DEF Init
<1>3. mux = [running |-> FALSE, closed |-> FALSE, cancelled |-> FALSE, closing |-> {},
             stream |-> None, rcv |-> None, kick |-> FALSE]
  BY DEF Init
<1>4. /\ ses \in SesStates /\ ses.pc = "off" /\ ses.todo = {}
      /\ rd \in RdStates /\ rd.pc = "off"
  BY NewRecordTypes DEF Init, Idle, NewReader
<1>5. \A s \in Streams : strm[s] = NewStream BY DEF Init
<1>6. \A a \in Puts : put[a] = NewPut BY DEF Init
<1>7. del \in [Conns -> DelStates] /\ \A c \in Conns : del[c].pc = "none" BY DEF Init, DelStates
<1>8. \A r \in Records : rec[r] = NewRecord BY DEF Init
<1>9. /\ srv = [peers |-> [p \in Peers |-> None], closed |-> FALSE, doomed |-> {}, muxes |-> FALSE]
  BY DEF Init
<1>10. mux \in MuxStates /\ ~mux.running /\ ~mux.closed /\ ~mux.cancelled /\ mux.stream = None
  BY <1>3 DEF MuxStates
<1>11. srv \in SrvStates /\ srv.doomed = {} /\ \A p \in Peers : srv.peers[p] = None
  <2>1. [p \in Peers |-> None] \in [Peers -> Records \cup {None}] OBVIOUS
  <2> QED BY <1>9, <2>1 DEF SrvStates
<1>12. env \in EnvStates /\ Len(env.calls) <= MaxConns BY MuxAssumption DEF Init, EnvStates
<1>13. Types
  <2>1. conn \in [Conns -> ConnStates] /\ reg \in [Peers -> Conns \cup {None}] BY <1>0, <1>2
  <2>2. strm \in [Streams -> StrmStates] BY <1>0 DEF Init
  <2>3. put \in [Puts -> PutStates] BY <1>0 DEF Init
  <2>4. rec \in [Records -> RecStates] BY <1>0 DEF Init
  <2>5. lost \subseteq Peers \X Streams BY DEF Init
  <2> QED BY <1>4, <1>7, <1>10, <1>11, <1>12, <2>1, <2>2, <2>3, <2>4, <2>5 DEF Types
<1>14. Registered = {} BY <1>2 DEF Registered
<1>15. RegInv BY <1>2 DEF RegInv
<1>16. SessionInv BY <1>4, <1>10 DEF SessionInv, Dialling, OnStream
<1>17. ClosedInv BY <1>0, <1>2, <1>10, <1>14 DEF ClosedInv
<1>18. \A a \in Puts : ~Entered(a) /\ ~NotAttached(a) /\ put[a].pc = "none" /\ ~put[a].late
                       /\ put[a].reply # "ok"
  BY <1>0, <1>6 DEF Entered, NotAttached
<1>19. PutInv BY <1>18 DEF PutInv
<1>20. LeaveInv
  <2>1. Joining = {} BY <1>4 DEF Joining
  <2> QED BY <1>4, <1>7, <2>1 DEF LeaveInv
<1>21. \A r \in Records : rec[r].att \notin Puts
  BY <1>0, <1>8, MuxAssumption DEF None, Puts
<1>22. RecordInv BY <1>11, <1>21 DEF RecordInv
<1>23. MemberInv BY <1>1, <1>5 DEF MemberInv
<1>24. SnapshotInv BY <1>0, <1>5 DEF SnapshotInv
<1>25. EnteredInv BY <1>18 DEF EnteredInv, Going
<1>26. AttachmentOwned BY <1>21 DEF AttachmentOwned, Owned
<1>27. PendInv BY <1>4, <1>14 DEF PendInv, JoinNoticed, PendingNoticed
<1>28. MemberWoken BY <1>21 DEF MemberWoken
<1>29. StreamInv
  <2>1. \A c \in Conns : conn[c].stream = None BY <1>0, <1>2
  <2>2. \A s \in Streams : strm[s].pc = "none" BY <1>0, <1>5
  <2> QED BY <1>4, <1>11, <2>1, <2>2 DEF StreamInv, Dialling, OnStream
<1>30. JoiningTold /\ JoinedOrTold BY <1>4, <1>14 DEF JoiningTold, JoinedOrTold
<1> QED BY <1>13, <1>15, <1>16, <1>17, <1>19, <1>20, <1>22, <1>23, <1>24, <1>25, <1>26, <1>27,
           <1>28, <1>29, <1>30 DEF MuxInv, ToldInv

LEMMA StutterKeeps == ASSUME MuxInv, UNCHANGED vars PROVE MuxInv'
<1>0. /\ conn' = conn /\ reg' = reg /\ mux' = mux /\ ses' = ses /\ rd' = rd /\ strm' = strm
      /\ put' = put /\ del' = del /\ rec' = rec /\ srv' = srv /\ env' = env /\ lost' = lost
  BY DEF vars
<1>1. Types /\ rd \in RdStates BY DEF MuxInv, Types
<1>2. SameStreams /\ SameCalls /\ strm' \in [Streams -> StrmStates]
  BY <1>0, <1>1, StreamsHold, SameCallsStay
<1>3. rd'.pc = "inbox" => rd'.conn \in Conns BY <1>0 DEF MuxInv, SessionInv
<1> QED BY <1>0, <1>1, <1>2, <1>3, ReaderMoves

LEMMA MuxStep == ASSUME MuxInv, [Next]_vars PROVE MuxInv'
<1>1. ASSUME NEW c \in Conns,
             \/ Open(c) \/ OpenPokes(c) \/ OpenReturns(c) \/ Close(c)
             \/ LeaveMember(c) \/ LeaveDetach(c) \/ LeaveLost(c)
      PROVE  MuxInv'
  BY <1>1, OpenKeeps, OpenPokesKeeps, OpenReturnsKeeps, CloseKeeps, LeaveMemberKeeps, LeaveEndsKeeps
<1>2. CASE MuxClose \/ MuxCancel BY <1>2, MuxCloseKeeps, MuxCancelKeeps
<1>3. CASE Session
  BY <1>3, KeepRunningKeeps, BackoffKeeps, DialledKeeps, HelloKeeps, ConnectFailsKeeps,
     DialDeniedKeeps, CollectKeeps, JoinKeeps, JoinedKeeps, JoinFailsKeeps, TeardownKeeps,
     SelectKeeps, DrainKeeps DEF Session
<1>4. CASE Reader \/ Received \/ Reconnects
  BY <1>4, ReadEventKeeps, ReaderKeeps, ReconnectsKeeps DEF Reader
<1>5. ASSUME NEW s \in Streams, Handler(s) \/ NetworkCut(s) PROVE MuxInv'
  BY <1>5, OpenMuxKeeps, TakeUnsentKeeps, ReportKeeps, WakeKeeps, HandlerFailsKeeps,
     DetachMemberKeeps, NetworkCutKeeps DEF Handler
<1>6. ASSUME NEW a \in Puts, JoinHandler(a) PROVE MuxInv'
  BY <1>6, LookupKeeps, InsertKeeps, DetachPrevKeeps, AttachKeeps, RecheckKeeps DEF JoinHandler
<1>7. ASSUME NEW r \in Records,
             \/ Takeover(r) \/ OtherLeaves(r) \/ Expire(r) \/ Post(r)
             \/ PostPokes(r) \/ ShutdownRecord(r)
      PROVE  MuxInv'
  BY <1>7, TakeoverKeeps, OtherLeavesKeeps, ExpireKeeps, PostKeeps, PostPokesKeeps, ShutdownRecordKeeps
<1>8. CASE ServerClose \/ ShutdownStreams BY <1>8, ServerCloseKeeps, ShutdownStreamsKeeps
<1>9. CASE UNCHANGED vars BY <1>9, StutterKeeps
<1> QED BY <1>1, <1>2, <1>3, <1>4, <1>5, <1>6, <1>7, <1>8, <1>9 DEF Next

\* In every behaviour of the mux the whole of the inductive invariant holds.
THEOREM Invariance == Spec => []MuxInv
<1>1. Init => MuxInv BY InitKeeps
<1>2. MuxInv /\ [Next]_vars => MuxInv' BY MuxStep
<1> QED BY <1>1, <1>2, PTL DEF Spec

\* The fields of Mux, of its connections, of the server's streams and of its records
\* keep their types, and run's goroutine is there exactly while m.running is set:
\* Open never starts a second one, and never relies on one that has returned.
THEOREM TypeCorrect == Spec => []TypeOK
<1>1. MuxInv => TypeOK
  <2> SUFFICES ASSUME MuxInv PROVE TypeOK OBVIOUS
  <2>0. Types BY DEF MuxInv
  <2>1. /\ conn \in [Conns -> ConnStates] /\ reg \in [Peers -> Conns \cup {None}] /\ mux \in MuxStates
        /\ ses \in SesStates /\ rd \in RdStates /\ del \in [Conns -> DelStates]
        /\ rec \in [Records -> RecStates] /\ srv \in SrvStates /\ lost \subseteq Peers \X Streams
        /\ put \in [Puts -> PutStates]
    BY <2>0 DEF Types
  <2>2. env.limit \in [Kinds -> Nat] BY <2>0 DEF Types, EnvStates
  <2>3. Serving \cup {"none", "request", "detach", "gone"}
          = {"take", "wait", "none", "request", "detach", "gone"}
    BY DEF Serving
  <2>4. strm \in [Streams -> [pc : Serving \cup {"none", "request", "detach", "gone"},
                              members : [Peers -> Puts \cup {None}], detached : Seq(Peers),
                              todo : SUBSET Puts, wake : BOOLEAN, down : BOOLEAN,
                              conn : {"up", "eof", "cut"}, wire : Seq(Events)]]
    BY <2>0, <2>3 DEF Types, StrmStates
  <2>5. mux.running <=> ses.pc # "off" BY DEF MuxInv, SessionInv
  <2> QED BY <2>1, <2>2, <2>4, <2>5
          DEF TypeOK, ConnStates, MuxStates, SesStates, RdStates, DelStates, RecStates, SrvStates, PutStates
<1> QED BY <1>1, Invariance, PTL

\* Joins, leaves, takeovers, the end of streams and the end of the server overlap in
\* any order, and what a record has attached is a member of its stream or is about to
\* be detached: muxStream.join looks at the stream again after it has attached, and
\* closeMux and leave detach what they took.  It does not look whether it is a member
\* still, so there are two exceptions (late): before join has attached, a second join
\* of the peer to the stream takes its place, or a leave removes it.
THEOREM AttachmentsOwned == Spec => []AttachmentOwned
<1>1. MuxInv => AttachmentOwned BY DEF MuxInv
<1> QED BY <1>1, Invariance, PTL

\* While session waits in its select, a connection that Open has registered and that
\* has not joined is known to it, through kick or the retry timer; and a signal that
\* POST has queued for a member is known to the handler of its stream, through wake.
THEOREM NobodyIsOverlooked == Spec => []NobodyOverlooked
<1>1. MuxInv => NobodyOverlooked BY DEF MuxInv, PendInv, NobodyOverlooked
<1> QED BY <1>1, Invariance, PTL

\* A connection that has joined is served by the stream, or the client is about to be
\* told that it is not; the only exceptions are the two ways that lost records until a
\* join makes the peer a member again, a late leave and a takeover whose event is read
\* before the answer to the PUT.
THEOREM JoinedAreTold == Spec => []JoinedOrTold
<1>1. MuxInv => JoinedOrTold BY DEF MuxInv, ToldInv
<1> QED BY <1>1, Invariance, PTL
=============================================================================
