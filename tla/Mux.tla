--------------------------------- MODULE Mux ---------------------------------
(***************************************************************************)
(* Many local peers on one event stream: the client side (sse/mux.go), the *)
(* server side (sse/mux_server.go), and the records of the peers as far as *)
(* a shared stream sees them (sse/server.go; the numbering and the replay  *)
(* of signals are in module Sse).                                          *)
(*                                                                         *)
(* Open registers a connection and pokes the goroutine of run, which keeps *)
(* one stream attached while a connection is registered and joins each to  *)
(* it with a PUT.  The server keeps for each stream its members; each      *)
(* member is an attachment at the record of its peer, which another        *)
(* client's stream may replace.  A closed connection leaves with a DELETE. *)
(*                                                                         *)
(* A step is a critical section of the mutex of the Mux, of a stream or of *)
(* a record, with what follows it that nobody else can see.  A PUT makes   *)
(* one attachment and is its identity.  Whether the client waits for a     *)
(* DELETE does not matter here, as it gives up after leaveTimeout.         *)
(***************************************************************************)
EXTENDS Integers, Sequences, FiniteSets, SequencesExt

CONSTANTS
  Peers,         \* local peer IDs
  MaxConns,      \* calls of Open
  MaxStreams,    \* GET requests in all; then the server cannot be reached
  MaxPuts,       \* PUT requests in all; then the server cannot be reached
  MaxRecords,    \* records made in all; then MaxPeers is reached
  Scenarios      \* whom Open is called for, and how often what may happen; each
                 \* behaviour is one of these

\* cut    the network loses a stream, or the request for one
\* again  the receiver asks for a stream anew when it has lost one
\* drop   the network loses a PUT, or its answer
\* deny   the server refuses a credential, or what answers is no such server
\* take   another client opens a stream for a peer
\* grace  a record is without a stream for OfflineGrace
\* post   a signal is posted
\* down   the server is closed
\* close  Mux.Close is called
Kinds == {"cut", "again", "drop", "deny", "take", "grace", "post", "down", "close"}

ASSUME MuxAssumption ==
  /\ MaxConns \in Nat /\ MaxStreams \in Nat /\ MaxPuts \in Nat /\ MaxRecords \in Nat
  /\ \A sc \in Scenarios : /\ sc \in [calls : Seq(Peers), limit : [Kinds -> Nat]]
                           /\ Len(sc.calls) <= MaxConns
  /\ 0 \notin Peers

None    == 0
Conns   == 1 .. MaxConns
Streams == 1 .. MaxStreams
Puts    == 1 .. MaxPuts
Records == 1 .. MaxRecords
Other   == MaxPuts + 1     \* the attachment of another client

VARIABLES
  conn,   \* the connections (muxConn) with their calls of Open
  reg,    \* Mux.conns
  mux,    \* the other fields of Mux
  ses,    \* the goroutine of run, with session and joinPending
  rd,     \* the goroutine of read
  strm,   \* the server's streams (muxStream), each with its connection
  put,    \* the PUT requests (serveJoin)
  del,    \* the DELETE request of each connection (serveLeave)
  rec,    \* the records (peer)
  srv,    \* Server
  env,    \* the scenario, and what of it may still happen (a bound)
  lost    \* history: peers whose membership of a stream was lost unnoticed

vars == <<conn, reg, mux, ses, rd, strm, put, del, rec, srv, env, lost>>
client == <<conn, reg, mux, ses, rd>>
server == <<strm, put, del, rec, srv>>

-----------------------------------------------------------------------------
(* Initial values.                                                         *)

\* pc of Open: registered and about to poke, waiting, returned.
NewConn == [pc |-> "none", ready |-> FALSE, closed |-> FALSE, failed |-> FALSE,
            stream |-> None]

\* err  what session returns once read has ended
Idle == [pc |-> "off", stream |-> None, auth |-> None, todo |-> {}, put |-> None,
         retry |-> FALSE, err |-> FALSE]

\* fresh  the stream that the receiver has asked for on its own
NewReader == [pc |-> "off", conn |-> None, fresh |-> None, stop |-> FALSE]

\* todo  the rest of a snapshot, and once closed what is left to detach
\* conn  "up", "eof" once the handler has returned, "cut"
NewStream == [pc |-> "none", members |-> [p \in Peers |-> None], detached |-> <<>>,
              todo |-> {}, wake |-> FALSE, down |-> FALSE, conn |-> "up", wire |-> <<>>]

\* prev  the attachment that the new member has overwritten, to be detached
\* late  no member any more before it was attached: another join of the peer took
\*       its place, or a leave removed it (history)
NewPut == [pc |-> "none", conn |-> None, stream |-> None, rec |-> None,
           prev |-> None, reply |-> "none", late |-> FALSE]

\* poke  the attachment that a POST is about to wake
NewRecord == [peer |-> None, att |-> None, unsent |-> FALSE, sent |-> FALSE,
              down |-> FALSE, poke |-> None]

Init ==
  /\ conn = [c \in Conns |-> NewConn]
  /\ reg = [p \in Peers |-> None]
  /\ mux = [running |-> FALSE, closed |-> FALSE, cancelled |-> FALSE, closing |-> {},
            stream |-> None, rcv |-> None, kick |-> FALSE]
  /\ ses = Idle
  /\ rd = NewReader
  /\ strm = [s \in Streams |-> NewStream]
  /\ put = [a \in Puts |-> NewPut]
  /\ del = [c \in Conns |-> [pc |-> "none", stream |-> None, att |-> None]]
  /\ rec = [r \in Records |-> NewRecord]
  /\ srv = [peers |-> [p \in Peers |-> None], closed |-> FALSE, doomed |-> {},
            muxes |-> FALSE]
  /\ env \in Scenarios
  /\ lost = {}

Happens(k) == env.limit[k] > 0 /\ env' = [env EXCEPT !.limit[k] = @ - 1]

\* The peer that call c of Open is for.
PeerOf(c) == env.calls[c]

-----------------------------------------------------------------------------
(* What the client's goroutines share.                                     *)

\* A connection whose call of Open or of Close has returned for good; nobody
\* tells closed and failed apart any more.
Over == [NewConn EXCEPT !.pc = "over", !.closed = TRUE]

\* fail
Failed(cs) == [c \in Conns |-> IF c \in cs /\ conn[c].pc # "over"
                               THEN [conn[c] EXCEPT !.failed = TRUE] ELSE conn[c]]

Registered == {reg[p] : p \in Peers} \ {None}

\* Mux.conns and kick after remove(c).
RegWithout(c) == IF c \in Registered THEN [reg EXCEPT ![PeerOf(c)] = None] ELSE reg

Kicked(c) == IF c \in Registered THEN [mux EXCEPT !.kick = TRUE] ELSE mux

\* The stream that remove(c) reports.
StreamOf(c) == IF c \in Registered /\ conn[c].stream = mux.stream THEN mux.stream ELSE None

\* leave: best effort, and not at all once the Mux is closed.
Leave(c, s) ==
  IF s = None \/ mux.cancelled THEN del
  ELSE [del EXCEPT ![c] = [pc |-> "sent", stream |-> s, att |-> None]]

\* The client lets go of the connection of stream s, or the network does.
Cut(s) == IF s = None THEN strm ELSE [strm EXCEPT ![s].conn = "cut", ![s].wire = <<>>]

\* What the receiver that was opened for stream s is connected to.
Receiving(s) == IF rd.fresh = None THEN s ELSE rd.fresh

-----------------------------------------------------------------------------
(* Open, and Close of a connection.                                        *)

Open(c) ==
  /\ c <= Len(env.calls) /\ conn[c].pc = "none" /\ \A b \in Conns : b < c => conn[b].pc # "none"
  /\ \/ /\ mux.closed \/ reg[PeerOf(c)] # None
        /\ conn' = [conn EXCEPT ![c] = Over]
        /\ UNCHANGED <<reg, mux, ses>>
     \/ /\ ~mux.closed /\ reg[PeerOf(c)] = None
        /\ conn' = [conn EXCEPT ![c].pc = "poke"]
        /\ reg' = [reg EXCEPT ![PeerOf(c)] = c]
        /\ mux' = [mux EXCEPT !.running = TRUE]
        /\ ses' = IF mux.running THEN ses ELSE [Idle EXCEPT !.pc = "check"]
  /\ UNCHANGED <<rd, server, env, lost>>

\* Mutant of OpenPokes: a goroutine that is running is not told of c.
OpenSilent(c) ==
  /\ conn[c].pc = "poke"
  /\ conn' = [conn EXCEPT ![c].pc = "wait"]
  /\ UNCHANGED <<mux, reg, ses, rd, server, env, lost>>

OpenPokes(c) ==
  /\ conn[c].pc = "poke"
  /\ conn' = [conn EXCEPT ![c].pc = "wait"]
  /\ mux' = [mux EXCEPT !.kick = TRUE]
  /\ UNCHANGED <<reg, ses, rd, server, env, lost>>

\* Open's select: joined, failed, or closed by Mux.Close.
OpenReturns(c) ==
  /\ conn[c].pc = "wait"
  /\ \/ /\ conn[c].ready
        /\ conn' = [conn EXCEPT ![c].pc = "open"]
        /\ UNCHANGED <<reg, mux>>
     \/ /\ conn[c].failed
        /\ conn' = [conn EXCEPT ![c] = Over]
        /\ reg' = RegWithout(c)
        /\ mux' = Kicked(c)
     \/ /\ conn[c].closed
        /\ conn' = [conn EXCEPT ![c] = Over]
        /\ UNCHANGED <<reg, mux>>
  /\ UNCHANGED <<ses, rd, server, env, lost>>

\* Close by the user, or by Open when its context is done.
Close(c) ==
  /\ conn[c].pc \in {"wait", "open"} /\ ~conn[c].closed
  /\ conn' = [conn EXCEPT ![c] = Over]
  /\ reg' = RegWithout(c)
  /\ mux' = Kicked(c)
  /\ del' = Leave(c, StreamOf(c))
  /\ UNCHANGED <<ses, rd, strm, put, rec, srv, env, lost>>

-----------------------------------------------------------------------------
(* Mux.Close: its critical section, then what it does with what it took.   *)
(* m.rcv does not change in between unless session has closed it.          *)

MuxClose ==
  /\ ~mux.closed /\ Happens("close")
  /\ mux' = [mux EXCEPT !.closed = TRUE, !.closing = Registered]
  /\ reg' = [p \in Peers |-> None]
  /\ UNCHANGED <<conn, ses, rd, server, lost>>

MuxCancel ==
  /\ mux.closed /\ ~mux.cancelled
  /\ mux' = [mux EXCEPT !.cancelled = TRUE, !.closing = {}]
  /\ strm' = Cut(Receiving(mux.rcv))
  /\ conn' = [c \in Conns |-> IF c \in mux.closing THEN [conn[c] EXCEPT !.closed = TRUE]
                              ELSE conn[c]]
  /\ UNCHANGED <<reg, ses, rd, put, del, rec, srv, env, lost>>

-----------------------------------------------------------------------------
(* The goroutine of run: keepRunning, session, connect, joinPending.       *)

\* Mutant of SessionOver: run returns and the Mux believes that it runs.
SessionForgotten(err, m) ==
  /\ ses' = IF mux.cancelled THEN Idle
            ELSE [Idle EXCEPT !.pc = IF err THEN "backoff" ELSE "check"]
  /\ mux' = m

\* session has returned, and run goes on: its conjuncts on ses and on running.
SessionOver(err, m) ==
  IF mux.cancelled
  THEN ses' = Idle /\ mux' = [m EXCEPT !.running = FALSE]
  ELSE ses' = [Idle EXCEPT !.pc = IF err THEN "backoff" ELSE "check"] /\ mux' = m

\* keepRunning, then pickAuth and the request for a stream.
KeepRunning ==
  /\ ses.pc = "check"
  /\ \/ /\ mux.closed \/ Registered = {}
        /\ ses' = Idle
        /\ mux' = [mux EXCEPT !.running = FALSE]
        /\ UNCHANGED strm
     \/ /\ ~mux.closed
        /\ \E c \in Registered, s \in Streams :
             /\ strm[s].pc = "none" /\ \A t \in Streams : t < s => strm[t].pc # "none"
             /\ strm' = [strm EXCEPT ![s].pc = "request"]
             /\ ses' = [ses EXCEPT !.pc = "dial", !.auth = c, !.stream = s]
        /\ UNCHANGED mux
     \/ /\ ~mux.closed /\ Registered # {} /\ \A s \in Streams : strm[s].pc # "none"
        /\ SessionOver(TRUE, mux)
        /\ UNCHANGED strm
  /\ UNCHANGED <<conn, reg, rd, put, del, rec, srv, env, lost>>

\* The delay of the backoff is over, or the context is done.
Backoff ==
  /\ ses.pc = "backoff"
  /\ ses' = [ses EXCEPT !.pc = "check"]
  /\ UNCHANGED <<conn, reg, mux, rd, server, env, lost>>

\* The response is there; a Mux that was closed meanwhile drops it.
Dialled ==
  /\ ses.pc = "dial" /\ strm[ses.stream].pc # "request" /\ strm[ses.stream].conn = "up"
  /\ IF mux.closed
     THEN strm' = Cut(ses.stream) /\ SessionOver(TRUE, mux)
     ELSE /\ mux' = [mux EXCEPT !.rcv = ses.stream]
          /\ ses' = [ses EXCEPT !.pc = "hello", !.auth = None]
          /\ UNCHANGED strm
  /\ UNCHANGED <<conn, reg, rd, put, del, rec, srv, env, lost>>

\* The first event names the stream, and read is started.
Hello ==
  /\ ses.pc = "hello" /\ strm[ses.stream].wire # <<>>
  /\ strm' = [strm EXCEPT ![ses.stream].wire = Tail(@)]
  /\ mux' = [mux EXCEPT !.stream = ses.stream]
  /\ ses' = [ses EXCEPT !.pc = "collect"]
  /\ rd' = [NewReader EXCEPT !.pc = "read"]
  /\ UNCHANGED <<conn, reg, put, del, rec, srv, env, lost>>

\* No stream: the request or the connection fails; or the answer is not an event
\* stream of this protocol, and every connection fails (failAll).
ConnectFails ==
  /\ \/ ses.pc = "dial"
     \/ ses.pc = "hello" /\ strm[ses.stream].conn # "up"
  /\ strm' = Cut(ses.stream)
  /\ \/ /\ IF strm[ses.stream].conn = "up" THEN Happens("cut") ELSE UNCHANGED env
        /\ SessionOver(TRUE, [mux EXCEPT !.rcv = None])
        /\ UNCHANGED <<conn, reg>>
     \/ /\ ~mux.cancelled /\ Happens("deny")
        /\ conn' = Failed(Registered)
        /\ reg' = [p \in Peers |-> None]
        /\ SessionOver(FALSE, [mux EXCEPT !.rcv = None])
  /\ UNCHANGED <<rd, put, del, rec, srv, lost>>

\* The credential is refused: that peer's connection alone fails.
DialDenied ==
  /\ ses.pc = "dial" /\ strm[ses.stream].pc = "request" /\ ~mux.cancelled
  /\ Happens("deny")
  /\ strm' = [strm EXCEPT ![ses.stream].pc = "gone", ![ses.stream].conn = "cut"]
  /\ conn' = Failed({ses.auth})
  /\ reg' = RegWithout(ses.auth)
  /\ SessionOver(FALSE, Kicked(ses.auth))
  /\ UNCHANGED <<rd, put, del, rec, srv, lost>>

\* joinPending: who is not on the stream yet.
Collect ==
  /\ ses.pc = "collect"
  /\ ses' = [ses EXCEPT !.pc = "join", !.retry = FALSE,
                        !.todo = {c \in Registered : conn[c].stream # ses.stream}]
  /\ UNCHANGED <<conn, reg, mux, rd, server, env, lost>>

\* The PUT for one of them.  Once none is left joinPending returns, and session
\* waits while there is somebody to serve.
Join ==
  /\ ses.pc = "join"
  /\ \/ /\ ses.todo = {} /\ Registered # {}
        /\ ses' = [ses EXCEPT !.pc = "select"]
        /\ UNCHANGED put
     \/ \E c \in ses.todo, a \in Puts :
          /\ put[a].pc = "none" /\ \A b \in Puts : b < a => put[b].pc # "none"
          /\ put' = [put EXCEPT ![a] = [NewPut EXCEPT !.pc = "request", !.conn = c,
                                                      !.stream = ses.stream]]
          /\ ses' = [ses EXCEPT !.pc = "put", !.put = a, !.todo = @ \ {c}]
     \/ /\ ses.todo # {} /\ \A a \in Puts : put[a].pc # "none"
        /\ ses' = [ses EXCEPT !.todo = {}, !.retry = ~mux.cancelled]
        /\ UNCHANGED put
  /\ UNCHANGED <<conn, reg, mux, rd, strm, del, rec, srv, env, lost>>

\* The PUT succeeds; a connection closed meanwhile leaves again.
Joined ==
  /\ ses.pc = "put" /\ put[ses.put].reply = "ok"
  /\ LET c == put[ses.put].conn
     IN  IF c \in Registered
         THEN /\ conn' = [conn EXCEPT ![c].stream = ses.stream, ![c].ready = TRUE]
              /\ UNCHANGED del
         ELSE /\ del' = Leave(c, ses.stream)
              /\ UNCHANGED conn
  /\ ses' = [ses EXCEPT !.pc = "join", !.put = None]
  /\ UNCHANGED <<reg, mux, rd, strm, put, rec, srv, env, lost>>

\* The PUT is refused, answered with an error, or lost in the network, on its
\* way or on the way back.
JoinFails ==
  /\ ses.pc = "put"
  /\ LET c == put[ses.put].conn
     IN  \/ /\ mux.cancelled
            /\ ses' = [ses EXCEPT !.pc = "join", !.put = None, !.todo = {}, !.retry = FALSE]
            /\ UNCHANGED <<conn, reg, mux, env>>
         \/ /\ ~mux.cancelled /\ put[ses.put].reply = "denied"
            /\ ses' = [ses EXCEPT !.pc = "join", !.put = None]
            /\ conn' = Failed({c})
            /\ reg' = RegWithout(c)
            /\ mux' = Kicked(c)
            /\ UNCHANGED env
         \/ /\ ~mux.cancelled
            /\ IF put[ses.put].reply = "error" THEN UNCHANGED env ELSE Happens("drop")
            /\ ses' = [ses EXCEPT !.pc = "join", !.put = None, !.retry = TRUE]
            /\ UNCHANGED <<conn, reg, mux>>
  /\ UNCHANGED <<rd, server, lost>>

\* teardown, and what it leaves of the Mux.
Torn == [mux EXCEPT !.stream = None, !.rcv = None]

\* The server does not know the stream any more; or no connection is left; or the
\* Mux is closed.
Teardown ==
  /\ \/ /\ ses.pc = "put" /\ put[ses.put].reply = "gone"
        /\ ses' = [ses EXCEPT !.pc = "drain", !.err = TRUE, !.put = None, !.todo = {}]
     \/ /\ ses.pc = "join" /\ ses.todo = {} /\ Registered = {}
        /\ ses' = [ses EXCEPT !.pc = "drain"]
     \/ /\ ses.pc = "select" /\ mux.cancelled
        /\ ses' = [ses EXCEPT !.pc = "drain"]
  /\ mux' = Torn
  /\ strm' = Cut(Receiving(ses.stream))
  /\ rd' = [rd EXCEPT !.stop = TRUE]
  /\ UNCHANGED <<conn, reg, put, del, rec, srv, env, lost>>

\* session's select: a poke or the retry timer, or read has ended.
Select ==
  /\ ses.pc = "select"
  /\ \/ /\ mux.kick
        /\ ses' = [ses EXCEPT !.pc = "collect"]
        /\ mux' = [mux EXCEPT !.kick = FALSE]
        /\ UNCHANGED <<rd, strm>>
     \/ /\ ses.retry
        /\ ses' = [ses EXCEPT !.pc = "collect"]
        /\ UNCHANGED <<mux, rd, strm>>
     \/ /\ rd.pc = "done"
        /\ SessionOver(TRUE, Torn)
        /\ strm' = Cut(Receiving(ses.stream))
        /\ rd' = NewReader
  /\ UNCHANGED <<conn, reg, put, del, rec, srv, env, lost>>

\* <-readErr after a teardown
Drain ==
  /\ ses.pc = "drain" /\ rd.pc = "done"
  /\ rd' = NewReader
  /\ SessionOver(ses.err, mux)
  /\ UNCHANGED <<conn, reg, server, env, lost>>

Session == \/ KeepRunning \/ Backoff \/ Dialled \/ Hello \/ ConnectFails
           \/ DialDenied \/ Collect \/ Join \/ Joined \/ JoinFails \/ Teardown
           \/ Select \/ Drain

-----------------------------------------------------------------------------
(* read.                                                                   *)

Event(e, p) == [event |-> e, peer |-> p]

\* One event.  A signal is for whoever is registered now, and is given up only
\* when its inbox has room; "detached" fails the connection it is about, if that
\* has joined; "shutdown" ends the stream, and so does "mux", with which a stream
\* begins: the receiver has reconnected.
ReadEvent ==
  LET s == Receiving(ses.stream)
  IN  /\ rd.pc = "read" /\ strm[s].wire # <<>>
      /\ LET e    == Head(strm[s].wire)
             c    == IF e.peer = None THEN None ELSE reg[e.peer]
             ours == c # None /\ conn[c].stream = ses.stream
         IN  \/ /\ e.event = "signal"
                /\ rd' = IF c = None THEN rd ELSE [rd EXCEPT !.pc = "inbox", !.conn = c]
                /\ UNCHANGED <<conn, reg, mux, lost>>
             \/ /\ e.event = "detached" /\ ours
                /\ conn' = Failed({c})
                /\ reg' = RegWithout(c)
                /\ mux' = Kicked(c)
                /\ UNCHANGED <<rd, lost>>
             \/ /\ e.event = "detached" /\ ~ours
                /\ lost' = IF c # None /\ strm[s].members[e.peer] = None
                           THEN lost \cup {<<e.peer, s>>} ELSE lost
                /\ UNCHANGED <<conn, reg, mux, rd>>
             \/ /\ e.event \in {"shutdown", "mux"}
                /\ rd' = [rd EXCEPT !.pc = "done"]
                /\ UNCHANGED <<conn, reg, mux, lost>>
      /\ strm' = [strm EXCEPT ![s].wire = Tail(@)]
      /\ UNCHANGED <<ses, put, del, rec, srv, env>>

\* The endpoint has made room in the inbox and takes the signal.
Received ==
  /\ rd.pc = "inbox"
  /\ rd' = [rd EXCEPT !.pc = "read", !.conn = None]
  /\ UNCHANGED <<conn, reg, mux, ses, server, env, lost>>

\* The wait for room is over as the connection is, or the stream.
GiveUp ==
  /\ rd.pc = "inbox"
  /\ \/ /\ conn[rd.conn].closed \/ conn[rd.conn].failed
        /\ rd' = [rd EXCEPT !.pc = "read", !.conn = None]
     \/ /\ rd.stop
        /\ rd' = [rd EXCEPT !.pc = "done", !.conn = None]
  /\ UNCHANGED <<conn, reg, mux, ses, server, env, lost>>

\* Nothing more can be read.
ReadFails ==
  LET s == Receiving(ses.stream)
  IN  /\ rd.pc = "read" /\ strm[s].conn # "up" /\ strm[s].wire = <<>>
      /\ rd' = [rd EXCEPT !.pc = "done"]
      /\ UNCHANGED <<conn, reg, mux, ses, server, env, lost>>

\* Or the receiver (external) reconnects, unless it was closed.  Before the first
\* event that is no different from ConnectFails and another request.
Reconnects ==
  /\ rd.pc = "read" /\ rd.fresh = None /\ ~rd.stop /\ ~mux.cancelled
  /\ strm[ses.stream].conn # "up" /\ strm[ses.stream].wire = <<>>
  /\ Happens("again")
  /\ \E s \in Streams :
       /\ strm[s].pc = "none" /\ \A t \in Streams : t < s => strm[t].pc # "none"
       /\ strm' = [strm EXCEPT ![s].pc = "request"]
       /\ rd' = [rd EXCEPT !.fresh = s]
  /\ UNCHANGED <<conn, reg, mux, ses, put, del, rec, srv, lost>>

Reader == ReadEvent \/ GiveUp \/ ReadFails

-----------------------------------------------------------------------------
(* The server's records, as far as shared streams see them.                *)

Serving == {"take", "wait"}

\* Mutant of Ended: the client is not told of a takeover.
EndedSilently(st, a, p, reason) ==
  IF a \notin Puts THEN st
  ELSE LET s == put[a].stream
       IN  IF st[s].members[p] # a THEN st
           ELSE [st EXCEPT ![s].members[p] = None, ![s].wake = TRUE]

\* muxStream.ended, called with the end of attachment a of peer p.
Ended(st, a, p, reason) ==
  IF a \notin Puts THEN st
  ELSE LET s == put[a].stream
       IN  IF st[s].members[p] # a THEN st
           ELSE [st EXCEPT ![s].members[p] = None, ![s].wake = TRUE,
                           ![s].detached = IF reason = "replaced" THEN Append(@, p) ELSE @]

\* peer.detach
Detached(rs, a) ==
  [r \in Records |-> IF rs[r].att = a THEN [rs[r] EXCEPT !.att = None] ELSE rs[r]]

\* Another client opens a stream for the peer of record r: it is admitted and
\* attaches.
Takeover(r) ==
  /\ rec[r].peer # None /\ srv.peers[rec[r].peer] = r /\ rec[r].att # Other
  /\ Happens("take")
  /\ strm' = Ended(strm, rec[r].att, rec[r].peer, "replaced")
  /\ rec' = [rec EXCEPT ![r].att = Other]
  /\ UNCHANGED <<client, put, del, srv, lost>>

\* The other client goes.
OtherLeaves(r) ==
  /\ rec[r].att = Other
  /\ rec' = [rec EXCEPT ![r].att = None]
  /\ UNCHANGED <<client, strm, put, del, srv, env, lost>>

\* expire and forget, after OfflineGrace without a stream (apart in module Sse;
\* here a join that was admitted before stands for one admitted in between)
Expire(r) ==
  /\ rec[r].peer # None /\ rec[r].att = None /\ ~rec[r].down /\ Happens("grace")
  /\ rec' = [rec EXCEPT ![r].down = TRUE, ![r].unsent = FALSE]
  /\ srv' = IF srv.peers[rec[r].peer] = r THEN [srv EXCEPT !.peers[rec[r].peer] = None]
            ELSE srv
  /\ UNCHANGED <<client, strm, put, del, lost>>

\* serveSend: enqueue, which notes the attachment of that moment, and its poke.
Post(r) ==
  /\ rec[r].peer # None /\ srv.peers[rec[r].peer] = r /\ ~rec[r].down /\ rec[r].poke = None
  /\ Happens("post")
  /\ rec' = [rec EXCEPT ![r].unsent = TRUE,
                        ![r].poke = IF rec[r].att \in Puts THEN rec[r].att ELSE None]
  /\ UNCHANGED <<client, strm, put, del, srv, lost>>

Poked(st, s) == IF s # None /\ st[s].pc \in Serving THEN [st EXCEPT ![s].wake = TRUE] ELSE st

\* Mutant of PostPokes: the stream is not woken.
PostSilent(r) ==
  /\ rec[r].poke # None
  /\ rec' = [rec EXCEPT ![r].poke = None]
  /\ UNCHANGED <<client, strm, put, del, srv, env, lost>>

PostPokes(r) ==
  /\ rec[r].poke # None
  /\ strm' = Poked(strm, put[rec[r].poke].stream)
  /\ rec' = [rec EXCEPT ![r].poke = None]
  /\ UNCHANGED <<client, put, del, srv, env, lost>>

\* Server.Close: the maps are taken under the mutex, then each record is shut
\* down, then each stream.
ServerClose ==
  /\ ~srv.closed /\ Happens("down")
  /\ srv' = [srv EXCEPT !.closed = TRUE, !.muxes = TRUE,
                        !.doomed = {srv.peers[p] : p \in Peers} \ {None},
                        !.peers = [p \in Peers |-> None]]
  /\ UNCHANGED <<client, strm, put, del, rec, lost>>

ShutdownRecord(r) ==
  /\ r \in srv.doomed
  /\ srv' = [srv EXCEPT !.doomed = @ \ {r}]
  /\ strm' = Ended(strm, rec[r].att, rec[r].peer, "shutdown")
  /\ rec' = [rec EXCEPT ![r].down = TRUE, ![r].unsent = FALSE, ![r].att = None]
  /\ UNCHANGED <<client, put, del, env, lost>>

ShutdownStreams ==
  /\ srv.muxes /\ srv.doomed = {}
  /\ srv' = [srv EXCEPT !.muxes = FALSE]
  /\ strm' = [s \in Streams |-> IF strm[s].pc \in Serving THEN [strm[s] EXCEPT !.down = TRUE]
                                ELSE strm[s]]
  /\ UNCHANGED <<client, put, del, rec, env, lost>>

-----------------------------------------------------------------------------
(* serveMuxStream: the handler of stream s.                                *)

\* Events go out, and are lost when the connection is.
Pushed(h, es) == IF h.conn = "up" THEN [h EXCEPT !.wire = @ \o es] ELSE h

\* openMux, and the event that names the stream.
OpenMux(s) ==
  /\ strm[s].pc = "request"
  /\ strm' = [strm EXCEPT ![s] =
                IF srv.closed THEN [strm[s] EXCEPT !.pc = "gone", !.conn = "eof"]
                ELSE Pushed([strm[s] EXCEPT !.pc = "take"], <<Event("mux", None)>>)]
  /\ UNCHANGED <<client, put, del, rec, srv, env, lost>>

\* takeUnsent for one member of the snapshot, and its signals are written.
TakeUnsent(s) ==
  /\ strm[s].pc = "take"
  /\ \E a \in strm[s].todo :
       LET r    == put[a].rec
           took == rec[r].att = a /\ rec[r].unsent
       IN  /\ rec' = IF took THEN [rec EXCEPT ![r].unsent = FALSE, ![r].sent = TRUE] ELSE rec
           /\ strm' = [strm EXCEPT ![s] =
                         Pushed([strm[s] EXCEPT !.todo = @ \ {a}],
                                IF took THEN <<Event("signal", rec[r].peer)>> ELSE <<>>)]
  /\ UNCHANGED <<client, put, del, srv, env, lost>>

\* takeDetached: the client is told who was taken over.
Report(s) ==
  /\ strm[s].pc = "take" /\ strm[s].todo = {}
  /\ strm' = [strm EXCEPT ![s] =
                Pushed([strm[s] EXCEPT !.pc = "wait", !.detached = <<>>],
                       [i \in DOMAIN strm[s].detached |->
                          Event("detached", strm[s].detached[i])])]
  /\ UNCHANGED <<client, put, del, rec, srv, env, lost>>

\* The handler returns: closeMux takes the members, and detaches them next.
CloseMux(h) ==
  [NewStream EXCEPT !.pc = IF h.members = NewStream.members THEN "gone" ELSE "detach",
                    !.todo = {h.members[p] : p \in Peers} \ {None},
                    !.wire = h.wire, !.conn = IF h.conn = "up" THEN "eof" ELSE h.conn]

\* The select of the handler, and the snapshot of the members.
Wake(s) ==
  /\ strm[s].pc = "wait"
  /\ \/ /\ strm[s].wake
        /\ strm' = [strm EXCEPT ![s].pc = "take", ![s].wake = FALSE,
                                ![s].todo = {strm[s].members[p] : p \in Peers} \ {None}]
     \/ /\ strm[s].down
        /\ strm' = [strm EXCEPT ![s] = CloseMux(Pushed(strm[s], <<Event("shutdown", None)>>))]
  /\ UNCHANGED <<client, put, del, rec, srv, env, lost>>

\* Mutant of HandlerFails: a handler that waits does not notice.
HandlerDeaf(s) ==
  /\ strm[s].pc = "take" /\ strm[s].conn = "cut"
  /\ strm' = [strm EXCEPT ![s] = CloseMux(strm[s])]
  /\ UNCHANGED <<client, put, del, rec, srv, env, lost>>

\* A write or a keepalive fails, or the request's context is done.
HandlerFails(s) ==
  /\ strm[s].pc \in Serving /\ strm[s].conn = "cut"
  /\ strm' = [strm EXCEPT ![s] = CloseMux(strm[s])]
  /\ UNCHANGED <<client, put, del, rec, srv, env, lost>>

DetachMember(s) ==
  /\ strm[s].pc = "detach"
  /\ \E a \in strm[s].todo :
       /\ rec' = Detached(rec, a)
       /\ strm' = [strm EXCEPT ![s].todo = @ \ {a},
                               ![s].pc = IF strm[s].todo = {a} THEN "gone" ELSE @]
  /\ UNCHANGED <<client, put, del, srv, env, lost>>

NetworkCut(s) ==
  /\ strm[s].pc \in Serving \/ s = rd.fresh
  /\ strm[s].conn = "up" /\ Happens("cut")
  /\ strm' = Cut(s)
  /\ UNCHANGED <<client, put, del, rec, srv, lost>>

Handler(s) == \/ OpenMux(s) \/ TakeUnsent(s) \/ Report(s) \/ Wake(s)
              \/ HandlerFails(s) \/ DetachMember(s)

-----------------------------------------------------------------------------
(* serveJoin: the handler of PUT a; and serveLeave.                        *)

\* The handler answers and is over.
Replies(a, how) ==
  [put EXCEPT ![a] = IF how = "ok" THEN [put[a] EXCEPT !.pc = "done", !.reply = how]
                     ELSE [NewPut EXCEPT !.pc = "done", !.conn = put[a].conn, !.reply = how]]

\* ServeHTTP, lookupMux and admit.
Lookup(a) ==
  /\ put[a].pc = "request"
  /\ LET p == PeerOf(put[a].conn)
     IN  \/ /\ srv.closed
            /\ \E how \in {"error", "gone"} : put' = Replies(a, how)
            /\ UNCHANGED <<rec, srv, env>>
         \/ /\ Happens("deny")
            /\ put' = Replies(a, "denied")
            /\ UNCHANGED <<rec, srv>>
         \/ /\ ~srv.closed /\ strm[put[a].stream].pc \notin Serving
            /\ put' = Replies(a, "gone")
            /\ UNCHANGED <<rec, srv, env>>
         \/ /\ ~srv.closed /\ strm[put[a].stream].pc \in Serving /\ srv.peers[p] # None
            /\ put' = [put EXCEPT ![a].pc = "insert", ![a].rec = srv.peers[p]]
            /\ UNCHANGED <<rec, srv, env>>
         \/ /\ ~srv.closed /\ strm[put[a].stream].pc \in Serving /\ srv.peers[p] = None
            /\ \E r \in Records :
                 /\ rec[r].peer = None /\ \A q \in Records : q < r => rec[q].peer # None
                 /\ rec' = [rec EXCEPT ![r].peer = p]
                 /\ srv' = [srv EXCEPT !.peers[p] = r]
                 /\ put' = [put EXCEPT ![a].pc = "insert", ![a].rec = r]
            /\ UNCHANGED env
         \/ /\ srv.peers[p] = None /\ \A r \in Records : rec[r].peer # None
            /\ put' = Replies(a, "error")
            /\ UNCHANGED <<rec, srv, env>>
  /\ UNCHANGED <<client, strm, del, lost>>

\* The join of a has not attached yet.
NotAttached(a) == put[a].pc \in {"swap", "attach"}

\* join records the member.  What it overwrites is to be detached only from a
\* record that has been forgotten; otherwise the attach is to replace it.
Insert(a) ==
  /\ put[a].pc = "insert"
  /\ LET p    == PeerOf(put[a].conn)
         s    == put[a].stream
         prev == strm[s].members[p]
     IN  \/ /\ strm[s].pc \notin Serving
            /\ put' = Replies(a, "gone")
            /\ UNCHANGED <<strm, lost>>
         \/ /\ strm[s].pc \in Serving
            /\ strm' = [strm EXCEPT ![s].members[p] = a]
            /\ put' = [b \in Puts |->
                         IF b = a
                         THEN IF prev # None /\ put[prev].rec # put[a].rec
                              THEN [put[a] EXCEPT !.pc = "swap", !.prev = prev]
                              ELSE [put[a] EXCEPT !.pc = "attach"]
                         ELSE IF b = prev THEN [put[b] EXCEPT !.late = NotAttached(b)]
                         ELSE put[b]]
            /\ lost' = lost \ {<<p, s>>}
  /\ UNCHANGED <<client, del, rec, srv, env>>

DetachPrev(a) ==
  /\ put[a].pc = "swap"
  /\ rec' = Detached(rec, put[a].prev)
  /\ put' = [put EXCEPT ![a].pc = "attach", ![a].prev = None]
  /\ UNCHANGED <<client, strm, del, srv, env, lost>>

\* peer.attach: what is attached is ended, and signals sent before may count as
\* not sent again.
Attach(a) ==
  /\ put[a].pc = "attach"
  /\ LET r == put[a].rec
     IN  /\ strm' = Ended(strm, rec[r].att, rec[r].peer, "replaced")
         /\ \E again \in BOOLEAN :
              /\ again => rec[r].sent /\ ~rec[r].down
              /\ rec' = [rec EXCEPT ![r].att = a, ![r].unsent = @ \/ again]
  /\ put' = [put EXCEPT ![a].pc = "recheck"]
  /\ UNCHANGED <<client, del, srv, env, lost>>

\* Mutant of Recheck: the stream is not looked at again.
NoRecheck(a) ==
  /\ put[a].pc = "recheck"
  /\ strm' = Poked(strm, put[a].stream)
  /\ put' = Replies(a, "ok")
  /\ UNCHANGED <<client, del, rec, srv, env, lost>>

\* The poke of attach, and join's second look at the stream.
Recheck(a) ==
  /\ put[a].pc = "recheck"
  /\ strm' = Poked(strm, put[a].stream)
  /\ IF strm[put[a].stream].pc \in Serving
     THEN put' = Replies(a, "ok") /\ UNCHANGED rec
     ELSE put' = Replies(a, "gone") /\ rec' = Detached(rec, a)
  /\ UNCHANGED <<client, del, srv, env, lost>>

JoinHandler(a) == Lookup(a) \/ Insert(a) \/ DetachPrev(a) \/ Attach(a) \/ Recheck(a)

\* muxStream.leave: the member is removed, whoever's it is.
LeaveMember(c) ==
  /\ del[c].pc = "sent"
  /\ LET p == PeerOf(c)
         s == del[c].stream
         a == strm[s].members[p]
     IN  \/ /\ a # None /\ ~srv.closed
            /\ strm' = [strm EXCEPT ![s].members[p] = None]
            /\ del' = [del EXCEPT ![c] = [pc |-> "detach", stream |-> None, att |-> a]]
            /\ put' = [put EXCEPT ![a].late = NotAttached(a)]
            /\ lost' = lost \cup {<<p, s>>}
         \/ /\ a = None \/ srv.closed
            /\ del' = [del EXCEPT ![c] = [pc |-> "done", stream |-> None, att |-> None]]
            /\ UNCHANGED <<strm, put, lost>>
  /\ UNCHANGED <<client, rec, srv, env>>

LeaveDetach(c) ==
  /\ del[c].pc = "detach"
  /\ rec' = Detached(rec, del[c].att)
  /\ del' = [del EXCEPT ![c] = [pc |-> "done", stream |-> None, att |-> None]]
  /\ UNCHANGED <<client, strm, put, srv, env, lost>>

LeaveLost(c) ==
  /\ del[c].pc = "sent"
  /\ del' = [del EXCEPT ![c] = [pc |-> "done", stream |-> None, att |-> None]]
  /\ UNCHANGED <<client, strm, put, rec, srv, env, lost>>

-----------------------------------------------------------------------------

Next ==
  \/ \E c \in Conns : \/ Open(c) \/ OpenPokes(c) \/ OpenReturns(c) \/ Close(c)
                      \/ LeaveMember(c) \/ LeaveDetach(c) \/ LeaveLost(c)
  \/ MuxClose \/ MuxCancel
  \/ Session
  \/ Reader \/ Received \/ Reconnects
  \/ \E s \in Streams : Handler(s) \/ NetworkCut(s)
  \/ \E a \in Puts : JoinHandler(a)
  \/ \E r \in Records : \/ Takeover(r) \/ OtherLeaves(r) \/ Expire(r) \/ Post(r)
                        \/ PostPokes(r) \/ ShutdownRecord(r)
  \/ ServerClose \/ ShutdownStreams

Spec == Init /\ [][Next]_vars

\* The goroutines of the client and the handlers of the server.
System == \/ Session \/ Reader \/ MuxCancel
          \/ \E s \in Streams : Handler(s)
          \/ \E a \in Puts : JoinHandler(a)

\* While one of them can go on, one does; nothing is assumed of users, of the
\* network or of other clients.
Fairness == WF_vars(System)

FairSpec == Spec /\ Fairness

-----------------------------------------------------------------------------
(* Properties.                                                             *)

Events == [event : {"mux", "signal", "detached", "shutdown"}, peer : Peers \cup {None}]

\* The variables keep their types, and the stream goroutine runs exactly while
\* running is set.
TypeOK ==
  /\ conn \in [Conns -> [pc : {"none", "poke", "wait", "open", "over"}, ready : BOOLEAN,
                         closed : BOOLEAN, failed : BOOLEAN, stream : Streams \cup {None}]]
  /\ reg \in [Peers -> Conns \cup {None}]
  /\ mux \in [running : BOOLEAN, closed : BOOLEAN, cancelled : BOOLEAN,
              closing : SUBSET Conns, stream : Streams \cup {None},
              rcv : Streams \cup {None}, kick : BOOLEAN]
  /\ ses \in [pc : {"off", "check", "dial", "hello", "collect", "join", "put",
                    "select", "drain", "backoff"},
              stream : Streams \cup {None}, auth : Conns \cup {None},
              todo : SUBSET Conns, put : Puts \cup {None}, retry : BOOLEAN, err : BOOLEAN]
  /\ rd \in [pc : {"off", "read", "inbox", "done"}, conn : Conns \cup {None},
             fresh : Streams \cup {None}, stop : BOOLEAN]
  /\ strm \in [Streams -> [pc : Serving \cup {"none", "request", "detach", "gone"},
                           members : [Peers -> Puts \cup {None}], detached : Seq(Peers),
                           todo : SUBSET Puts, wake : BOOLEAN, down : BOOLEAN,
                           conn : {"up", "eof", "cut"}, wire : Seq(Events)]]
  /\ put \in [Puts -> [pc : {"none", "request", "insert", "swap", "attach", "recheck", "done"},
                       conn : Conns \cup {None}, stream : Streams \cup {None},
                       rec : Records \cup {None}, prev : Puts \cup {None}, late : BOOLEAN,
                       reply : {"none", "ok", "gone", "denied", "error"}]]
  /\ del \in [Conns -> [pc : {"none", "sent", "detach", "done"},
                        stream : Streams \cup {None}, att : Puts \cup {None}]]
  /\ rec \in [Records -> [peer : Peers \cup {None}, att : Puts \cup {None, Other},
                          unsent : BOOLEAN, sent : BOOLEAN, down : BOOLEAN,
                          poke : Puts \cup {None}]]
  /\ srv \in [peers : [Peers -> Records \cup {None}], closed : BOOLEAN,
              doomed : SUBSET Records, muxes : BOOLEAN]
  /\ env.limit \in [Kinds -> Nat]
  /\ lost \subseteq Peers \X Streams
  /\ mux.running <=> ses.pc # "off"

\* A record's stream, where it is a shared one, has the peer as a member, or
\* somebody is about to detach it: joins, leaves, takeovers and the end of the
\* stream may overlap in any order.
Owned(r) ==
  LET a == rec[r].att
      s == put[a].stream
  IN  a \in Puts =>
        \/ strm[s].members[rec[r].peer] = a
        \/ strm[s].pc = "detach" /\ a \in strm[s].todo
        \/ strm[s].pc \notin Serving /\ put[a].pc = "recheck"
        \/ \E c \in Conns : del[c].pc = "detach" /\ del[c].att = a
        \/ \E b \in Puts : NotAttached(b) /\ put[b].rec = r
        \/ \E b \in Puts : put[b].pc = "swap" /\ put[b].prev = a

\* No record is left attached to a stream that has no such member, with two
\* exceptions, both of them an attachment that was no member any more before it
\* was attached (late): a second join of the peer took its place, or a leave that
\* overlaps the join removed it.  join looks again only for the end of the stream.
AttachmentOwned ==
  \A r \in Records : Owned(r) \/ (rec[r].att \in Puts /\ put[rec[r].att].late)

\* mux_server.go:157 says that a peer that leaves keeps its queue for the grace
\* period as if its own stream had dropped: no record is left attached, without
\* exception.
NeverStranded == \A r \in Records : Owned(r)

\* The server has connection c, which has joined, as a member of the stream, or
\* is about to tell the client of a takeover or of the end of the stream.
ServedOrTold(c) ==
  LET p == PeerOf(c)
      h == strm[ses.stream]
  IN  \/ h.conn # "up" \/ h.down \/ srv.muxes
      \/ h.members[p] # None
      \/ p \in Range(h.detached) \/ Contains(h.wire, Event("detached", p))

HasJoined(c) == mux.stream # None /\ conn[c].stream = mux.stream

\* A connection that has joined is served or told.  There are only two ways to
\* lose a membership unnoticed, and lost has them until a join makes the peer a
\* member of that stream again: a leave of an earlier connection of the same peer
\* that comes late, and a takeover whose event is read before the answer to the
\* join.
JoinedOrTold ==
  \A c \in Registered :
    HasJoined(c) /\ <<PeerOf(c), mux.stream>> \notin lost => ServedOrTold(c)

\* mux.go:656 says that failed is closed when the connection can no longer be
\* used: one that has joined is served or told, without exception.
AlwaysTold == \A c \in Registered : HasJoined(c) => ServedOrTold(c)

\* While session waits, a connection that has not joined, and the departure of
\* the last one, are known to it: kick is pending, Open is about to poke, or the
\* retry timer runs.  Without a goroutine no connection is registered.
PendingNoticed ==
  /\ ses.pc = "off" => Registered = {}
  /\ ses.pc = "select" =>
       \/ mux.kick \/ ses.retry \/ mux.closed
       \/ \E c \in Registered : conn[c].pc = "poke"
       \/ Registered # {} /\ \A c \in Registered : conn[c].stream = ses.stream

\* A signal for a member does not wait unnoticed: the handler of the stream has
\* still to look at that member, or has been woken, or is about to be, by the
\* join or by the POST.
MemberWoken ==
  \A r \in Records :
    LET a == rec[r].att
        h == strm[put[a].stream]
    IN  a \in Puts /\ rec[r].unsent /\ h.pc \in Serving /\ h.members[rec[r].peer] = a =>
          \/ h.wake
          \/ h.pc = "take" /\ a \in h.todo
          \/ put[a].pc = "recheck" \/ rec[r].poke = a

\* Neither end forgets work that arrives while it looks elsewhere: a connection
\* that Open has registered, and a signal that was queued for a member.
NobodyOverlooked == PendingNoticed /\ MemberWoken

\* Mux.Close, and the end of the last connection, end the stream: the goroutine
\* stops, and the server lets go of every stream, unless another connection is
\* opened.
Settled == ses.pc = "off" /\ \A s \in Streams : strm[s].pc \in {"none", "gone"}
IdleSettles == Registered = {} ~> Settled \/ Registered # {}
=============================================================================
