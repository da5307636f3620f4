------------------------------ MODULE EvilServer ------------------------------
(* The misbehaving RTSP server of the self-check, src/probes/evil_server.py:  *)
(* one thread per connection reads requests and answers them (handle), a PLAY *)
(* starts a second thread that streams on the same socket (stream), and every *)
(* sendall of every connection is made under the one SEND_LOCK.  A sendall    *)
(* puts its bytes on the wire in two pieces, so that two of them that are not *)
(* kept apart are seen to mix; it returns when the client has room for the    *)
(* bytes, and fails when the client has stopped reading for the 30 s of       *)
(* settimeout, has gone, or the connection was closed under it.               *)
EXTENDS Naturals, Sequences

CONSTANTS
  Conn,       \* connections
  Modes,      \* the modes of the server that are explored
  MaxReq,     \* Conn -> bound: requests its client sends
  Fickle,     \* bound: connections whose client may stop reading or go away
  Frames,     \* frames of the stream
  PerFrame    \* packets of a frame

VARIABLES
  mode,       \* MODE
  lock,       \* SEND_LOCK: the thread that holds it, or NoThread
  hpc,        \* Conn -> where the handler is
  inbox,      \* Conn -> requests sent and not yet parsed
  req,        \* Conn -> the request being answered
  parsed,     \* Conn -> number of requests parsed
  stop,       \* Conn -> stop_ev
  spc,        \* Conn -> where the stream thread is; "off" is stream_thread[0] is None
  sent,       \* Conn -> packets the stream has handed to the socket
  reports,    \* Conn -> sender reports the stream has handed to the socket
  got,        \* Conn -> what has arrived whole: the number of the last answer,
              \*         packet and report, and whether PLAY was answered
  part,       \* Conn -> the message whose first bytes are the last on the wire
  mixed,      \* Conn -> whether a message was begun behind half of another
  failed,     \* Conn -> whether a sendall has failed
  client      \* Conn -> "reads", "stalled" (has stopped reading), "gone"

vars == <<mode, lock, hpc, inbox, req, parsed, stop, spc, sent, reports, got, part, mixed,
          failed, client>>

NoThread == <<"none", "none">>
Handler(c) == <<"handler", c>>
Stream(c) == <<"stream", c>>

Method == {"PLAY", "TEARDOWN", "other"}

Msg(kind, no, to) == [kind |-> kind, no |-> no, to |-> to]
Answer(c) == Msg("answer", parsed[c], req[c])
Packet(c) == Msg("packet", sent[c] + 1, "none")
Report(c) == Msg("report", reports[c] + 1, "none")

Nothing == Msg("none", 0, "none")
wire == <<got, part, mixed>>

Init ==
  /\ mode \in Modes
  /\ lock = NoThread
  /\ hpc = [c \in Conn |-> "new"]
  /\ inbox = [c \in Conn |-> <<>>]
  /\ req = [c \in Conn |-> "none"]
  /\ parsed = [c \in Conn |-> 0]
  /\ stop = [c \in Conn |-> FALSE]
  /\ spc = [c \in Conn |-> "off"]
  /\ sent = [c \in Conn |-> 0]
  /\ reports = [c \in Conn |-> 0]
  /\ got = [c \in Conn |-> [answer |-> 0, packet |-> 0, report |-> 0, played |-> FALSE]]
  /\ part = [c \in Conn |-> Nothing]
  /\ mixed = [c \in Conn |-> FALSE]
  /\ failed = [c \in Conn |-> FALSE]
  /\ client = [c \in Conn |-> "reads"]

------------------------------------------------------------------------------
(* sendall under the lock, for the handler and for the stream of c.           *)

\* Fault: sendall without the lock.
BeginAtOnce(c, thread, msg) ==
  /\ lock' = thread
  /\ part' = [part EXCEPT ![c] = msg]
  /\ mixed' = [mixed EXCEPT ![c] = @ \/ part[c] # Nothing]
  /\ UNCHANGED got

Begin(c, thread, msg) ==
  /\ lock = NoThread
  /\ lock' = thread
  /\ part' = [part EXCEPT ![c] = msg]
  /\ mixed' = [mixed EXCEPT ![c] = @ \/ part[c] # Nothing]
  /\ UNCHANGED got

\* What has arrived on a connection, with msg behind it.
Brought(r, msg) == [r EXCEPT ![msg.kind] = msg.no, !.played = @ \/ msg.to = "PLAY"]

\* The last bytes find room in the client's buffers; the message has arrived
\* whole when its first bytes are the ones before them.
Finish(c, thread, msg) ==
  /\ lock = thread
  /\ hpc[c] # "closed"
  /\ client[c] # "stalled"
  /\ lock' = NoThread
  /\ part' = [part EXCEPT ![c] = Nothing]
  /\ got' = IF part[c] = msg THEN [got EXCEPT ![c] = Brought(@, msg)] ELSE got
  /\ UNCHANGED mixed

\* Fault: a socket without a timeout.
FailsWhenGone(c, thread) ==
  /\ lock = thread
  /\ client[c] = "gone" \/ hpc[c] = "closed"
  /\ lock' = NoThread
  /\ failed' = [failed EXCEPT ![c] = TRUE]

\* OSError: a client that does not read for 30 s, one that is gone, or a
\* socket the handler has closed meanwhile.
Fails(c, thread) ==
  /\ lock = thread
  /\ client[c] \in {"stalled", "gone"} \/ hpc[c] = "closed"
  /\ lock' = NoThread
  /\ failed' = [failed EXCEPT ![c] = TRUE]

------------------------------------------------------------------------------
(* The handler: recv, parse, answer, and what follows the answer.             *)

\* main: accept, and a thread for the connection.
Accept(c) ==
  /\ hpc[c] = "new"
  /\ hpc' = [hpc EXCEPT ![c] = "read"]
  /\ UNCHANGED <<mode, lock, inbox, req, parsed, stop, spc, sent, reports, wire, failed, client>>

\* A whole request is in buf.  TEARDOWN sets the stop event before its answer.
Parse(c) ==
  /\ hpc[c] = "read"
  /\ inbox[c] # <<>>
  /\ req' = [req EXCEPT ![c] = Head(inbox[c])]
  /\ inbox' = [inbox EXCEPT ![c] = Tail(@)]
  /\ parsed' = [parsed EXCEPT ![c] = @ + 1]
  /\ stop' = IF Head(inbox[c]) = "TEARDOWN" THEN [stop EXCEPT ![c] = TRUE] ELSE stop
  /\ hpc' = [hpc EXCEPT ![c] = "answer"]
  /\ UNCHANGED <<mode, lock, spc, sent, reports, wire, failed, client>>

\* recv returns nothing or raises: the client has closed, or has said nothing
\* for 30 s.  handle returns, serve_one closes.
RecvEnds(c) ==
  /\ hpc[c] = "read"
  /\ inbox[c] = <<>>
  /\ hpc' = [hpc EXCEPT ![c] = "leave"]
  /\ UNCHANGED <<mode, lock, inbox, req, parsed, stop, spc, sent, reports, wire, failed, client>>

BeginAnswer(c) ==
  /\ hpc[c] = "answer"
  /\ Begin(c, Handler(c), Answer(c))
  /\ hpc' = [hpc EXCEPT ![c] = "sending"]
  /\ UNCHANGED <<mode, inbox, req, parsed, stop, spc, sent, reports, failed, client>>

FinishAnswer(c) ==
  /\ hpc[c] = "sending"
  /\ Finish(c, Handler(c), Answer(c))
  /\ hpc' = [hpc EXCEPT ![c] = "after"]
  /\ UNCHANGED <<mode, inbox, req, parsed, stop, spc, sent, reports, failed, client>>

\* The exception leaves handle; serve_one swallows it and closes.
AnswerFails(c) ==
  /\ hpc[c] = "sending"
  /\ Fails(c, Handler(c))
  /\ hpc' = [hpc EXCEPT ![c] = "leave"]
  /\ UNCHANGED <<mode, inbox, req, parsed, stop, spc, sent, reports, wire, client>>

\* Fault: a second PLAY starts the stream once more.
AfterAgain(c) ==
  /\ hpc[c] = "after"
  /\ IF req[c] = "PLAY" /\ mode # "silent" /\ spc[c] \in {"off", "frame", "done"}
     THEN spc' = [spc EXCEPT ![c] = "frame"] /\ sent' = [sent EXCEPT ![c] = 0]
     ELSE UNCHANGED <<spc, sent>>
  /\ hpc' = [hpc EXCEPT ![c] = IF req[c] = "TEARDOWN" THEN "leave" ELSE "read"]
  /\ UNCHANGED <<mode, lock, inbox, req, parsed, stop, reports, wire, failed, client>>

\* PLAY starts the stream, once; TEARDOWN returns.
After(c) ==
  /\ hpc[c] = "after"
  /\ spc' = IF req[c] = "PLAY" /\ mode # "silent" /\ spc[c] = "off"
            THEN [spc EXCEPT ![c] = "frame"] ELSE spc
  /\ hpc' = [hpc EXCEPT ![c] = IF req[c] = "TEARDOWN" THEN "leave" ELSE "read"]
  /\ UNCHANGED <<mode, lock, inbox, req, parsed, stop, sent, reports, wire, failed, client>>

\* serve_one's finally: the connection is closed whatever the stream is doing.
Close(c) ==
  /\ hpc[c] = "leave"
  /\ hpc' = [hpc EXCEPT ![c] = "closed"]
  /\ UNCHANGED <<mode, lock, inbox, req, parsed, stop, spc, sent, reports, wire, failed, client>>

------------------------------------------------------------------------------
(* The stream thread.                                                         *)

\* The top of the frame loop: the stop event, or no frame left.
StreamEnds(c) ==
  /\ spc[c] = "frame"
  /\ stop[c] \/ sent[c] = Frames * PerFrame
  /\ spc' = [spc EXCEPT ![c] = "done"]
  /\ UNCHANGED <<mode, lock, hpc, inbox, req, parsed, stop, sent, reports, wire, failed, client>>

NextFrame(c) ==
  /\ spc[c] = "frame"
  /\ ~stop[c] /\ sent[c] < Frames * PerFrame
  /\ spc' = [spc EXCEPT ![c] = "packet"]
  /\ UNCHANGED <<mode, lock, hpc, inbox, req, parsed, stop, sent, reports, wire, failed, client>>

\* A closed socket refuses the first byte.
BeginPacket(c) ==
  /\ spc[c] = "packet"
  /\ hpc[c] # "closed"
  /\ Begin(c, Stream(c), Packet(c))
  /\ spc' = [spc EXCEPT ![c] = "sending"]
  /\ UNCHANGED <<mode, hpc, inbox, req, parsed, stop, sent, reports, failed, client>>

\* After the last packet of a frame a second may have passed since the last
\* sender report.
FinishPacket(c) ==
  /\ spc[c] = "sending"
  /\ Finish(c, Stream(c), Packet(c))
  /\ sent' = [sent EXCEPT ![c] = @ + 1]
  /\ \/ /\ sent'[c] % PerFrame # 0
        /\ spc' = [spc EXCEPT ![c] = "packet"]
     \/ /\ sent'[c] % PerFrame = 0
        /\ \E next \in {"frame", "report"} : spc' = [spc EXCEPT ![c] = next]
  /\ UNCHANGED <<mode, hpc, inbox, req, parsed, stop, reports, failed, client>>

\* The thread returns: the sendall failed, or its socket was closed before it.
PacketFails(c) ==
  /\ \/ spc[c] = "sending" /\ Fails(c, Stream(c))
     \/ spc[c] = "packet" /\ hpc[c] = "closed" /\ UNCHANGED <<lock, failed>>
  /\ spc' = [spc EXCEPT ![c] = "done"]
  /\ UNCHANGED <<mode, hpc, inbox, req, parsed, stop, sent, reports, wire, client>>

BeginReport(c) ==
  /\ spc[c] = "report"
  /\ hpc[c] # "closed"
  /\ Begin(c, Stream(c), Report(c))
  /\ spc' = [spc EXCEPT ![c] = "reporting"]
  /\ UNCHANGED <<mode, hpc, inbox, req, parsed, stop, sent, reports, failed, client>>

FinishReport(c) ==
  /\ spc[c] = "reporting"
  /\ Finish(c, Stream(c), Report(c))
  /\ reports' = [reports EXCEPT ![c] = @ + 1]
  /\ spc' = [spc EXCEPT ![c] = "frame"]
  /\ UNCHANGED <<mode, hpc, inbox, req, parsed, stop, sent, failed, client>>

\* rtcp_sr passes over the failure, and the stream goes on.
ReportFails(c) ==
  /\ \/ spc[c] = "reporting" /\ Fails(c, Stream(c))
     \/ spc[c] = "report" /\ hpc[c] = "closed" /\ UNCHANGED <<lock, failed>>
  /\ spc' = [spc EXCEPT ![c] = "frame"]
  /\ UNCHANGED <<mode, hpc, inbox, req, parsed, stop, sent, reports, wire, client>>

------------------------------------------------------------------------------
(* The clients.                                                               *)

Ask(c) ==
  /\ client[c] = "reads"
  /\ inbox[c] = <<>> /\ parsed[c] < MaxReq[c]
  /\ hpc[c] \notin {"new", "closed"}
  /\ \E m \in Method : inbox' = [inbox EXCEPT ![c] = Append(@, m)]
  /\ UNCHANGED <<mode, lock, hpc, req, parsed, stop, spc, sent, reports, wire, failed, client>>

\* The client stops reading, for good; or goes away.
Turn(c) ==
  /\ client[c] = "reads" /\ c \in Fickle
  /\ \E s \in {"stalled", "gone"} : client' = [client EXCEPT ![c] = s]
  /\ UNCHANGED <<mode, lock, hpc, inbox, req, parsed, stop, spc, sent, reports, wire, failed>>

Serve(c) ==
  \/ Accept(c) \/ Parse(c) \/ BeginAnswer(c) \/ FinishAnswer(c) \/ AnswerFails(c)
  \/ After(c) \/ Close(c)
  \/ StreamEnds(c) \/ NextFrame(c) \/ BeginPacket(c) \/ FinishPacket(c) \/ PacketFails(c)
  \/ BeginReport(c) \/ FinishReport(c) \/ ReportFails(c)

Next == \E c \in Conn : Serve(c) \/ RecvEnds(c) \/ Ask(c) \/ Turn(c)

Spec == Init /\ [][Next]_vars

\* Every thread that can run does, and the 30 s of a blocked call pass; nothing
\* is asked of the clients.
FairSpec ==
  /\ Spec
  /\ \A c \in Conn :
       /\ WF_vars(Accept(c) \/ Parse(c) \/ After(c) \/ Close(c))
       /\ WF_vars(BeginAnswer(c)) /\ WF_vars(FinishAnswer(c) \/ AnswerFails(c))
       /\ WF_vars(StreamEnds(c) \/ NextFrame(c))
       /\ WF_vars(BeginPacket(c)) /\ WF_vars(FinishPacket(c) \/ PacketFails(c))
       /\ WF_vars(BeginReport(c)) /\ WF_vars(FinishReport(c) \/ ReportFails(c))

------------------------------------------------------------------------------
(* Properties.                                                                *)

\* Two threads write to the socket, and on a connection none of whose sendalls
\* has failed every message is whole, but for the one being written: SEND_LOCK
\* keeps an answer out of the middle of a packet.
Framed == \A c \in Conn : ~failed[c] => ~mixed[c]

\* A request is answered, or its connection closed, whatever the client of the
\* other connection does: the lock is one for all of them, and a client that
\* has stopped reading gives it back when the 30 s are over.
Answered ==
  \A c \in Conn : \A n \in 1..MaxReq[c] :
    (parsed[c] + Len(inbox[c]) >= n) ~> (got[c].answer >= n \/ hpc[c] = "closed")

\* Every mode of the server, with both threads, their lock and their failures,
\* is a server of interleaved media: requests answered in order, packets only
\* behind the answer to PLAY, from one stream and in order.
Promise == INSTANCE Interleaved
             WITH answer <- [c \in Conn |-> got[c].answer],
                  packet <- [c \in Conn |-> got[c].packet],
                  report <- [c \in Conn |-> got[c].report],
                  played <- [c \in Conn |-> got[c].played],
                  shut <- [c \in Conn |-> hpc[c] = "closed"]

ServesInOrder == Promise!Spec
==============================================================================
