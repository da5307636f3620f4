--------------------------------- MODULE Demux ---------------------------------
(* probes/rtsplib.py: the reader of one RTSP connection that carries answers and  *)
(* interleaved frames.  request() looks for its answer and sets aside the frames  *)
(* in front of it and in its head; packets() yields frames; what one has read too *)
(* many of the other finds in self.leftover.  The bytes are tokens: a frame is    *)
(* its start and its payload; an answer its head, the blank line, and the units   *)
(* of its body.  How they fall into recv() is left to chance.  Callers that break *)
(* off packets() close the connection, and are left out, as is the digest retry.  *)
EXTENDS Naturals, Sequences

CONSTANTS
  MaxReq,      \* bound: requests
  MaxFrame,    \* bound: frames the server sends
  Body         \* the units of an answer's body

ConstAssumption ==
  MaxReq \in Nat \ {0} /\ MaxFrame \in Nat /\ Body \in Nat

VARIABLES
  pc,        \* idle; head and body of request(); recv and scan of packets(); raised
  buf,       \* buf, or rest in the body
  leftover,  \* self.leftover
  headTxt,   \* head_txt
  reply,     \* what the last request() returned, or None
  asked,     \* requests sent
  handed,    \* the frames set aside or yielded, in that order
  wire,      \* what the server has sent and the client has not received
  todo,      \* what is left to send of the current answer
  frames,    \* frames sent
  closed,    \* the server has closed the connection
  split      \* a frame was sent behind the head of an answer and before its end

client == <<pc, buf, leftover, headTxt, reply, asked, handed>>
server == <<wire, todo, frames, closed, split>>
vars == <<client, server>>

Tok(t, n) == [t |-> t, n |-> n]
Is(seq, t) == seq # <<>> /\ seq[1].t = t
BodyOf(n) == [i \in 1 .. Body |-> Tok("body", n)]
Reply(n) == [head |-> <<Tok("head", n)>>, body |-> BodyOf(n)]
None == [head |-> <<>>, body |-> <<>>]
From(seq, k) == SubSeq(seq, k, Len(seq))

(* The first token of a kind, or the place behind the end if there is none.       *)
Found(seq, t, k) ==
  (\A i \in 1 .. k - 1 : seq[i].t # t) /\ (k <= Len(seq) => seq[k].t = t)

(* Neither a token of text nor a whole frame is at the front of the buffer.       *)
Short == buf = <<>> \/ (Is(buf, "$") /\ Len(buf) = 1)

Init ==
  /\ pc = "idle" /\ buf = <<>> /\ leftover = <<>> /\ headTxt = <<>>
  /\ reply = None /\ asked = 0 /\ handed = <<>>
  /\ wire = <<>> /\ todo = <<>> /\ frames = 0 /\ closed = FALSE /\ split = FALSE

------------------------------------------------------------------------------
(* The server may write an answer in pieces, with frames in between.              *)

SendFrame ==
  /\ ~closed /\ frames < MaxFrame /\ asked > 0
  /\ frames' = frames + 1
  /\ wire' = wire \o <<Tok("$", frames + 1), Tok("pay", frames + 1)>>
  /\ split' = (split \/ Is(todo, "body"))
  /\ UNCHANGED <<client, todo, closed>>

SendAnswer ==
  /\ ~closed
  /\ \E k \in 1 .. Len(todo) :
       wire' = wire \o SubSeq(todo, 1, k) /\ todo' = From(todo, k + 1)
  /\ UNCHANGED <<client, frames, closed, split>>

CloseConnection ==
  /\ ~closed /\ closed' = TRUE /\ todo' = <<>>
  /\ UNCHANGED <<client, wire, frames, split>>

------------------------------------------------------------------------------
(* request().                                                                     *)

SendRequest ==
  /\ pc = "idle" /\ asked < MaxReq
  /\ pc' = "head" /\ asked' = asked + 1
  /\ buf' = leftover /\ leftover' = <<>> /\ headTxt' = <<>> /\ reply' = None
  /\ todo' = IF closed THEN <<>>
             ELSE <<Tok("head", asked + 1), Tok("end", asked + 1)>> \o BodyOf(asked + 1)
  /\ UNCHANGED <<handed, wire, frames, closed, split>>

Receive ==
  /\ \E k \in 1 .. Len(wire) :
       buf' = buf \o SubSeq(wire, 1, k) /\ wire' = From(wire, k + 1)
  /\ UNCHANGED <<leftover, headTxt, reply, asked, handed, todo, frames, closed, split>>

(* Nothing comes in the socket's time: the exception ends the probe.              *)
Raise ==
  /\ wire = <<>> /\ ~closed /\ pc' = "raised"
  /\ UNCHANGED <<buf, leftover, headTxt, reply, asked, handed, server>>

(* Fault: what has come before the end of the connection is not read. *)
HeadRecvEarly ==
  /\ pc = "head" /\ Short
  /\ \/ Receive /\ pc' = pc
     \/ Raise
     \/ /\ closed
        /\ pc' = "idle" /\ buf' = <<>>
        /\ UNCHANGED <<leftover, headTxt, reply, asked, handed, server>>

(* Fault: the end of the connection is not looked for. *)
HeadRecvAgain ==
  pc = "head" /\ Short /\ ((Receive /\ pc' = pc) \/ Raise)

(* More is needed; at the end of the connection the answer is empty.              *)
HeadRecv ==
  /\ pc = "head" /\ Short
  /\ \/ Receive /\ pc' = pc
     \/ Raise
     \/ /\ wire = <<>> /\ closed
        /\ pc' = "idle" /\ buf' = <<>>
        /\ UNCHANGED <<leftover, headTxt, reply, asked, handed, server>>

(* Fault: frames in front of an answer are thrown away, as they once were. *)
HeadFrameDropped ==
  /\ pc = "head" /\ Is(buf, "$") /\ ~Short
  /\ buf' = From(buf, 3)
  /\ UNCHANGED <<pc, leftover, headTxt, reply, asked, handed, server>>

HeadFrame ==
  /\ pc = "head" /\ Is(buf, "$") /\ ~Short
  /\ handed' = Append(handed, buf[1].n) /\ buf' = From(buf, 3)
  /\ UNCHANGED <<pc, leftover, headTxt, reply, asked, server>>

(* The text up to what may be the next frame; the blank line is looked for in the *)
(* text alone, and what is behind it begins the body.                             *)
HeadText ==
  /\ pc = "head" /\ buf # <<>> /\ ~Is(buf, "$")
  /\ \E m \in 1 .. Len(buf) + 1 :
       LET text == headTxt \o SubSeq(buf, 1, m - 1)
       IN \E e \in 1 .. Len(text) + 1 :
            /\ Found(buf, "$", m) /\ Found(text, "end", e)
            /\ headTxt' = SubSeq(text, 1, e - 1)
            /\ buf' = (IF e > Len(text) THEN <<>> ELSE From(text, e + 1)) \o From(buf, m)
            /\ pc' = IF e > Len(text) THEN pc ELSE "body"
  /\ UNCHANGED <<leftover, reply, asked, handed, server>>

(* At the end of the connection recv() returns nothing for ever.                  *)
BodyRecv ==
  /\ pc = "body" /\ Len(buf) < Body
  /\ (Receive /\ pc' = pc) \/ Raise

BodyDone ==
  /\ pc = "body" /\ Len(buf) >= Body
  /\ pc' = "idle"
  /\ reply' = [head |-> headTxt, body |-> SubSeq(buf, 1, Body)]
  /\ leftover' = From(buf, Body + 1) /\ buf' = <<>>
  /\ UNCHANGED <<headTxt, asked, handed, server>>

------------------------------------------------------------------------------
(* packets().                                                                     *)

StartPackets ==
  /\ pc = "idle" /\ asked > 0
  /\ pc' = "recv" /\ buf' = leftover /\ leftover' = <<>>
  /\ UNCHANGED <<headTxt, reply, asked, handed, server>>

PacketsRecv == pc = "recv" /\ Receive /\ pc' = "scan"

(* What does not begin a frame is skipped.                                        *)
Scan ==
  /\ pc = "scan"
  /\ IF Short
     THEN pc' = "recv" /\ UNCHANGED <<buf, handed>>
     ELSE /\ handed' = IF Is(buf, "$") THEN Append(handed, buf[1].n) ELSE handed
          /\ buf' = From(buf, IF Is(buf, "$") THEN 3 ELSE 2)
          /\ pc' = pc
  /\ UNCHANGED <<leftover, headTxt, reply, asked, server>>

(* The duration is over; timeouts, and the end of the connection, are waited out. *)
PacketsEnd ==
  /\ pc = "recv" /\ pc' = "idle"
  /\ leftover' = buf /\ buf' = <<>>
  /\ UNCHANGED <<headTxt, reply, asked, handed, server>>

------------------------------------------------------------------------------
Request == HeadRecv \/ HeadFrame \/ HeadText \/ BodyRecv \/ BodyDone
Packets == PacketsRecv \/ Scan \/ PacketsEnd

Next ==
  \/ SendFrame \/ SendAnswer \/ CloseConnection
  \/ SendRequest \/ Request \/ StartPackets \/ Packets

Spec == Init /\ [][Next]_vars

------------------------------------------------------------------------------
(* An answer that is not empty is the one to the last request, with its own head  *)
(* and its own body, however the stream was cut up and whatever frames came in    *)
(* front of it or inside its head, as long as none came between the head of an    *)
(* answer and the end of its body: request() reads no frames there                *)
(* (rtsplib.py:101-150, 153-156).                                                 *)
AnswerIntact == ~split => reply \in {None, Reply(asked)}

(* Under the same condition no frame is lost, repeated or overtaken on its way    *)
(* through request() and packets(), whichever of them reads it, nor with the end  *)
(* of the connection: those handed out are the first, and the rest is waiting in  *)
(* its order.  What has been read and not used is with one of the two, and not    *)
(* with both (rtsplib.py:92-99, 118-131, 156, 239-258).                           *)
FramesKept ==
  /\ IF pc = "idle" THEN buf = <<>> ELSE leftover = <<>>
  /\ ~split =>
       LET rest == leftover \o buf \o wire
           starts == {i \in 1 .. Len(rest) : rest[i].t = "$"}
       IN /\ handed = [i \in 1 .. Len(handed) |-> i]
          /\ {rest[i].n : i \in starts} = Len(handed) + 1 .. frames
          /\ \A i, j \in starts : i < j => rest[i].n < rest[j].n

(* A request comes back, with its answer, an empty one or the exception, from a   *)
(* server that does not send frames for ever, but for a connection that ends in   *)
(* the middle of a body (rtsplib.py:114-156).                                     *)
RequestEnds ==
  pc = "head" ~> \/ pc \in {"idle", "raised"}
                 \/ (pc = "body" /\ closed)

(* However the bytes are cut up, whichever of request() and packets() reads, and  *)
(* whatever one of them leaves to the other, the two are one reader in the order  *)
(* the server sent, and what they return they have waited for (rtsplib.py:92-156, *)
(* 239-258).                                                                      *)
Promise == INSTANCE OrderedReader
             WITH call <- IF pc \in {"head", "body"} THEN "waiting"
                          ELSE IF pc = "raised" THEN "raised" ELSE "free",
                  Empty <- None, Whole <- Reply,
                  sent <- frames, shut <- closed, mixed <- split

ReadsInOrder == Promise!Spec
================================================================================
