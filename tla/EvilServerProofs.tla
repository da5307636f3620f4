--------------------------- MODULE EvilServerProofs ---------------------------
(* What EvilServer promises for any connections, any clients and a stream of   *)
(* any length: a sendall under the one lock is whole, and the server with its  *)
(* two threads a connection implements Interleaved.                            *)
EXTENDS EvilServer, TLAPS

Kinds == {"answer", "packet", "report"}
Message ==
  [kind : {"none", "answer", "packet", "report"}, no : Nat, to : Method \cup {"none"}]
Carried == [answer : Nat, packet : Nat, report : Nat, played : BOOLEAN]

TypeOK ==
  /\ lock \in {NoThread} \cup {Handler(c) : c \in Conn} \cup {Stream(c) : c \in Conn}
  /\ hpc \in [Conn -> {"new", "read", "answer", "sending", "after", "leave", "closed"}]
  /\ spc \in [Conn -> {"off", "frame", "packet", "sending", "report", "reporting", "done"}]
  /\ inbox \in [Conn -> Seq(Method)]
  /\ req \in [Conn -> Method \cup {"none"}]
  /\ parsed \in [Conn -> Nat] /\ sent \in [Conn -> Nat] /\ reports \in [Conn -> Nat]
  /\ got \in [Conn -> Carried]
  /\ part \in [Conn -> Message]
  /\ mixed \in [Conn -> BOOLEAN] /\ failed \in [Conn -> BOOLEAN]

Busy(c) == spc[c] \in {"sending", "reporting"}

(* Who is inside a sendall holds the lock.                                     *)
LockInv(c) == (lock = Handler(c) <=> hpc[c] = "sending") /\ (lock = Stream(c) <=> Busy(c))

(* The bytes last on the wire are those of the sendall that holds the lock.    *)
PartInv(c) ==
  /\ hpc[c] = "sending" => part[c] = Answer(c)
  /\ spc[c] = "sending" => part[c] = Packet(c)
  /\ spc[c] = "reporting" => part[c] = Report(c)

(* With the lock free, and no sendall failed, half a message is nowhere.       *)
WholeInv(c) ==
  ~failed[c] => ~mixed[c] /\ (hpc[c] # "sending" /\ ~Busy(c) => part[c] = Nothing)

(* What has arrived is what was handed to the socket, and the answer on its    *)
(* way is the next one.                                                        *)
CountInv(c) ==
  /\ hpc[c] \in {"new", "read", "after"} => got[c].answer = parsed[c]
  /\ hpc[c] \in {"answer", "sending"} => got[c].answer + 1 = parsed[c]
  /\ got[c].packet = sent[c] /\ got[c].report = reports[c]

(* The stream is started behind the answer to PLAY.                            *)
PlayInv(c) ==
  /\ hpc[c] = "after" /\ req[c] = "PLAY" => got[c].played
  /\ spc[c] # "off" => got[c].played

ConnInv(c) == LockInv(c) /\ PartInv(c) /\ WholeInv(c) /\ CountInv(c) /\ PlayInv(c)
IInv == TypeOK /\ \A c \in Conn : ConnInv(c)

USE DEF vars, wire, NoThread, Handler, Stream, Busy
-------------------------------------------------------------------------------
(* No thread runs yet, and nothing is on the wire.                             *)
LEMMA InitHolds == Init => IInv
<1> SUFFICES ASSUME Init PROVE IInv
  OBVIOUS
<1>1. TypeOK
  BY DEF Init, TypeOK, Message, Carried, Nothing, Msg
<1>2. ASSUME NEW c \in Conn PROVE ConnInv(c)
  BY DEF Init, ConnInv, LockInv, PartInv, WholeInv, CountInv, PlayInv
<1> QED
  BY <1>1, <1>2 DEF IInv

(* A message that has arrived is the last of its kind, and an answer to PLAY  *)
(* is remembered.                                                              *)
LEMMA BroughtOne ==
  ASSUME NEW r \in Carried, NEW msg \in Message, msg.kind \in Kinds
  PROVE  /\ Brought(r, msg) \in Carried
         /\ \A l \in Kinds : Brought(r, msg)[l] = IF l = msg.kind THEN msg.no ELSE r[l]
         /\ Brought(r, msg).played <=> r.played \/ msg.to = "PLAY"
  BY DEF Carried, Kinds, Message, Brought

(* A sendall that ends behind its own bytes brings its message, and no other.  *)
LEMMA FinishBrings ==
  ASSUME TypeOK, NEW c \in Conn, NEW thread, NEW msg \in Message, msg.kind \in Kinds,
         part[c] = msg, Finish(c, thread, msg)
  PROVE  /\ got' \in [Conn -> Carried]
         /\ \A l \in Kinds : got'[c][l] = IF l = msg.kind THEN msg.no ELSE got[c][l]
         /\ got'[c].played <=> got[c].played \/ msg.to = "PLAY"
         /\ \A d \in Conn : d # c => got'[d] = got[d]
<1>1. got[c] \in Carried
  BY DEF TypeOK
<1>2. got' = [got EXCEPT ![c] = Brought(got[c], msg)]
  BY Zenon DEF Finish
<1> QED
  BY <1>1, <1>2, BroughtOne DEF TypeOK

(* A connection whose handler begins has answered all of no requests.          *)
LEMMA AcceptKeeps ==
  ASSUME IInv, NEW c \in Conn, Accept(c) PROVE IInv'
<1>1. TypeOK'
  BY DEF IInv, TypeOK, Accept, Message, Method
<1>2. ASSUME NEW d \in Conn PROVE LockInv(d)'
  BY DEF IInv, TypeOK, ConnInv, LockInv, Accept
<1>3. ASSUME NEW d \in Conn PROVE PartInv(d)'
  BY DEF IInv, TypeOK, ConnInv, LockInv, PartInv, Accept, Answer, Packet, Report
<1>4. ASSUME NEW d \in Conn PROVE WholeInv(d)'
  BY DEF IInv, TypeOK, ConnInv, LockInv, PartInv, WholeInv, Accept
<1>5. ASSUME NEW d \in Conn PROVE CountInv(d)'
  BY DEF IInv, TypeOK, ConnInv, CountInv, Accept
<1>6. ASSUME NEW d \in Conn PROVE PlayInv(d)'
  BY DEF IInv, TypeOK, ConnInv, PlayInv, Accept
<1> QED
  BY <1>1, <1>2, <1>3, <1>4, <1>5, <1>6 DEF IInv, ConnInv

(* A request parsed is one more that awaits its answer.                        *)
LEMMA ParseKeeps ==
  ASSUME IInv, NEW c \in Conn, Parse(c) PROVE IInv'
<1>1. Head(inbox[c]) \in Method /\ Tail(inbox[c]) \in Seq(Method)
  BY DEF IInv, TypeOK, Parse
<1>2. /\ inbox' \in [Conn -> Seq(Method)] /\ req' \in [Conn -> Method \cup {"none"}]
      /\ parsed' \in [Conn -> Nat]
  BY <1>1 DEF IInv, TypeOK, Parse
<1>3. hpc' \in [Conn -> {"new", "read", "answer", "sending", "after", "leave", "closed"}]
  BY DEF IInv, TypeOK, Parse
<1>4. TypeOK'
  BY <1>2, <1>3 DEF IInv, TypeOK, Parse
<1>5. ASSUME NEW d \in Conn PROVE LockInv(d)'
  BY DEF IInv, TypeOK, ConnInv, LockInv, Parse
<1>6. ASSUME NEW d \in Conn PROVE PartInv(d)'
  BY DEF IInv, TypeOK, ConnInv, LockInv, PartInv, Parse, Answer, Packet, Report
<1>7. ASSUME NEW d \in Conn PROVE WholeInv(d)'
  BY DEF IInv, TypeOK, ConnInv, LockInv, PartInv, WholeInv, Parse
<1>8. ASSUME NEW d \in Conn PROVE CountInv(d)'
  BY DEF IInv, TypeOK, ConnInv, CountInv, Parse
<1>9. ASSUME NEW d \in Conn PROVE PlayInv(d)'
  BY DEF IInv, TypeOK, ConnInv, PlayInv, Parse
<1> QED
  BY <1>4, <1>5, <1>6, <1>7, <1>8, <1>9 DEF IInv, ConnInv

(* A handler that leaves sends nothing more.                                   *)
LEMMA RecvEndsKeeps ==
  ASSUME IInv, NEW c \in Conn, RecvEnds(c) PROVE IInv'
<1>1. TypeOK'
  BY DEF IInv, TypeOK, RecvEnds, Message, Method
<1>2. ASSUME NEW d \in Conn PROVE LockInv(d)'
  BY DEF IInv, TypeOK, ConnInv, LockInv, RecvEnds
<1>3. ASSUME NEW d \in Conn PROVE PartInv(d)'
  BY DEF IInv, TypeOK, ConnInv, LockInv, PartInv, RecvEnds, Answer, Packet, Report
<1>4. ASSUME NEW d \in Conn PROVE WholeInv(d)'
  BY DEF IInv, TypeOK, ConnInv, LockInv, PartInv, WholeInv, RecvEnds
<1>5. ASSUME NEW d \in Conn PROVE CountInv(d)'
  BY DEF IInv, TypeOK, ConnInv, CountInv, RecvEnds
<1>6. ASSUME NEW d \in Conn PROVE PlayInv(d)'
  BY DEF IInv, TypeOK, ConnInv, PlayInv, RecvEnds
<1> QED
  BY <1>1, <1>2, <1>3, <1>4, <1>5, <1>6 DEF IInv, ConnInv

(* The lock was free, so the answer begins behind a whole message.             *)
LEMMA BeginAnswerKeeps ==
  ASSUME IInv, NEW c \in Conn, BeginAnswer(c) PROVE IInv'
<1>1. Answer(c) \in Message
  BY DEF IInv, TypeOK, Answer, Msg, Message
<1>2. TypeOK'
  BY <1>1 DEF IInv, TypeOK, BeginAnswer, Begin
<1>3. ASSUME NEW d \in Conn PROVE LockInv(d)'
  BY DEF IInv, TypeOK, ConnInv, LockInv, BeginAnswer, Begin, Answer, Packet, Report, Msg
<1>4. ASSUME NEW d \in Conn PROVE PartInv(d)'
  BY DEF IInv, TypeOK, ConnInv, LockInv, PartInv, BeginAnswer, Begin, Answer, Packet,
     Report, Msg
<1>5. ASSUME NEW d \in Conn PROVE WholeInv(d)'
  BY DEF IInv, TypeOK, ConnInv, LockInv, PartInv, WholeInv, BeginAnswer, Begin, Answer,
     Packet, Report, Msg
<1>6. ASSUME NEW d \in Conn PROVE CountInv(d)'
  BY DEF IInv, TypeOK, ConnInv, CountInv, BeginAnswer, Begin, Answer, Packet, Report, Msg
<1>7. ASSUME NEW d \in Conn PROVE PlayInv(d)'
  BY DEF IInv, TypeOK, ConnInv, PlayInv, BeginAnswer, Begin, Answer, Packet, Report, Msg
<1> QED
  BY <1>2, <1>3, <1>4, <1>5, <1>6, <1>7 DEF IInv, ConnInv

(* The answer that arrives is the one to the last request parsed.              *)
LEMMA AnswerBrings ==
  ASSUME IInv, NEW c \in Conn, FinishAnswer(c)
  PROVE  /\ got' \in [Conn -> Carried]
         /\ got'[c].answer = parsed[c]
         /\ got'[c].packet = got[c].packet /\ got'[c].report = got[c].report
         /\ got'[c].played <=> got[c].played \/ req[c] = "PLAY"
         /\ \A d \in Conn : d # c => got'[d] = got[d]
<1>1. Answer(c) \in Message
  BY DEF IInv, TypeOK, Answer, Msg, Message
<1>2. part[c] = Answer(c)
  BY DEF IInv, ConnInv, PartInv, FinishAnswer
<1>3. Answer(c).kind = "answer" /\ Answer(c).no = parsed[c] /\ Answer(c).to = req[c]
  BY DEF Answer, Msg
<1>4. \A l \in Kinds : got'[c][l] = IF l = "answer" THEN parsed[c] ELSE got[c][l]
  BY <1>1, <1>2, <1>3, FinishBrings DEF IInv, FinishAnswer, Kinds
<1>5. got'[c].played <=> got[c].played \/ req[c] = "PLAY"
  BY <1>1, <1>2, <1>3, FinishBrings DEF IInv, FinishAnswer, Kinds
<1> QED
  BY <1>1, <1>2, <1>3, <1>4, <1>5, FinishBrings DEF IInv, FinishAnswer, Kinds

(* The answer has arrived, and the lock is free behind a whole message.        *)
LEMMA FinishAnswerKeeps ==
  ASSUME IInv, NEW c \in Conn, FinishAnswer(c) PROVE IInv'
<1>1. /\ got' \in [Conn -> Carried]
      /\ got'[c].answer = parsed[c]
      /\ got'[c].packet = got[c].packet /\ got'[c].report = got[c].report
      /\ got'[c].played <=> got[c].played \/ req[c] = "PLAY"
      /\ \A d \in Conn : d # c => got'[d] = got[d]
  BY AnswerBrings
<1>2. TypeOK'
  BY <1>1 DEF IInv, TypeOK, FinishAnswer, Finish, Nothing, Msg, Message
<1>3. ASSUME NEW d \in Conn PROVE LockInv(d)'
  BY DEF IInv, TypeOK, ConnInv, LockInv, FinishAnswer, Finish, Nothing, Msg
<1>4. ASSUME NEW d \in Conn PROVE PartInv(d)'
  BY DEF IInv, TypeOK, ConnInv, LockInv, PartInv, FinishAnswer, Finish, Nothing, Msg,
     Answer, Packet, Report
<1>5. ASSUME NEW d \in Conn PROVE WholeInv(d)'
  BY DEF IInv, TypeOK, ConnInv, LockInv, PartInv, WholeInv, FinishAnswer, Finish, Nothing, Msg
<1>6. ASSUME NEW d \in Conn PROVE CountInv(d)'
  BY <1>1 DEF IInv, TypeOK, ConnInv, CountInv, FinishAnswer
<1>7. ASSUME NEW d \in Conn PROVE PlayInv(d)'
  BY <1>1 DEF IInv, TypeOK, ConnInv, PlayInv, FinishAnswer
<1> QED
  BY <1>2, <1>3, <1>4, <1>5, <1>6, <1>7 DEF IInv, ConnInv

(* Behind a sendall that failed the connection may hold half a message.        *)
LEMMA AnswerFailsKeeps ==
  ASSUME IInv, NEW c \in Conn, AnswerFails(c) PROVE IInv'
<1>1. TypeOK'
  BY DEF IInv, TypeOK, AnswerFails, Fails, Message, Method
<1>2. ASSUME NEW d \in Conn PROVE LockInv(d)'
  BY DEF IInv, TypeOK, ConnInv, LockInv, AnswerFails, Fails
<1>3. ASSUME NEW d \in Conn PROVE PartInv(d)'
  BY DEF IInv, TypeOK, ConnInv, LockInv, PartInv, AnswerFails, Fails, Answer, Packet, Report
<1>4. ASSUME NEW d \in Conn PROVE WholeInv(d)'
  BY DEF IInv, TypeOK, ConnInv, LockInv, PartInv, WholeInv, AnswerFails, Fails
<1>5. ASSUME NEW d \in Conn PROVE CountInv(d)'
  BY DEF IInv, TypeOK, ConnInv, CountInv, AnswerFails, Fails
<1>6. ASSUME NEW d \in Conn PROVE PlayInv(d)'
  BY DEF IInv, TypeOK, ConnInv, PlayInv, AnswerFails, Fails
<1> QED
  BY <1>1, <1>2, <1>3, <1>4, <1>5, <1>6 DEF IInv, ConnInv

(* The stream is started behind an answer to PLAY only.                        *)
LEMMA AfterKeeps ==
  ASSUME IInv, NEW c \in Conn, After(c) PROVE IInv'
<1>1. TypeOK'
  BY DEF IInv, TypeOK, After, Message, Method
<1>2. ASSUME NEW d \in Conn PROVE LockInv(d)'
  BY DEF IInv, TypeOK, ConnInv, LockInv, After
<1>3. ASSUME NEW d \in Conn PROVE PartInv(d)'
  BY DEF IInv, TypeOK, ConnInv, LockInv, PartInv, After, Answer, Packet, Report
<1>4. ASSUME NEW d \in Conn PROVE WholeInv(d)'
  BY DEF IInv, TypeOK, ConnInv, LockInv, PartInv, WholeInv, After
<1>5. ASSUME NEW d \in Conn PROVE CountInv(d)'
  BY DEF IInv, TypeOK, ConnInv, CountInv, After
<1>6. ASSUME NEW d \in Conn PROVE PlayInv(d)'
  BY DEF IInv, TypeOK, ConnInv, PlayInv, After
<1> QED
  BY <1>1, <1>2, <1>3, <1>4, <1>5, <1>6 DEF IInv, ConnInv

(* A stream inside its sendall still holds the lock of a closed connection.    *)
LEMMA CloseKeeps ==
  ASSUME IInv, NEW c \in Conn, Close(c) PROVE IInv'
<1>1. TypeOK'
  BY DEF IInv, TypeOK, Close, Message, Method
<1>2. ASSUME NEW d \in Conn PROVE LockInv(d)'
  BY DEF IInv, TypeOK, ConnInv, LockInv, Close
<1>3. ASSUME NEW d \in Conn PROVE PartInv(d)'
  BY DEF IInv, TypeOK, ConnInv, LockInv, PartInv, Close, Answer, Packet, Report
<1>4. ASSUME NEW d \in Conn PROVE WholeInv(d)'
  BY DEF IInv, TypeOK, ConnInv, LockInv, PartInv, WholeInv, Close
<1>5. ASSUME NEW d \in Conn PROVE CountInv(d)'
  BY DEF IInv, TypeOK, ConnInv, CountInv, Close
<1>6. ASSUME NEW d \in Conn PROVE PlayInv(d)'
  BY DEF IInv, TypeOK, ConnInv, PlayInv, Close
<1> QED
  BY <1>1, <1>2, <1>3, <1>4, <1>5, <1>6 DEF IInv, ConnInv

(* A stream that ends holds no lock.                                           *)
LEMMA StreamEndsKeeps ==
  ASSUME IInv, NEW c \in Conn, StreamEnds(c) PROVE IInv'
<1>1. TypeOK'
  BY DEF IInv, TypeOK, StreamEnds, Message, Method
<1>2. ASSUME NEW d \in Conn PROVE LockInv(d)'
  BY DEF IInv, TypeOK, ConnInv, LockInv, StreamEnds
<1>3. ASSUME NEW d \in Conn PROVE PartInv(d)'
  BY DEF IInv, TypeOK, ConnInv, LockInv, PartInv, StreamEnds, Answer, Packet, Report
<1>4. ASSUME NEW d \in Conn PROVE WholeInv(d)'
  BY DEF IInv, TypeOK, ConnInv, LockInv, PartInv, WholeInv, StreamEnds
<1>5. ASSUME NEW d \in Conn PROVE CountInv(d)'
  BY DEF IInv, TypeOK, ConnInv, CountInv, StreamEnds
<1>6. ASSUME NEW d \in Conn PROVE PlayInv(d)'
  BY DEF IInv, TypeOK, ConnInv, PlayInv, StreamEnds
<1> QED
  BY <1>1, <1>2, <1>3, <1>4, <1>5, <1>6 DEF IInv, ConnInv

(* Between frames nothing is on the wire from the stream.                      *)
LEMMA NextFrameKeeps ==
  ASSUME IInv, NEW c \in Conn, NextFrame(c) PROVE IInv'
<1>1. TypeOK'
  BY DEF IInv, TypeOK, NextFrame, Message, Method
<1>2. ASSUME NEW d \in Conn PROVE LockInv(d)'
  BY DEF IInv, TypeOK, ConnInv, LockInv, NextFrame
<1>3. ASSUME NEW d \in Conn PROVE PartInv(d)'
  BY DEF IInv, TypeOK, ConnInv, LockInv, PartInv, NextFrame, Answer, Packet, Report
<1>4. ASSUME NEW d \in Conn PROVE WholeInv(d)'
  BY DEF IInv, TypeOK, ConnInv, LockInv, PartInv, WholeInv, NextFrame
<1>5. ASSUME NEW d \in Conn PROVE CountInv(d)'
  BY DEF IInv, TypeOK, ConnInv, CountInv, NextFrame
<1>6. ASSUME NEW d \in Conn PROVE PlayInv(d)'
  BY DEF IInv, TypeOK, ConnInv, PlayInv, NextFrame
<1> QED
  BY <1>1, <1>2, <1>3, <1>4, <1>5, <1>6 DEF IInv, ConnInv

(* The lock was free, so the packet begins behind a whole message.             *)
LEMMA BeginPacketKeeps ==
  ASSUME IInv, NEW c \in Conn, BeginPacket(c) PROVE IInv'
<1>1. Packet(c) \in Message
  BY DEF IInv, TypeOK, Packet, Msg, Message
<1>2. TypeOK'
  BY <1>1 DEF IInv, TypeOK, BeginPacket, Begin
<1>3. ASSUME NEW d \in Conn PROVE LockInv(d)'
  BY DEF IInv, TypeOK, ConnInv, LockInv, BeginPacket, Begin, Answer, Packet, Report, Msg
<1>4. ASSUME NEW d \in Conn PROVE PartInv(d)'
  BY DEF IInv, TypeOK, ConnInv, LockInv, PartInv, BeginPacket, Begin, Answer, Packet,
     Report, Msg
<1>5. ASSUME NEW d \in Conn PROVE WholeInv(d)'
  BY DEF IInv, TypeOK, ConnInv, LockInv, PartInv, WholeInv, BeginPacket, Begin, Answer,
     Packet, Report, Msg
<1>6. ASSUME NEW d \in Conn PROVE CountInv(d)'
  BY DEF IInv, TypeOK, ConnInv, CountInv, BeginPacket, Begin, Answer, Packet, Report, Msg
<1>7. ASSUME NEW d \in Conn PROVE PlayInv(d)'
  BY DEF IInv, TypeOK, ConnInv, PlayInv, BeginPacket, Begin, Answer, Packet, Report, Msg
<1> QED
  BY <1>2, <1>3, <1>4, <1>5, <1>6, <1>7 DEF IInv, ConnInv

(* The packet that arrives is the next one.                                    *)
LEMMA PacketBrings ==
  ASSUME IInv, NEW c \in Conn, FinishPacket(c)
  PROVE  /\ got' \in [Conn -> Carried]
         /\ got'[c].answer = got[c].answer
         /\ got'[c].packet = sent[c] + 1 /\ got'[c].report = got[c].report
         /\ got'[c].played <=> got[c].played
         /\ \A d \in Conn : d # c => got'[d] = got[d]
<1>1. Packet(c) \in Message
  BY DEF IInv, TypeOK, Packet, Msg, Message
<1>2. part[c] = Packet(c)
  BY DEF IInv, ConnInv, PartInv, FinishPacket
<1>3. Packet(c).kind = "packet" /\ Packet(c).no = sent[c] + 1 /\ Packet(c).to = "none"
  BY DEF Packet, Msg
<1>4. \A l \in Kinds : got'[c][l] = IF l = "packet" THEN sent[c] + 1 ELSE got[c][l]
  BY <1>1, <1>2, <1>3, FinishBrings DEF IInv, FinishPacket, Kinds
<1>5. got'[c].played <=> got[c].played
  BY <1>1, <1>2, <1>3, FinishBrings DEF IInv, FinishPacket, Kinds
<1> QED
  BY <1>1, <1>2, <1>3, <1>4, <1>5, FinishBrings DEF IInv, FinishPacket, Kinds

(* The packet has arrived, whatever the stream does next.                      *)
LEMMA FinishPacketKeeps ==
  ASSUME IInv, NEW c \in Conn, FinishPacket(c) PROVE IInv'
<1>1. /\ got' \in [Conn -> Carried]
      /\ got'[c].answer = got[c].answer
      /\ got'[c].packet = sent[c] + 1 /\ got'[c].report = got[c].report
      /\ got'[c].played <=> got[c].played
      /\ \A d \in Conn : d # c => got'[d] = got[d]
  BY PacketBrings
<1>2. PICK next \in {"packet", "frame", "report"} : spc' = [spc EXCEPT ![c] = next]
  BY Zenon DEF FinishPacket
<1>3. sent' \in [Conn -> Nat]
  BY DEF IInv, TypeOK, FinishPacket
<1>4. part' \in [Conn -> Message]
  BY DEF IInv, TypeOK, FinishPacket, Finish, Nothing, Msg, Message
<1>5. TypeOK'
  BY <1>1, <1>2, <1>3, <1>4 DEF IInv, TypeOK, FinishPacket, Finish
<1>6. ASSUME NEW d \in Conn PROVE LockInv(d)'
  BY DEF IInv, TypeOK, ConnInv, LockInv, FinishPacket, Finish, Nothing, Msg
<1>7. ASSUME NEW d \in Conn PROVE PartInv(d)'
  BY DEF IInv, TypeOK, ConnInv, LockInv, PartInv, FinishPacket, Finish, Nothing, Msg,
     Answer, Packet, Report
<1>8. ASSUME NEW d \in Conn PROVE WholeInv(d)'
  BY DEF IInv, TypeOK, ConnInv, LockInv, PartInv, WholeInv, FinishPacket, Finish, Nothing, Msg
<1>9. ASSUME NEW d \in Conn PROVE CountInv(d)'
  BY <1>1, SMTT(30) DEF IInv, TypeOK, ConnInv, CountInv, FinishPacket
<1>10. ASSUME NEW d \in Conn PROVE PlayInv(d)'
  BY <1>1 DEF IInv, TypeOK, ConnInv, PlayInv, FinishPacket
<1> QED
  BY <1>5, <1>6, <1>7, <1>8, <1>9, <1>10 DEF IInv, ConnInv

(* A stream whose packet failed ends.                                          *)
LEMMA PacketFailsKeeps ==
  ASSUME IInv, NEW c \in Conn, PacketFails(c) PROVE IInv'
<1>1. TypeOK'
  BY DEF IInv, TypeOK, PacketFails, Fails, Message, Method
<1>2. ASSUME NEW d \in Conn PROVE LockInv(d)'
  BY DEF IInv, TypeOK, ConnInv, LockInv, PacketFails, Fails
<1>3. ASSUME NEW d \in Conn PROVE PartInv(d)'
  BY DEF IInv, TypeOK, ConnInv, LockInv, PartInv, PacketFails, Fails, Answer, Packet, Report
<1>4. ASSUME NEW d \in Conn PROVE WholeInv(d)'
  BY DEF IInv, TypeOK, ConnInv, LockInv, PartInv, WholeInv, PacketFails, Fails
<1>5. ASSUME NEW d \in Conn PROVE CountInv(d)'
  BY DEF IInv, TypeOK, ConnInv, CountInv, PacketFails, Fails
<1>6. ASSUME NEW d \in Conn PROVE PlayInv(d)'
  BY DEF IInv, TypeOK, ConnInv, PlayInv, PacketFails, Fails
<1> QED
  BY <1>1, <1>2, <1>3, <1>4, <1>5, <1>6 DEF IInv, ConnInv

(* The lock was free, so the report begins behind a whole message.             *)
LEMMA BeginReportKeeps ==
  ASSUME IInv, NEW c \in Conn, BeginReport(c) PROVE IInv'
<1>1. Report(c) \in Message
  BY DEF IInv, TypeOK, Report, Msg, Message
<1>2. TypeOK'
  BY <1>1 DEF IInv, TypeOK, BeginReport, Begin
<1>3. ASSUME NEW d \in Conn PROVE LockInv(d)'
  BY DEF IInv, TypeOK, ConnInv, LockInv, BeginReport, Begin, Answer, Packet, Report, Msg
<1>4. ASSUME NEW d \in Conn PROVE PartInv(d)'
  BY DEF IInv, TypeOK, ConnInv, LockInv, PartInv, BeginReport, Begin, Answer, Packet,
     Report, Msg
<1>5. ASSUME NEW d \in Conn PROVE WholeInv(d)'
  BY DEF IInv, TypeOK, ConnInv, LockInv, PartInv, WholeInv, BeginReport, Begin, Answer,
     Packet, Report, Msg
<1>6. ASSUME NEW d \in Conn PROVE CountInv(d)'
  BY DEF IInv, TypeOK, ConnInv, CountInv, BeginReport, Begin, Answer, Packet, Report, Msg
<1>7. ASSUME NEW d \in Conn PROVE PlayInv(d)'
  BY DEF IInv, TypeOK, ConnInv, PlayInv, BeginReport, Begin, Answer, Packet, Report, Msg
<1> QED
  BY <1>2, <1>3, <1>4, <1>5, <1>6, <1>7 DEF IInv, ConnInv

(* The sender report that arrives is the next one.                             *)
LEMMA ReportBrings ==
  ASSUME IInv, NEW c \in Conn, FinishReport(c)
  PROVE  /\ got' \in [Conn -> Carried]
         /\ got'[c].answer = got[c].answer
         /\ got'[c].packet = got[c].packet /\ got'[c].report = reports[c] + 1
         /\ got'[c].played <=> got[c].played
         /\ \A d \in Conn : d # c => got'[d] = got[d]
<1>1. Report(c) \in Message
  BY DEF IInv, TypeOK, Report, Msg, Message
<1>2. part[c] = Report(c)
  BY DEF IInv, ConnInv, PartInv, FinishReport
<1>3. Report(c).kind = "report" /\ Report(c).no = reports[c] + 1 /\ Report(c).to = "none"
  BY DEF Report, Msg
<1>4. \A l \in Kinds : got'[c][l] = IF l = "report" THEN reports[c] + 1 ELSE got[c][l]
  BY <1>1, <1>2, <1>3, FinishBrings DEF IInv, FinishReport, Kinds
<1>5. got'[c].played <=> got[c].played
  BY <1>1, <1>2, <1>3, FinishBrings DEF IInv, FinishReport, Kinds
<1> QED
  BY <1>1, <1>2, <1>3, <1>4, <1>5, FinishBrings DEF IInv, FinishReport, Kinds

(* The report has arrived, and the stream goes on.                             *)
LEMMA FinishReportKeeps ==
  ASSUME IInv, NEW c \in Conn, FinishReport(c) PROVE IInv'
<1>1. /\ got' \in [Conn -> Carried]
      /\ got'[c].answer = got[c].answer
      /\ got'[c].packet = got[c].packet /\ got'[c].report = reports[c] + 1
      /\ got'[c].played <=> got[c].played
      /\ \A d \in Conn : d # c => got'[d] = got[d]
  BY ReportBrings
<1>2. part' \in [Conn -> Message] /\ reports' \in [Conn -> Nat]
  BY DEF IInv, TypeOK, FinishReport, Finish, Nothing, Msg, Message
<1>3. TypeOK'
  BY <1>1, <1>2 DEF IInv, TypeOK, FinishReport, Finish
<1>4. ASSUME NEW d \in Conn PROVE LockInv(d)'
  BY DEF IInv, TypeOK, ConnInv, LockInv, FinishReport, Finish, Nothing, Msg
<1>5. ASSUME NEW d \in Conn PROVE PartInv(d)'
  BY DEF IInv, TypeOK, ConnInv, LockInv, PartInv, FinishReport, Finish, Nothing, Msg,
     Answer, Packet, Report
<1>6. ASSUME NEW d \in Conn PROVE WholeInv(d)'
  BY DEF IInv, TypeOK, ConnInv, LockInv, PartInv, WholeInv, FinishReport, Finish, Nothing, Msg
<1>7. ASSUME NEW d \in Conn PROVE CountInv(d)'
  BY <1>1 DEF IInv, TypeOK, ConnInv, CountInv, FinishReport
<1>8. ASSUME NEW d \in Conn PROVE PlayInv(d)'
  BY <1>1 DEF IInv, TypeOK, ConnInv, PlayInv, FinishReport
<1> QED
  BY <1>3, <1>4, <1>5, <1>6, <1>7, <1>8 DEF IInv, ConnInv

(* A report that failed is passed over, and half of it may be on the wire.     *)
LEMMA ReportFailsKeeps ==
  ASSUME IInv, NEW c \in Conn, ReportFails(c) PROVE IInv'
<1>1. TypeOK'
  BY DEF IInv, TypeOK, ReportFails, Fails, Message, Method
<1>2. ASSUME NEW d \in Conn PROVE LockInv(d)'
  BY DEF IInv, TypeOK, ConnInv, LockInv, ReportFails, Fails
<1>3. ASSUME NEW d \in Conn PROVE PartInv(d)'
  BY DEF IInv, TypeOK, ConnInv, LockInv, PartInv, ReportFails, Fails, Answer, Packet, Report
<1>4. ASSUME NEW d \in Conn PROVE WholeInv(d)'
  BY DEF IInv, TypeOK, ConnInv, LockInv, PartInv, WholeInv, ReportFails, Fails
<1>5. ASSUME NEW d \in Conn PROVE CountInv(d)'
  BY DEF IInv, TypeOK, ConnInv, CountInv, ReportFails, Fails
<1>6. ASSUME NEW d \in Conn PROVE PlayInv(d)'
  BY DEF IInv, TypeOK, ConnInv, PlayInv, ReportFails, Fails
<1> QED
  BY <1>1, <1>2, <1>3, <1>4, <1>5, <1>6 DEF IInv, ConnInv

(* A request sent changes nothing of the server.                               *)
LEMMA AskKeeps ==
  ASSUME IInv, NEW c \in Conn, Ask(c) PROVE IInv'
<1>1. PICK m \in Method : inbox' = [inbox EXCEPT ![c] = Append(@, m)]
  BY DEF Ask
<1>2. Append(inbox[c], m) \in Seq(Method)
  BY DEF IInv, TypeOK
<1>3. TypeOK'
  BY <1>1, <1>2 DEF IInv, TypeOK, Ask
<1>4. ASSUME NEW d \in Conn PROVE LockInv(d)'
  BY DEF IInv, TypeOK, ConnInv, LockInv, Ask
<1>5. ASSUME NEW d \in Conn PROVE PartInv(d)'
  BY DEF IInv, TypeOK, ConnInv, LockInv, PartInv, Ask, Answer, Packet, Report
<1>6. ASSUME NEW d \in Conn PROVE WholeInv(d)'
  BY DEF IInv, TypeOK, ConnInv, LockInv, PartInv, WholeInv, Ask
<1>7. ASSUME NEW d \in Conn PROVE CountInv(d)'
  BY DEF IInv, TypeOK, ConnInv, CountInv, Ask
<1>8. ASSUME NEW d \in Conn PROVE PlayInv(d)'
  BY DEF IInv, TypeOK, ConnInv, PlayInv, Ask
<1> QED
  BY <1>3, <1>4, <1>5, <1>6, <1>7, <1>8 DEF IInv, ConnInv

(* A client that turns changes nothing of the server.                          *)
LEMMA TurnKeeps ==
  ASSUME IInv, NEW c \in Conn, Turn(c) PROVE IInv'
<1>1. TypeOK'
  BY DEF IInv, TypeOK, Turn, Message, Method
<1>2. ASSUME NEW d \in Conn PROVE LockInv(d)'
  BY DEF IInv, TypeOK, ConnInv, LockInv, Turn
<1>3. ASSUME NEW d \in Conn PROVE PartInv(d)'
  BY DEF IInv, TypeOK, ConnInv, LockInv, PartInv, Turn, Answer, Packet, Report
<1>4. ASSUME NEW d \in Conn PROVE WholeInv(d)'
  BY DEF IInv, TypeOK, ConnInv, LockInv, PartInv, WholeInv, Turn
<1>5. ASSUME NEW d \in Conn PROVE CountInv(d)'
  BY DEF IInv, TypeOK, ConnInv, CountInv, Turn
<1>6. ASSUME NEW d \in Conn PROVE PlayInv(d)'
  BY DEF IInv, TypeOK, ConnInv, PlayInv, Turn
<1> QED
  BY <1>1, <1>2, <1>3, <1>4, <1>5, <1>6 DEF IInv, ConnInv

(* Every step of every connection keeps the invariant.                         *)
LEMMA NextKeeps == IInv /\ [Next]_vars => IInv'
<1>1. ASSUME IInv, UNCHANGED vars PROVE IInv'
  BY <1>1 DEF IInv, TypeOK, ConnInv, LockInv, PartInv, WholeInv, CountInv, PlayInv, Answer,
     Packet, Report
<1>2. ASSUME IInv, NEW c \in Conn, Serve(c) \/ RecvEnds(c) \/ Ask(c) \/ Turn(c) PROVE IInv'
  BY <1>2, AcceptKeeps, ParseKeeps, RecvEndsKeeps, BeginAnswerKeeps, FinishAnswerKeeps,
     AnswerFailsKeeps, AfterKeeps, CloseKeeps, StreamEndsKeeps, NextFrameKeeps,
     BeginPacketKeeps, FinishPacketKeeps, PacketFailsKeeps, BeginReportKeeps,
     FinishReportKeeps, ReportFailsKeeps, AskKeeps, TurnKeeps, Zenon DEF Serve
<1> QED
  BY <1>1, <1>2 DEF Next

(* The conjunction of the invariant's parts holds in every reachable state.    *)
THEOREM Invariance == Spec => []IInv
  BY InitHolds, NextKeeps, PTL DEF Spec

(* Type correctness of the server, for any connections, clients and stream.    *)
THEOREM TypeCorrect == Spec => []TypeOK
<1>1. IInv => TypeOK
  BY DEF IInv
<1> QED
  BY <1>1, Invariance, PTL

(* SEND_LOCK keeps every message whole until a sendall fails, for any number   *)
(* of connections and packets (evil_server.py:158, 198).                       *)
THEOREM FramedCorrect == Spec => []Framed
<1>1. IInv => Framed
  BY DEF IInv, ConnInv, WholeInv, Framed
<1> QED
  BY <1>1, Invariance, PTL
-------------------------------------------------------------------------------
(* The refinement: a sendall that ends is the abstract step, a connection that *)
(* is closed is the other one, and all else is a stutter.                      *)

USE DEF Promise!vars

(* A step that brings nothing and closes nothing is a stutter of Interleaved.  *)
LEMMA Stutters ==
  ASSUME got' = got, \A d \in Conn : hpc'[d] = "closed" <=> hpc[d] = "closed"
  PROVE  UNCHANGED Promise!vars
<1>1. [d \in Conn |-> hpc[d] = "closed"]' = [d \in Conn |-> hpc[d] = "closed"]
  BY Zenon
<1> QED
  BY <1>1

(* An answer that arrives is Interleaved's.                                    *)
LEMMA AnswerArrives ==
  ASSUME IInv, NEW c \in Conn, FinishAnswer(c) PROVE Promise!Answer(c)
<1>1. hpc[c] = "sending" /\ hpc' = [hpc EXCEPT ![c] = "after"]
  BY DEF FinishAnswer
<1>2. parsed[c] = got[c].answer + 1
  BY <1>1 DEF IInv, ConnInv, CountInv
<1>3. hpc[c] # "closed" /\ \A d \in Conn : hpc'[d] = "closed" <=> hpc[d] = "closed"
  BY <1>1 DEF IInv, TypeOK
<1>4. [d \in Conn |-> hpc[d] = "closed"]' = [d \in Conn |-> hpc[d] = "closed"]
  BY <1>3, Zenon
<1>5. [d \in Conn |-> got[d].answer]' = [[d \in Conn |-> got[d].answer] EXCEPT ![c] = @ + 1]
  BY <1>2, AnswerBrings
<1>6. [d \in Conn |-> got[d].played]'
        \in {[d \in Conn |-> got[d].played], [[d \in Conn |-> got[d].played] EXCEPT ![c] = TRUE]}
  <2>1. \A d \in Conn : got'[d].played \in BOOLEAN /\ got[d].played \in BOOLEAN
    BY AnswerBrings DEF IInv, TypeOK, Carried
  <2>2. CASE req[c] = "PLAY"
    <3>1. got'[c].played = TRUE /\ \A d \in Conn : d # c => got'[d].played = got[d].played
      BY <2>1, <2>2, AnswerBrings, Zenon
    <3> QED
      BY <3>1
  <2>3. CASE req[c] # "PLAY"
    <3>1. \A d \in Conn : got'[d].played = got[d].played
      BY <2>1, <2>3, AnswerBrings, Zenon
    <3> QED
      BY <3>1
  <2> QED
    BY <2>2, <2>3
<1>7. /\ [d \in Conn |-> got[d].packet]' = [d \in Conn |-> got[d].packet]
      /\ [d \in Conn |-> got[d].report]' = [d \in Conn |-> got[d].report]
  BY AnswerBrings
<1> QED
  BY <1>3, <1>4, <1>5, <1>6, <1>7, Zenon DEF Promise!Answer

(* A packet that arrives is Interleaved's: the PLAY was answered before.       *)
LEMMA PacketArrives ==
  ASSUME IInv, NEW c \in Conn, FinishPacket(c) PROVE Promise!Packet(c)
<1>1. hpc' = hpc /\ hpc[c] # "closed" /\ spc[c] = "sending"
  BY DEF FinishPacket, Finish
<1>2. sent[c] = got[c].packet /\ got[c].played
  BY <1>1 DEF IInv, ConnInv, CountInv, PlayInv
<1>3. [d \in Conn |-> hpc[d] = "closed"]' = [d \in Conn |-> hpc[d] = "closed"]
  BY <1>1
<1>4. [d \in Conn |-> got[d].packet]' = [[d \in Conn |-> got[d].packet] EXCEPT ![c] = @ + 1]
  BY <1>2, PacketBrings
<1>5. [d \in Conn |-> got[d].played]' = [d \in Conn |-> got[d].played]
  <2>1. \A d \in Conn : got'[d].played <=> got[d].played
    BY PacketBrings, Zenon
  <2>2. \A d \in Conn : got'[d].played \in BOOLEAN /\ got[d].played \in BOOLEAN
    BY PacketBrings DEF IInv, TypeOK, Carried
  <2> QED
    BY <2>1, <2>2, Zenon
<1>6. /\ [d \in Conn |-> got[d].answer]' = [d \in Conn |-> got[d].answer]
      /\ [d \in Conn |-> got[d].report]' = [d \in Conn |-> got[d].report]
  BY PacketBrings
<1> QED
  BY <1>1, <1>2, <1>3, <1>4, <1>5, <1>6, Zenon DEF Promise!Packet

(* A sender report that arrives is Interleaved's.                              *)
LEMMA ReportArrives ==
  ASSUME IInv, NEW c \in Conn, FinishReport(c) PROVE Promise!Report(c)
<1>1. hpc' = hpc /\ hpc[c] # "closed" /\ spc[c] = "reporting"
  BY DEF FinishReport, Finish
<1>2. reports[c] = got[c].report /\ got[c].played
  BY <1>1 DEF IInv, ConnInv, CountInv, PlayInv
<1>3. [d \in Conn |-> hpc[d] = "closed"]' = [d \in Conn |-> hpc[d] = "closed"]
  BY <1>1
<1>4. [d \in Conn |-> got[d].report]' = [[d \in Conn |-> got[d].report] EXCEPT ![c] = @ + 1]
  BY <1>2, ReportBrings
<1>5. [d \in Conn |-> got[d].played]' = [d \in Conn |-> got[d].played]
  <2>1. \A d \in Conn : got'[d].played <=> got[d].played
    BY ReportBrings, Zenon
  <2>2. \A d \in Conn : got'[d].played \in BOOLEAN /\ got[d].played \in BOOLEAN
    BY ReportBrings DEF IInv, TypeOK, Carried
  <2> QED
    BY <2>1, <2>2, Zenon
<1>6. /\ [d \in Conn |-> got[d].answer]' = [d \in Conn |-> got[d].answer]
      /\ [d \in Conn |-> got[d].packet]' = [d \in Conn |-> got[d].packet]
  BY ReportBrings
<1> QED
  BY <1>1, <1>2, <1>3, <1>4, <1>5, <1>6, Zenon DEF Promise!Report

(* serve_one's close is Interleaved's.                                         *)
LEMMA Closes ==
  ASSUME IInv, NEW c \in Conn, Close(c) PROVE Promise!Shut(c)
<1>1. hpc' = [hpc EXCEPT ![c] = "closed"] /\ got' = got
  BY DEF Close
<1>2. \A d \in Conn : hpc'[d] = "closed" <=> d = c \/ hpc[d] = "closed"
  BY <1>1 DEF IInv, TypeOK
<1>3. [d \in Conn |-> hpc[d] = "closed"]' = [[d \in Conn |-> hpc[d] = "closed"] EXCEPT ![c] = TRUE]
  BY <1>2
<1> QED
  BY <1>1, <1>3 DEF Promise!Shut

(* Every step of the server is a step of Interleaved or a stutter.             *)
LEMMA StepServes == IInv /\ [Next]_vars => [Promise!Next]_(Promise!vars)
<1> SUFFICES ASSUME IInv, [Next]_vars PROVE [Promise!Next]_(Promise!vars)
  OBVIOUS
<1>1. CASE UNCHANGED vars
  BY <1>1, Stutters
<1>2. ASSUME NEW c \in Conn, FinishAnswer(c) \/ FinishPacket(c) \/ FinishReport(c) \/ Close(c)
      PROVE  Promise!Next
  BY <1>2, AnswerArrives, PacketArrives, ReportArrives, Closes, Zenon DEF Promise!Next
<1>3. ASSUME NEW c \in Conn,
             \/ Accept(c) \/ Parse(c) \/ RecvEnds(c) \/ BeginAnswer(c) \/ AnswerFails(c)
             \/ After(c)
      PROVE  UNCHANGED Promise!vars
  <2>1. got' = got /\ \A d \in Conn : hpc'[d] = "closed" <=> hpc[d] = "closed"
    BY <1>3 DEF IInv, TypeOK, Accept, Parse, RecvEnds, BeginAnswer, Begin, AnswerFails, After
  <2> QED
    BY <2>1, Stutters
<1>4. ASSUME NEW c \in Conn,
             \/ StreamEnds(c) \/ NextFrame(c) \/ BeginPacket(c) \/ PacketFails(c)
             \/ BeginReport(c) \/ ReportFails(c) \/ Ask(c) \/ Turn(c)
      PROVE  UNCHANGED Promise!vars
  <2>1. got' = got /\ hpc' = hpc
    BY <1>4 DEF StreamEnds, NextFrame, BeginPacket, PacketFails, BeginReport, ReportFails,
       Begin, Ask, Turn
  <2> QED
    BY <2>1, Stutters
<1> QED
  BY <1>1, <1>2, <1>3, <1>4, Zenon DEF Next, Serve

(* The server with its two threads on every socket, its lock and its failures  *)
(* implements Interleaved: requests are answered in order, and packets come    *)
(* from one stream, behind the answer to PLAY (evil_server.py:134-237).        *)
THEOREM ServesCorrect == Spec => ServesInOrder
<1>1. ASSUME Init PROVE Promise!Init
  <2>1. \A c \in Conn : got[c] = [answer |-> 0, packet |-> 0, report |-> 0, played |-> FALSE]
    BY <1>1 DEF Init
  <2>2. \A c \in Conn : hpc[c] # "closed"
    BY <1>1 DEF Init
  <2>3. /\ [c \in Conn |-> got[c].answer] = [c \in Conn |-> 0]
        /\ [c \in Conn |-> got[c].packet] = [c \in Conn |-> 0]
        /\ [c \in Conn |-> got[c].report] = [c \in Conn |-> 0]
    BY <2>1
  <2>4. [c \in Conn |-> got[c].played] = [c \in Conn |-> FALSE]
    <3>1. ASSUME NEW c \in Conn PROVE got[c].played = FALSE
      BY <1>1 DEF Init
    <3> QED
      BY <3>1, Zenon
  <2>5. [c \in Conn |-> hpc[c] = "closed"] = [c \in Conn |-> FALSE]
    BY <2>2, Zenon
  <2> QED
    BY <2>3, <2>4, <2>5, Zenon DEF Promise!Init
<1> QED
  BY <1>1, StepServes, Invariance, PTL DEF Spec, ServesInOrder, Promise!Spec
===============================================================================
