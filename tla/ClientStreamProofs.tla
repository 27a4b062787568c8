------------------------- MODULE ClientStreamProofs -------------------------
(***************************************************************************)
(* Theorems about ClientStream for every message set, kernel buffer and    *)
(* bound: its types, the state between calls, the all-or-nothing eConnect  *)
(* and the refinement of RequestStream.                                    *)
(***************************************************************************)
EXTENDS ClientStream, SequenceFacts

\* AtRest is not inductive: what holds inside a call is needed too.
Inv ==
  /\ TypeOK
  /\ phase = "idle" => todo = {}
  /\ phase = "connecting" => told # "opened" /\ (connected => fd /\ todo = {})
  /\ phase # "connecting" => (fd <=> connected) /\ (connected <=> told = "opened")
  /\ ~fd => outBuf \in {<<>>} \cup Message

-----------------------------------------------------------------------------
(* The operators the steps are built from.                                 *)

\* EClientL0Impl::eDisconnect leaves a well-typed closed client.
LEMMA DisconnectType ==
  ASSUME TypeOK, NEW left \in Seq(Byte), Disconnect(left)
  PROVE  /\ fd' = FALSE /\ connected' = FALSE /\ outBuf' = left
         /\ told' \in {"closed", "closedAgain"}
         /\ pipe' = <<>> /\ peer' = "none" /\ heard' = <<>> /\ answer' = "none"
BY DEF TypeOK, Disconnect, CloseSocket, TellClosed

\* EPosixClientSocket::send: either the connection stands, m_connected is what
\* the caller says, and the bytes in the kernel and in m_outBuffer are those
\* that were there and the data; or the client is closed.
LEMMA SendOutcome ==
  ASSUME TypeOK, StreamAssumption,
         NEW data \in Seq(Byte), NEW left \in Seq(Byte),
         NEW up \in BOOLEAN, up \/ up = connected,
         Send(data, up, left)
  PROVE  /\ errno' \in Errno /\ outBuf' \in Seq(Byte) /\ pipe' \in Seq(Byte)
         /\ peer' \in {"none", "up", "fin", "rst"}
         /\ heard' \in Seq(Byte) /\ answer' \in {"none", "ack", "old"}
         /\ \/ /\ fd' = fd /\ connected' = up /\ told' = told
               /\ pipe' \o outBuf' = pipe \o data
            \/ /\ up /\ fd' = FALSE /\ connected' = FALSE /\ told' \in {"closed", "closedAgain"}
               /\ outBuf' = left
<1> DEFINE n == Accepted(data)
<1>1. Len(data) \in Nat /\ Len(pipe) \in Nat
  BY LenProperties DEF TypeOK
<1>2. Free \in Nat
  BY <1>1 DEF Free, StreamAssumption
<1>3. n \in 0 .. Len(data)
  BY <1>1, <1>2 DEF Accepted
<1>4. /\ SubSeq(data, 1, n) \in Seq(Byte)
      /\ Unsent(data, n) \in Seq(Byte)
      /\ SubSeq(data, 1, n) \o Unsent(data, n) = data
  <2> HIDE DEF n
  <2> QED BY <1>3, SplitAt DEF Unsent
<1>5. CASE /\ pipe' = pipe \o SubSeq(data, 1, n)
           /\ outBuf' = Unsent(data, n)
           /\ connected' = up
           /\ UNCHANGED <<fd, errno, told, peer, heard, answer>>
  <2> HIDE DEF n
  <2>1. pipe \in Seq(Byte)
    BY DEF TypeOK
  <2>2. ASSUME NEW h \in Seq(Byte), NEW t \in Seq(Byte)
        PROVE  pipe \o h \in Seq(Byte) /\ (pipe \o h) \o t = pipe \o (h \o t)
    BY ONLY <2>1, MoveFront, SMTT(60)
  <2> DEFINE front == SubSeq(data, 1, n)
             rest  == Unsent(data, n)
  <2>3. front \in Seq(Byte) /\ rest \in Seq(Byte) /\ front \o rest = data
    BY <1>4
  <2>4. pipe' = pipe \o front /\ outBuf' = rest
    BY <1>5
  <2> HIDE DEF front, rest
  <2>5. pipe \o front \in Seq(Byte) /\ (pipe \o front) \o rest = pipe \o (front \o rest)
    BY ONLY <2>2, <2>3
  <2>6. pipe' \in Seq(Byte) /\ outBuf' \in Seq(Byte) /\ pipe' \o outBuf' = pipe \o data
    BY ONLY <2>3, <2>4, <2>5
  <2> QED
    BY <1>5, <2>6 DEF TypeOK
<1>6. CASE /\ outBuf' = data
           /\ errno' = "again"
           /\ connected' = up
           /\ UNCHANGED <<fd, told, pipe, peer, heard, answer>>
  BY <1>6 DEF TypeOK, Errno
<1>7. CASE SocketError(up, data, left)
  <2>1. CASE up
    <3>1. Disconnect(left) /\ errno' = "zero"
      BY <1>7, <2>1 DEF SocketError
    <3>2. /\ fd' = FALSE /\ connected' = FALSE /\ outBuf' = left
          /\ told' \in {"closed", "closedAgain"}
          /\ pipe' = <<>> /\ peer' = "none" /\ heard' = <<>> /\ answer' = "none"
      BY <3>1, DisconnectType
    <3> QED
      BY <2>1, <3>1, <3>2, EmptySeq DEF Errno
  <2>2. CASE ~up
    BY <1>7, <2>2 DEF SocketError, TypeOK, Errno
  <2> QED
    BY <2>1, <2>2
<1> QED
  BY <1>5, <1>6, <1>7 DEF Send

\* bufferedSend: the message joins the bytes that are due, or the client is
\* closed with at most that message left in m_outBuffer.
LEMMA BufferedSendOutcome ==
  ASSUME TypeOK, StreamAssumption,
         NEW m \in Seq(Byte), NEW up \in BOOLEAN, up \/ up = connected,
         BufferedSend(m, up)
  PROVE  /\ errno' \in Errno /\ outBuf' \in Seq(Byte) /\ pipe' \in Seq(Byte)
         /\ peer' \in {"none", "up", "fin", "rst"}
         /\ heard' \in Seq(Byte) /\ answer' \in {"none", "ack", "old"}
         /\ \/ /\ fd' = fd /\ connected' = up /\ told' = told
               /\ pipe' \o outBuf' = (pipe \o outBuf) \o m
            \/ /\ up /\ fd' = FALSE /\ connected' = FALSE /\ told' \in {"closed", "closedAgain"}
               /\ outBuf' \in {<<>>, m}
<1> DEFINE data == outBuf \o m
           left == IF outBuf = <<>> THEN m ELSE <<>>
<1>1. data \in Seq(Byte) /\ pipe \o data = (pipe \o outBuf) \o m
  <2>1. pipe \in Seq(Byte) /\ outBuf \in Seq(Byte)
    BY DEF TypeOK
  <2>2. data \in Seq(Byte)
    BY <2>1, ConcatProperties
  <2>3. (pipe \o outBuf) \o m = pipe \o (outBuf \o m)
    BY <2>1, ConcatAssociative
  <2> QED
    BY <2>2, <2>3
<1>2. left \in Seq(Byte) /\ left \in {<<>>, m}
  BY EmptySeq
<1>3. Send(data, up, left)
  BY DEF BufferedSend
<1> HIDE DEF data, left
<1>4. /\ errno' \in Errno /\ outBuf' \in Seq(Byte) /\ pipe' \in Seq(Byte)
      /\ peer' \in {"none", "up", "fin", "rst"}
      /\ heard' \in Seq(Byte) /\ answer' \in {"none", "ack", "old"}
      /\ \/ /\ fd' = fd /\ connected' = up /\ told' = told
            /\ pipe' \o outBuf' = pipe \o data
         \/ /\ up /\ fd' = FALSE /\ connected' = FALSE /\ told' \in {"closed", "closedAgain"}
            /\ outBuf' = left
  BY <1>1, <1>2, <1>3, SendOutcome
<1> QED
  BY <1>1, <1>2, <1>4

-----------------------------------------------------------------------------
(* The inductive invariant.                                                *)

LEMMA InitInv == Init => Inv
<1>1. <<>> \in Seq(Byte) /\ <<>> \in Seq({"ack", "old", "msg", "unknown"})
  BY EmptySeq
<1> QED
  BY <1>1 DEF Init, Inv, TypeOK, Errno

\* A request, a heartbeat and an onSend() leave the client connected and the
\* same connectionClosed() count, or closed and told so.
LEMMA OnSendOutcome ==
  ASSUME TypeOK, StreamAssumption, fd, connected => told = "opened", OnSend
  PROVE  /\ errno' \in Errno /\ outBuf' \in Seq(Byte) /\ pipe' \in Seq(Byte)
         /\ peer' \in {"none", "up", "fin", "rst"}
         /\ heard' \in Seq(Byte) /\ answer' \in {"none", "ack", "old"}
         /\ \/ /\ fd' = fd /\ connected' = connected /\ told' = told
               /\ pipe' \o outBuf' = pipe \o outBuf
            \/ /\ connected /\ fd' = FALSE /\ connected' = FALSE /\ told' \in {"closed", "closedAgain"}
               /\ outBuf' = <<>>
<1>1. CASE errno = "again" /\ UNCHANGED <<fd, connected, outBuf, errno, told, network>>
  BY <1>1 DEF TypeOK, network
<1>2. CASE SocketError(connected, outBuf, <<>>)
  <2>1. CASE connected
    <3>1. Disconnect(<<>>) /\ errno' = "zero"
      BY <1>2, <2>1 DEF SocketError
    <3>2. /\ fd' = FALSE /\ connected' = FALSE /\ outBuf' = <<>>
          /\ told' \in {"closed", "closedAgain"}
          /\ pipe' = <<>> /\ peer' = "none" /\ heard' = <<>> /\ answer' = "none"
      BY <3>1, EmptySeq, DisconnectType
    <3> QED
      BY <2>1, <3>1, <3>2, EmptySeq DEF Errno
  <2>2. CASE ~connected
    BY <1>2, <2>2 DEF SocketError, TypeOK, Errno
  <2> QED
    BY <2>1, <2>2
<1>3. CASE SendBufferedData
  <2>1. Send(outBuf, connected, <<>>) /\ outBuf \in Seq(Byte) /\ connected \in BOOLEAN
    BY <1>3 DEF SendBufferedData, TypeOK
  <2> QED
    BY <2>1, EmptySeq, SendOutcome
<1> QED
  BY <1>1, <1>2, <1>3 DEF OnSend

\* Inv holds after every step: one case per action of Next.
LEMMA NextInv ==
  ASSUME Inv, StreamAssumption, [Next]_vars
  PROVE  Inv'
<1>e. <<>> \in Seq(Byte) /\ <<>> \in Seq({"ack", "old", "msg", "unknown"})
  BY EmptySeq
<1> USE <1>e
<1>a. TypeOK
  BY DEF Inv
<1>m. \A m \in Message : m \in Seq(Byte)
  BY DEF StreamAssumption
<1>1. CASE Connect
  <2>1. outBuf \o Version \in Seq(Byte)
    BY ConcatProperties DEF Inv, TypeOK, StreamAssumption
  <2> QED
    BY <1>1, <2>1 DEF Connect, Inv, TypeOK, Errno
<1>2. CASE ConnectRefused
  BY <1>2 DEF ConnectRefused, CloseSocket, Inv, TypeOK, Errno
<1>3. CASE ConnectAgain
  BY <1>3 DEF ConnectAgain, network, Inv, TypeOK, Errno
<1>4. CASE ConnectDone
  <2>1. CASE fd /\ connected /\ told' = "opened" /\ UNCHANGED <<fd, connected, outBuf, network>>
    BY <1>4, <2>1 DEF ConnectDone, network, Inv, TypeOK
  <2>2. CASE CloseSocket(<<>>) /\ UNCHANGED told
    BY <1>4, <2>2 DEF ConnectDone, CloseSocket, Inv, TypeOK
  <2> QED
    BY <1>4, <2>1, <2>2 DEF ConnectDone
<1>5. CASE EDisconnect
  BY <1>5 DEF EDisconnect, Disconnect, CloseSocket, TellClosed, Inv, TypeOK, Errno
<1>6. ASSUME NEW m \in Requests, Request(m)
      PROVE  Inv'
  <2>1. m \in Message /\ m \in Seq(Byte)
    BY <1>m DEF Message
  <2>2. BufferedSend(m, connected) /\ connected \in BOOLEAN
    BY <1>6, <1>a DEF Request, TypeOK
  <2>3. /\ errno' \in Errno /\ outBuf' \in Seq(Byte) /\ pipe' \in Seq(Byte)
        /\ peer' \in {"none", "up", "fin", "rst"}
        /\ heard' \in Seq(Byte) /\ answer' \in {"none", "ack", "old"}
        /\ \/ fd' = fd /\ connected' = connected /\ told' = told
           \/ /\ connected /\ fd' = FALSE /\ connected' = FALSE /\ told' \in {"closed", "closedAgain"}
              /\ outBuf' \in {<<>>, m}
    BY <1>a, <2>1, <2>2, BufferedSendOutcome
  <2>4. TypeOK'
    BY <1>6, <2>3 DEF Request, Inv, TypeOK
  <2>5. phase' = phase /\ todo' = todo /\ phase = "idle" /\ connected
    BY <1>6 DEF Request
  <2>6. CASE fd' = fd /\ connected' = connected /\ told' = told
    BY <2>4, <2>5, <2>6 DEF Inv
  <2>7. CASE /\ fd' = FALSE /\ connected' = FALSE /\ told' \in {"closed", "closedAgain"}
             /\ outBuf' \in {<<>>, m}
    BY <2>1, <2>4, <2>5, <2>7 DEF Inv
  <2> QED
    BY <2>3, <2>6, <2>7
<1>7. CASE CheckMessages
  <2>1. CASE connected /\ hbDue /\ BufferedSend(Heartbeat, connected) /\ hbDue' = FALSE
    <3>1. Heartbeat \in Message /\ Heartbeat \in Seq(Byte) /\ connected \in BOOLEAN
      BY <1>a, <1>m DEF Message, TypeOK
    <3>2. /\ errno' \in Errno /\ outBuf' \in Seq(Byte) /\ pipe' \in Seq(Byte)
          /\ peer' \in {"none", "up", "fin", "rst"}
          /\ heard' \in Seq(Byte) /\ answer' \in {"none", "ack", "old"}
          /\ \/ fd' = fd /\ connected' = connected /\ told' = told
             \/ /\ connected /\ fd' = FALSE /\ connected' = FALSE /\ told' \in {"closed", "closedAgain"}
                /\ outBuf' \in {<<>>, Heartbeat}
      BY <1>a, <2>1, <3>1, BufferedSendOutcome
    <3> QED
      BY <1>7, <2>1, <3>1, <3>2 DEF CheckMessages, Inv, TypeOK
  <2>2. CASE UNCHANGED <<fd, connected, outBuf, errno, hbDue, told, network>>
    BY <1>7, <2>2 DEF CheckMessages, network, Inv, TypeOK, Errno
  <2> QED
    BY <1>7, <2>1, <2>2 DEF CheckMessages
<1>8. CASE Select
  BY <1>8 DEF Select, Return, network, Inv, TypeOK, Errno
<1>9. CASE SelectInterrupted
  BY <1>9 DEF SelectInterrupted, Disconnect, CloseSocket, TellClosed, Inv, TypeOK, Errno
<1>10. CASE Write
  <2>1. OnSend /\ fd /\ (connected => told = "opened")
    BY <1>10 DEF Write, Inv, TypeOK
  <2>2. /\ errno' \in Errno /\ outBuf' \in Seq(Byte) /\ pipe' \in Seq(Byte)
        /\ peer' \in {"none", "up", "fin", "rst"}
        /\ heard' \in Seq(Byte) /\ answer' \in {"none", "ack", "old"}
        /\ \/ fd' = fd /\ connected' = connected /\ told' = told
           \/ /\ connected /\ fd' = FALSE /\ connected' = FALSE /\ told' \in {"closed", "closedAgain"}
              /\ outBuf' = <<>>
    BY <1>a, <2>1, OnSendOutcome
  <2>3. CASE fd'
    <3>1. /\ fd /\ connected' = connected /\ told' = told
          /\ todo' = todo \ {"write"}
          /\ phase' = IF phase = "polling" /\ todo' = {} THEN "idle" ELSE phase
          /\ UNCHANGED <<hbDue, inbox, made>>
      BY <1>10, <2>1, <2>2, <2>3 DEF Write, Return
    <3>2. TypeOK'
      BY <1>a, <2>2, <2>3, <3>1 DEF TypeOK
    <3> QED
      BY <1>10, <2>3, <3>1, <3>2 DEF Write, Inv, TypeOK
  <2>4. CASE ~fd'
    <3>1. /\ connected /\ ~connected' /\ told' \in {"closed", "closedAgain"}
          /\ outBuf' = <<>> /\ todo' = {}
          /\ phase' = IF phase = "polling" THEN "idle" ELSE phase
          /\ UNCHANGED <<hbDue, inbox, made>>
      BY <1>10, <2>1, <2>2, <2>4 DEF Write, Return
    <3>2. TypeOK'
      BY <1>a, <2>2, <2>4, <3>1 DEF TypeOK
    <3> QED
      BY <1>10, <2>4, <3>1, <3>2 DEF Write, Inv, TypeOK
  <2> QED
    BY <2>3, <2>4
<1>11. CASE ReadNothing
  BY <1>11 DEF ReadNothing, Disconnect, CloseSocket, TellClosed, network, Inv, TypeOK, Errno
<1>12. CASE ReadAck
  <2>1. /\ Hello \in Message /\ Hello \in Seq(Byte) /\ BufferedSend(Hello, TRUE)
        /\ phase = "connecting" /\ fd /\ told # "opened"
    BY <1>12, <1>m DEF Message, ReadAck, Inv, TypeOK
  <2>2. /\ errno' \in Errno /\ outBuf' \in Seq(Byte) /\ pipe' \in Seq(Byte)
        /\ peer' \in {"none", "up", "fin", "rst"}
        /\ heard' \in Seq(Byte) /\ answer' \in {"none", "ack", "old"}
        /\ \/ fd' = fd /\ connected' = TRUE /\ told' = told
           \/ /\ fd' = FALSE /\ connected' = FALSE /\ told' \in {"closed", "closedAgain"}
              /\ outBuf' \in {<<>>, Hello}
    BY <1>a, <2>1, BufferedSendOutcome
  <2> QED
    BY <1>12, <2>1, <2>2 DEF ReadAck, Return, Inv, TypeOK
<1>13. CASE ReadOld
  BY <1>13 DEF ReadOld, Return, Inv, TypeOK, Errno
<1>14. CASE ReadMessages
  BY <1>14 DEF ReadMessages, Return, Inv, TypeOK, Errno
<1>15. CASE ReadUnknown
  BY <1>15 DEF ReadUnknown, CloseSocket, TellClosed, Return, Inv, TypeOK, Errno
<1>16. CASE Tick
  BY <1>16 DEF Tick, network, Inv, TypeOK, Errno
<1>17. CASE ForeignErrno
  BY <1>17 DEF ForeignErrno, network, Inv, TypeOK, Errno
<1>18. CASE TwsRead
  <2>1. PICK n \in 1 .. Len(pipe) :
           LET read == heard \o SubSeq(pipe, 1, n)
           IN  /\ heard' = IF Len(read) <= Len(Version)
                             THEN read ELSE SubSeq(read, 1, Len(Version))
               /\ pipe' = SubSeq(pipe, n + 1, Len(pipe))
    BY <1>18 DEF TwsRead
  <2>2. n \in 0 .. Len(pipe) /\ pipe \in Seq(Byte) /\ heard \in Seq(Byte)
    <3>1. pipe \in Seq(Byte) /\ heard \in Seq(Byte)
      BY <1>a DEF TypeOK
    <3>2. Len(pipe) \in Nat
      BY <3>1, LenProperties
    <3> QED
      BY <3>1, <3>2
  <2>3. SubSeq(pipe, 1, n) \in Seq(Byte) /\ pipe' \in Seq(Byte)
    BY <2>1, <2>2, SplitAt
  <2> DEFINE read == heard \o SubSeq(pipe, 1, n)
  <2>4. read \in Seq(Byte) /\ Len(read) \in Nat /\ Len(Version) \in Nat
    BY <2>2, <2>3, ConcatProperties, LenProperties DEF StreamAssumption
  <2>5. heard' = IF Len(read) <= Len(Version) THEN read ELSE SubSeq(read, 1, Len(Version))
    BY <2>1
  <2> HIDE DEF read
  <2>6. Len(Version) <= Len(read) => SubSeq(read, 1, Len(Version)) \in Seq(Byte)
    BY <2>4, SplitAt
  <2>7. heard' \in Seq(Byte)
    BY <2>4, <2>5, <2>6
  <2> QED
    BY <1>18, <2>3, <2>7 DEF TwsRead, client, Inv, TypeOK, Errno
<1>19. CASE TwsAnswer
  <2>1. PICK a \in {"ack", "old"} : answer' = a /\ inbox' = Append(inbox, a)
    BY <1>19 DEF TwsAnswer
  <2>3. inbox \in Seq({"ack", "old", "msg", "unknown"}) /\ a \in {"ack", "old", "msg", "unknown"}
    BY <1>a DEF TypeOK
  <2>2. inbox' \in Seq({"ack", "old", "msg", "unknown"}) /\ answer' \in {"none", "ack", "old"}
    BY <2>1, <2>3, AppendProperties
  <2> QED
    BY <1>19, <2>2 DEF TwsAnswer, client, Inv, TypeOK, Errno
<1>20. CASE TwsSend
  <2>1. PICK kind \in {"msg", "unknown"} : inbox' = Append(inbox, kind)
    BY <1>20 DEF TwsSend
  <2>3. inbox \in Seq({"ack", "old", "msg", "unknown"}) /\ kind \in {"ack", "old", "msg", "unknown"}
    BY <1>a DEF TypeOK
  <2>2. inbox' \in Seq({"ack", "old", "msg", "unknown"})
    BY <2>1, <2>3, AppendProperties
  <2> QED
    BY <1>20, <2>2 DEF TwsSend, client, Inv, TypeOK, Errno
<1>21. CASE TwsClose
  BY <1>21 DEF TwsClose, client, Inv, TypeOK, Errno
<1>22. CASE Break
  BY <1>22 DEF Break, client, Inv, TypeOK, Errno
<1>23. CASE UNCHANGED vars
  <2>1. /\ phase' = phase /\ todo' = todo /\ fd' = fd /\ connected' = connected
        /\ outBuf' = outBuf /\ errno' = errno /\ hbDue' = hbDue /\ told' = told
        /\ pipe' = pipe /\ peer' = peer /\ inbox' = inbox /\ heard' = heard
        /\ answer' = answer /\ made' = made
    BY <1>23 DEF vars
  <2>2. TypeOK'
    BY ONLY TypeOK, <2>1, <1>a DEF TypeOK, Errno
  <2> QED
    BY ONLY Inv, <2>1, <2>2 DEF Inv
<1> QED
  BY <1>1, <1>2, <1>3, <1>4, <1>5, <1>6, <1>7, <1>8, <1>9, <1>10, <1>11, <1>12,
     <1>13, <1>14, <1>15, <1>16, <1>17, <1>18, <1>19, <1>20, <1>21, <1>22, <1>23
  DEF Next, Round

\* Inv is an invariant of the specification.
THEOREM Invariance == Spec => []Inv
<1>1. Inv /\ [Next]_vars => Inv'
  BY NextInv, StreamAssumption
<1> QED
  BY InitInv, <1>1, PTL DEF Spec

\* The variables keep their types, and a pending result of select() is about an
\* open socket.
THEOREM TypeCorrect == Spec => []TypeOK
<1>1. Inv => TypeOK
  BY DEF Inv
<1> QED
  BY Invariance, <1>1, PTL

\* Between two calls the client is connected or closed, and the EWrapper knows.
THEOREM RestCorrect == Spec => []AtRest
<1>1. Inv => AtRest
  BY DEF Inv, TypeOK, AtRest
<1> QED
  BY Invariance, <1>1, PTL

-----------------------------------------------------------------------------
(* eConnect is all or nothing.                                             *)

\* Only ConnectDone, an interrupted select() and a failed read leave eConnect.
THEOREM ConnectCorrect == Spec => ConnectIsAllOrNothing
<1> DEFINE AllOrNothing == phase = "connecting" /\ phase' = "idle" =>
                             connected' \/ (~fd' /\ outBuf' = <<>>)
<1>1. ASSUME Inv, [Next]_vars PROVE [AllOrNothing]_vars
  <2> SUFFICES ASSUME Next, phase = "connecting", phase' = "idle"
               PROVE  connected' \/ (~fd' /\ outBuf' = <<>>)
    BY <1>1
  <2>1. CASE ConnectDone
    BY <2>1 DEF ConnectDone, CloseSocket
  <2>2. CASE SelectInterrupted
    BY <2>2 DEF SelectInterrupted, CloseSocket
  <2>3. CASE ReadNothing
    BY <1>1, <2>3 DEF ReadNothing, CloseSocket, Inv
  <2>4. phase' = phase \/ ConnectDone \/ SelectInterrupted \/ ReadNothing
    BY DEF Next, Round, Connect, ConnectRefused, ConnectAgain, EDisconnect, Request,
           CheckMessages, Select, Write, ReadAck, ReadOld, ReadMessages, ReadUnknown,
           Return, Tick, ForeignErrno, TwsRead, TwsAnswer, TwsSend, TwsClose, Break,
           client
  <2> QED
    BY <2>1, <2>2, <2>3, <2>4
<1> QED
  BY Invariance, <1>1, PTL DEF Spec, ConnectIsAllOrNothing

-----------------------------------------------------------------------------
(* The client implements RequestStream.                                    *)

\* Every step of the client, the kernel or TWS is a step of RequestStream or
\* leaves the stage and the due bytes alone.
LEMMA RefinementStep ==
  ASSUME Inv, StreamAssumption, [Next]_vars
  PROVE  [Promised!Next]_<<Stage, Due>>
<1>t. /\ TypeOK /\ pipe \in Seq(Byte) /\ outBuf \in Seq(Byte) /\ connected \in BOOLEAN
      /\ Version \in Seq(Byte)
  BY DEF Inv, TypeOK, StreamAssumption
<1>m. \A m \in Message : m \in Seq(Byte)
  BY DEF StreamAssumption
<1>s. UNCHANGED <<fd, connected, pipe, outBuf>> => UNCHANGED <<Stage, Due>>
  BY DEF Stage, Due
<1>c. fd /\ ~fd' => Promised!Close
  BY DEF Promised!Close, Stage, Due
<1>z. ~fd /\ ~fd' => UNCHANGED <<Stage, Due>>
  BY DEF Stage, Due
<1>1. CASE Connect
  <2>1. outBuf \in {<<>>} \cup Message /\ ~fd /\ fd' /\ ~connected'
    BY <1>1 DEF Connect, Inv
  <2>2. pipe' \o outBuf' = outBuf \o Version
    <3>1. outBuf \o Version \in Seq(Byte)
      BY <1>t, ConcatProperties
    <3>2. (outBuf \o Version) \o <<>> = outBuf \o Version /\ <<>> \o (outBuf \o Version) = outBuf \o Version
      BY <3>1, ConcatEmptySeq
    <3> QED
      BY <1>1, <3>2 DEF Connect
  <2>3. Promised!Open(outBuf)
    BY <2>1, <2>2 DEF Promised!Open, Stage, Due
  <2> QED
    BY <2>1, <2>3 DEF Promised!Next, Promised!Leftovers, Promised!Messages, Message
<1>2. CASE ConnectRefused
  BY <1>2, <1>z DEF ConnectRefused, CloseSocket
<1>4. CASE ConnectDone
  <2>1. UNCHANGED <<fd, connected, pipe, outBuf>> \/ ~fd'
    BY <1>4 DEF ConnectDone, CloseSocket, network
  <2> QED
    BY <1>s, <1>c, <1>z, <2>1 DEF Promised!Next
<1>5. CASE EDisconnect \/ SelectInterrupted \/ ReadUnknown
  <2>1. ~fd'
    BY <1>5 DEF EDisconnect, SelectInterrupted, ReadUnknown, Disconnect, CloseSocket
  <2> QED
    BY <1>c, <1>z, <2>1 DEF Promised!Next
<1>6. ASSUME NEW m \in Requests \cup {Heartbeat}, connected, fd, BufferedSend(m, connected)
      PROVE  Promised!Next
  <2>1. m \in Seq(Byte)
    BY <1>m DEF Message
  <2>2. \/ /\ fd' = fd /\ connected' = connected
           /\ pipe' \o outBuf' = (pipe \o outBuf) \o m
        \/ fd' = FALSE
    BY <1>6, <1>t, <2>1, BufferedSendOutcome
  <2>3. CASE fd'
    <3>1. Promised!Submit(m)
      BY <1>6, <2>2, <2>3 DEF Promised!Submit, Stage, Due
    <3> QED
      BY <3>1 DEF Promised!Next
  <2>4. CASE ~fd'
    BY <1>6, <1>c, <2>4 DEF Promised!Next
  <2> QED
    BY <2>3, <2>4
<1>7. ASSUME NEW m \in Requests, Request(m)
      PROVE  Promised!Next
  BY <1>6, <1>7 DEF Request, Inv
<1>8. CASE CheckMessages
  BY <1>6, <1>8, <1>s DEF CheckMessages, network
<1>10. CASE Write
  <2>1. OnSend /\ fd /\ (connected => told = "opened")
    BY <1>10 DEF Write, Inv, TypeOK
  <2>2. \/ /\ fd' = fd /\ connected' = connected
           /\ pipe' \o outBuf' = pipe \o outBuf
        \/ fd' = FALSE
    BY <1>t, <2>1, OnSendOutcome
  <2>3. CASE ~fd'
    BY <1>c, <2>1, <2>3 DEF Promised!Next
  <2>4. CASE fd'
    BY <2>1, <2>2, <2>4 DEF Stage, Due
  <2> QED
    BY <2>3, <2>4
<1>11. CASE ReadNothing
  <2>1. UNCHANGED <<fd, connected, pipe, outBuf>> \/ ~fd'
    BY <1>11 DEF ReadNothing, Disconnect, CloseSocket, network
  <2> QED
    BY <1>s, <1>c, <1>z, <2>1 DEF Promised!Next
<1>12. CASE ReadAck
  <2>1. BufferedSend(Hello, TRUE) /\ ~connected /\ fd /\ Hello \in Seq(Byte)
    BY <1>12, <1>m DEF ReadAck, Inv, TypeOK, Message
  <2>2. \/ /\ fd' = fd /\ connected' = TRUE
           /\ pipe' \o outBuf' = (pipe \o outBuf) \o Hello
        \/ fd' = FALSE
    BY <1>t, <2>1, BufferedSendOutcome
  <2>3. CASE fd'
    <3>1. Promised!Greet
      BY <2>1, <2>2, <2>3 DEF Promised!Greet, Stage, Due
    <3> QED
      BY <3>1 DEF Promised!Next
  <2>4. CASE ~fd'
    BY <1>c, <2>1, <2>4 DEF Promised!Next
  <2> QED
    BY <2>3, <2>4
<1>18. CASE TwsRead
  <2>1. PICK n \in 1 .. Len(pipe) : pipe' = SubSeq(pipe, n + 1, Len(pipe))
    BY <1>18 DEF TwsRead
  <2>2. UNCHANGED <<fd, connected, outBuf>>
    BY <1>18 DEF TwsRead, client
  <2>3. /\ n \in 1 .. Len(pipe \o outBuf)
        /\ pipe' \o outBuf' = SubSeq(pipe \o outBuf, n + 1, Len(pipe \o outBuf))
    BY <1>t, <2>1, <2>2, DropFromFirst
  <2>4. CASE fd
    <3>1. Promised!Receive(n)
      BY <2>2, <2>3, <2>4 DEF Promised!Receive, Stage, Due
    <3>2. n \in 1 .. Len(Due)
      BY <2>3, <2>4 DEF Due
    <3> QED
      BY <3>1, <3>2 DEF Promised!Next
  <2>5. CASE ~fd
    BY <1>z, <2>2, <2>5
  <2> QED
    BY <2>4, <2>5
<1>19. CASE \/ ConnectAgain \/ Select \/ ReadOld \/ ReadMessages \/ Tick \/ ForeignErrno
            \/ TwsAnswer \/ TwsSend \/ TwsClose \/ Break \/ UNCHANGED vars
  <2>1. UNCHANGED <<fd, connected, pipe, outBuf>>
    BY <1>19 DEF ConnectAgain, Select, ReadOld, ReadMessages, Tick, ForeignErrno,
                 TwsAnswer, TwsSend, TwsClose, Break, client, network, vars
  <2> QED
    BY <1>s, <2>1
<1> QED
  BY <1>1, <1>2, <1>4, <1>5, <1>7, <1>8, <1>10, <1>11, <1>12, <1>18, <1>19
  DEF Next, Round

\* No byte is lost, repeated or reordered on a connection, for any message set
\* and any size of the kernel buffer.
THEOREM StreamCorrect == Spec => ImplementsRequestStream
<1>1. Init => Promised!Init
  BY DEF Init, Promised!Init, Stage, Due
<1>2. Inv /\ [Next]_vars => [Promised!Next]_<<Stage, Due>>
  BY RefinementStep, StreamAssumption
<1> QED
  BY Invariance, <1>1, <1>2, PTL DEF Spec, ImplementsRequestStream, Promised!Spec
==============================================================================
