---------------------------- MODULE ClientStream ----------------------------
(***************************************************************************)
(* One EClientL0 used without the reader thread (EWrapperL0(false)): the   *)
(* program calls eConnect, the requests, checkMessages and eDisconnect one *)
(* after the other.  A step of the model is one system call with what the  *)
(* code does about its result, so that the kernel and TWS can act between  *)
(* two of them.                                                            *)
(*                                                                         *)
(* Sources: EClientL0Impl in TwsApiL0.cpp, EPosixClientSocket.cpp and the  *)
(* buffer functions of EClientSocketBaseImpl.h.                            *)
(***************************************************************************)
EXTENDS Integers, Sequences

CONSTANTS Byte,        \* what a message is made of
          Version,     \* the message of onConnectBase
          Hello,       \* the client id or START_API message of processConnectAck
          Heartbeat,   \* the '\0' byte of checkMessages
          Requests,    \* the messages of the EClient requests
          SendBuf,     \* bytes the kernel holds for a socket TWS does not read
          MaxBacklog,  \* bound: no second passes while more bytes are buffered
          MaxInbox,    \* bound: messages of TWS not yet read
          MaxStalled   \* the same while TWS has not read what is sent

Message == {Hello, Heartbeat} \cup Requests

ASSUME StreamAssumption ==
  /\ Version \in Seq(Byte) \ {<<>>}
  /\ Message \subseteq Seq(Byte) \ {<<>>}
  /\ SendBuf \in Nat \ {0}
  /\ MaxBacklog \in Nat /\ MaxInbox \in Nat
  /\ MaxStalled \in Nat

VARIABLES
  \* the client
  phase,      \* the call being executed: "idle" for none
  todo,       \* what select() found that checkMessagesOnce has still to do
  fd,         \* m_fd >= 0
  connected,  \* m_connected
  outBuf,     \* m_outBuffer
  errno,      \* errno of the calling thread
  hbDue,      \* time(0) > m_NextHeartbeat
  told,       \* the last connectionOpened/Closed() calls of the EWrapper
  \* the kernel and TWS
  pipe,       \* bytes accepted by ::send that TWS has not read
  peer,       \* "none", "up", "fin" (TWS closed) or "rst" (broken)
  inbox,      \* messages of TWS that ::recv has not returned
  heard,      \* the first Len(Version) bytes TWS has read
  answer,     \* TWS' answer to the version: "none", "ack" or "old"
  made        \* bound: the requests of this connection, each made once

client  == <<phase, todo, fd, connected, outBuf, errno, hbDue, told>>
network == <<pipe, peer, heard, answer>>
vars    == <<phase, todo, fd, connected, outBuf, errno, hbDue, told,
             pipe, peer, inbox, heard, answer, made>>

Errno == {"zero", "isconn", "again", "other"}

TypeOK ==
  /\ phase \in {"idle", "connecting", "polling"}
  /\ todo \subseteq {"write", "read"}
  /\ todo # {} => fd
  /\ fd \in BOOLEAN
  /\ connected \in BOOLEAN
  /\ outBuf \in Seq(Byte)
  /\ errno \in Errno
  /\ hbDue \in BOOLEAN
  /\ told \in {"opened", "closed", "closedAgain"}
  /\ pipe \in Seq(Byte)
  /\ peer \in {"none", "up", "fin", "rst"}
  /\ inbox \in Seq({"ack", "old", "msg", "unknown"})
  /\ heard \in Seq(Byte)
  /\ answer \in {"none", "ack", "old"}
  /\ made \subseteq Requests

Init ==
  /\ phase = "idle" /\ todo = {}
  /\ fd = FALSE /\ connected = FALSE /\ outBuf = <<>> /\ errno = "zero"
  /\ hbDue = TRUE /\ told = "closed"
  /\ pipe = <<>> /\ peer = "none" /\ inbox = <<>> /\ heard = <<>>
  /\ answer = "none" /\ made = {}

-----------------------------------------------------------------------------
(* Closing the socket.                                                     *)

\* EPosixClientSocket::eDisconnect; `left` is what the caller puts in
\* m_outBuffer after eDisconnectBase() cleared it.
CloseSocket(left) ==
  /\ fd' = FALSE
  /\ connected' = FALSE
  /\ outBuf' = left
  /\ pipe' = <<>> /\ peer' = "none" /\ heard' = <<>> /\ answer' = "none"

\* connectionClosed() is called.
TellClosed == told' = IF told = "opened" THEN "closed" ELSE "closedAgain"

\* Mutant: eDisconnect forgets connectionClosed().
SilentDisconnect(left) == CloseSocket(left) /\ UNCHANGED told

\* EClientL0Impl::eDisconnect of a connected client.
Disconnect(left) == CloseSocket(left) /\ TellClosed

\* handleSocketError after a failed call: errno is reset and the virtual
\* eDisconnect is called, which returns at once while `up` (m_connected) is
\* FALSE.  `kept` is m_outBuffer then, `left` when the socket was closed.
SocketError(up, kept, left) ==
  /\ errno' = "zero"
  /\ IF up
       THEN Disconnect(left)
       ELSE /\ outBuf' = kept
            /\ peer' = "rst"
            /\ UNCHANGED <<fd, connected, told, pipe, heard, answer>>

-----------------------------------------------------------------------------
(* Sending.                                                                *)

Free == IF Len(pipe) < SendBuf THEN SendBuf - Len(pipe) ELSE 0

\* How many bytes of data the kernel takes: the socket is blocking until
\* eConnect returns, and then a send() takes all of it.
Accepted(data) ==
  IF phase = "connecting" \/ Len(data) <= Free THEN Len(data) ELSE Free

\* Mutant: the last byte sent stays in the buffer.
UnsentOffByOne(data, n) == SubSeq(data, n, Len(data))

\* m_outBuffer after the first n bytes of data were sent: CleanupBuffer, or
\* the insert() of the unsent rest in bufferedSend.
Unsent(data, n) == SubSeq(data, n + 1, Len(data))

\* EPosixClientSocket::send of the bytes data, the first of them to be sent,
\* while m_connected = up.
Send(data, up, left) ==
  \/ /\ peer # "rst"
     /\ Free > 0
     /\ pipe' = pipe \o SubSeq(data, 1, Accepted(data))
     /\ outBuf' = Unsent(data, Accepted(data))
     /\ connected' = up
     /\ UNCHANGED <<fd, errno, told, peer, heard, answer>>
  \/ /\ peer # "rst"
     /\ Free = 0
     /\ phase # "connecting"
     /\ outBuf' = data
     /\ errno' = "again"
     /\ connected' = up
     /\ UNCHANGED <<fd, told, pipe, peer, heard, answer>>
  \/ SocketError(up, data, left)

\* Mutant: with a backlog bufferedSend leaves the sending to onSend().
LazyBufferedSend(m, up) ==
  IF outBuf # <<>>
    THEN /\ outBuf' = outBuf \o m
         /\ connected' = up
         /\ UNCHANGED <<fd, errno, told, network>>
    ELSE Send(m, up, m)

\* bufferedSend: both of its branches send the backlog and then m; when the
\* socket breaks, the branch for an empty backlog stores m after eDisconnect
\* has cleared the buffer.
BufferedSend(m, up) ==
  Send(outBuf \o m, up, IF outBuf = <<>> THEN m ELSE <<>>)

SendBufferedData == Send(outBuf, connected, <<>>)

-----------------------------------------------------------------------------
(* eConnect, eDisconnect and the requests.                                 *)

\* socket() and connect() succeed, then onConnectBase() sends the version.
Connect ==
  /\ phase = "idle" /\ ~fd
  /\ phase' = "connecting"
  /\ fd' = TRUE
  /\ errno' = "zero"
  /\ inbox' = <<>> /\ heard' = <<>> /\ answer' = "none" /\ made' = {}
  /\ \/ /\ peer' = "up"
        /\ pipe' = outBuf \o Version
        /\ outBuf' = <<>>
     \/ /\ peer' = "rst"
        /\ pipe' = <<>>
        /\ outBuf' = outBuf \o Version
  /\ UNCHANGED <<todo, connected, hbDue, told>>

\* socket() or connect() fails; EClientL0Impl then calls eDisconnect.
ConnectRefused ==
  /\ phase = "idle" /\ ~fd
  /\ errno' = "other"
  /\ CloseSocket(<<>>)
  /\ UNCHANGED <<phase, todo, hbDue, told, inbox, made>>

\* eConnect of a connected client reports ALREADY_CONNECTED; errno alone changes.
ConnectAgain ==
  /\ phase = "idle" /\ connected
  /\ errno' = "isconn"
  /\ UNCHANGED <<phase, todo, fd, connected, outBuf, hbDue, told, network,
                 inbox, made>>

\* Mutant: eConnect does not disconnect when its second half fails.
LeakyConnectDone ==
  /\ phase = "connecting" /\ todo = {} /\ (fd => connected)
  /\ phase' = "idle"
  /\ told' = IF fd THEN "opened" ELSE told
  /\ UNCHANGED <<todo, fd, connected, outBuf, errno, hbDue, network, inbox,
                 made>>

\* The loop of eConnect ends with m_connected, or with the socket closed by a
\* failure inside processConnectAck: then SetSocketNonBlocking(-1) fails, as it
\* may for an open socket.
ConnectDone ==
  /\ phase = "connecting" /\ todo = {} /\ (fd => connected)
  /\ phase' = "idle"
  /\ \/ /\ fd
        /\ told' = "opened"
        /\ UNCHANGED <<fd, connected, outBuf, network>>
     \/ CloseSocket(<<>>) /\ UNCHANGED told
  /\ UNCHANGED <<todo, errno, hbDue, inbox, made>>

EDisconnect ==
  /\ phase = "idle" /\ connected
  /\ Disconnect(<<>>)
  /\ UNCHANGED <<phase, todo, errno, hbDue, inbox, made>>

Request(m) ==
  /\ phase = "idle" /\ connected
  /\ m \notin made
  /\ made' = made \cup {m}
  /\ BufferedSend(m, connected)
  /\ UNCHANGED <<phase, todo, hbDue, inbox>>

-----------------------------------------------------------------------------
(* checkMessages: the heartbeat, select(), onSend() and the read.          *)

\* End of a step of checkMessagesOnce with `rest` still to do.
Return(rest) ==
  /\ todo' = rest
  /\ phase' = IF phase = "polling" /\ rest = {} THEN "idle" ELSE phase

\* Mutant: checkMessages without the heartbeat.
CheckMessagesNoHeartbeat ==
  /\ phase = "idle" /\ fd
  /\ phase' = "polling"
  /\ UNCHANGED <<todo, fd, connected, outBuf, errno, hbDue, told, network,
                 inbox, made>>

CheckMessages ==
  /\ phase = "idle" /\ fd
  /\ \/ /\ connected /\ hbDue
        /\ BufferedSend(Heartbeat, connected)
        /\ hbDue' = FALSE
     \/ /\ ~(connected /\ hbDue)
        /\ UNCHANGED <<fd, connected, outBuf, errno, hbDue, told, network>>
  /\ phase' = IF fd' THEN "polling" ELSE "idle"
  /\ UNCHANGED <<todo, inbox, made>>

Writable == outBuf # <<>> /\ (Free > 0 \/ peer = "rst")
Readable == inbox # <<>> \/ peer # "up"

Select ==
  /\ phase # "idle" /\ todo = {} /\ fd /\ (phase = "connecting" => ~connected)
  /\ Return((IF Writable THEN {"write"} ELSE {}) \cup
            (IF Readable THEN {"read"} ELSE {}))
  /\ UNCHANGED <<fd, connected, outBuf, errno, hbDue, told, network, inbox,
                 made>>

\* select() is interrupted by a signal: it leaves the three sets as they were,
\* so the error set still holds the socket and handleSocketError() sees EINTR.
\* In eConnect its FALSE result makes the connection fail.
SelectInterrupted ==
  /\ phase # "idle" /\ todo = {} /\ fd /\ (phase = "connecting" => ~connected)
  /\ errno' = "zero"
  /\ phase' = "idle"
  /\ IF connected THEN Disconnect(<<>>) ELSE CloseSocket(<<>>) /\ UNCHANGED told
  /\ UNCHANGED <<todo, hbDue, inbox, made>>

\* onSend(): nothing while errno is still EWOULDBLOCK from an earlier send.
OnSend ==
  \/ /\ errno = "again"
     /\ UNCHANGED <<fd, connected, outBuf, errno, told, network>>
  \/ /\ errno = "other"
     /\ SocketError(connected, outBuf, <<>>)
  \/ /\ errno \in {"zero", "isconn"}
     /\ SendBufferedData

\* Mutant: the read does not ask again whether the socket is open.
WriteThenRead ==
  /\ "write" \in todo
  /\ OnSend
  /\ Return(todo \ {"write"})
  /\ UNCHANGED <<hbDue, inbox, made>>

Write ==
  /\ "write" \in todo
  /\ OnSend
  /\ Return(IF fd' THEN todo \ {"write"} ELSE {})
  /\ UNCHANGED <<hbDue, inbox, made>>

\* Mutant: eConnect goes on when the stream ends before the answer of TWS.
ReadNothingGoesOn ==
  /\ todo = {"read"} /\ inbox = <<>>
  /\ Return({})
  /\ UNCHANGED <<fd, connected, outBuf, errno, hbDue, told, network, inbox,
                 made>>

\* recv() returns 0 or -1, bufferedRead() passes it on and checkMessages()
\* returns FALSE.  In eConnect the connection fails; else a negative result
\* disconnects and a 0, the end of the stream, changes nothing.
ReadNothing ==
  /\ todo = {"read"} /\ inbox = <<>>
  /\ todo' = {} /\ phase' = "idle"
  /\ errno' = IF peer = "rst" THEN "other" ELSE errno
  /\ \/ ~connected /\ CloseSocket(<<>>) /\ UNCHANGED told
     \/ connected /\ peer = "rst" /\ Disconnect(<<>>)
     \/ /\ connected /\ peer = "fin"
        /\ UNCHANGED <<fd, connected, outBuf, told, network>>
  /\ UNCHANGED <<hbDue, inbox, made>>

Arrived(kind) == \E i \in DOMAIN inbox : inbox[i] = kind

\* processConnectAck accepts the server version, sets m_connected and sends the
\* client id; the messages behind it are processed by the same call.
ReadAck ==
  /\ todo = {"read"} /\ ~connected /\ Arrived("ack") /\ ~Arrived("unknown")
  /\ BufferedSend(Hello, TRUE)
  /\ inbox' = <<>>
  /\ Return({})
  /\ UNCHANGED <<hbDue, made>>

\* The server version is below SERVER_VERSION: eDisconnect returns at once as
\* m_connected is FALSE, nothing is consumed and eConnect goes on waiting.
ReadOld ==
  /\ todo = {"read"} /\ ~connected /\ Arrived("old")
  /\ inbox' = <<>>
  /\ Return({})
  /\ UNCHANGED <<fd, connected, outBuf, errno, hbDue, told, pipe, peer,
                 heard, answer, made>>

\* Messages that only call the EWrapper.
ReadMessages ==
  /\ todo = {"read"} /\ connected /\ inbox # <<>> /\ ~Arrived("unknown")
  /\ inbox' = <<>>
  /\ Return({})
  /\ UNCHANGED <<fd, connected, outBuf, errno, hbDue, told, pipe, peer,
                 heard, answer, made>>

\* An unknown message id disconnects, and processMsg reports connectionClosed()
\* after eDisconnect has.
ReadUnknown ==
  /\ todo = {"read"} /\ Arrived("unknown")
  /\ CloseSocket(<<>>)
  /\ told' = "closedAgain"
  /\ inbox' = <<>>
  /\ Return({})
  /\ UNCHANGED <<errno, hbDue, made>>

-----------------------------------------------------------------------------
(* Time, the kernel and TWS.                                               *)

Tick ==
  /\ ~hbDue
  /\ Len(outBuf) < IF pipe = <<>> \/ peer # "up" THEN MaxBacklog ELSE MaxStalled
  /\ hbDue' = TRUE
  /\ UNCHANGED <<phase, todo, fd, connected, outBuf, errno, told, network,
                 inbox, made>>

\* The program's own library calls leave an error in errno.
ForeignErrno ==
  /\ phase = "idle" /\ connected
  /\ errno' = "other"
  /\ UNCHANGED <<phase, todo, fd, connected, outBuf, hbDue, told, network,
                 inbox, made>>

TwsRead ==
  /\ peer = "up"
  /\ \E n \in 1 .. Len(pipe) :
       LET read == heard \o SubSeq(pipe, 1, n)
       IN  /\ heard' = IF Len(read) <= Len(Version)
                         THEN read ELSE SubSeq(read, 1, Len(Version))
           /\ pipe' = SubSeq(pipe, n + 1, Len(pipe))
  /\ UNCHANGED <<client, peer, inbox, answer, made>>

\* TWS answers once it has read as many bytes as a version has.
TwsAnswer ==
  /\ peer = "up" /\ answer = "none" /\ Len(heard) = Len(Version)
  /\ \E a \in {"ack", "old"} : answer' = a /\ inbox' = Append(inbox, a)
  /\ UNCHANGED <<client, pipe, peer, heard, made>>

TwsSend ==
  /\ peer = "up" /\ answer = "ack" /\ Len(inbox) < MaxInbox
  /\ \E kind \in {"msg", "unknown"} : inbox' = Append(inbox, kind)
  /\ UNCHANGED <<client, pipe, peer, heard, answer, made>>

TwsClose ==
  /\ peer = "up"
  /\ peer' = "fin"
  /\ UNCHANGED <<client, pipe, inbox, heard, answer, made>>

\* The connection breaks and what was received is lost.
Break ==
  /\ peer \in {"up", "fin"}
  /\ peer' = "rst" /\ inbox' = <<>>
  /\ UNCHANGED <<client, pipe, heard, answer, made>>

\* Bytes sent to the closed end are answered with a reset.
Reset == peer = "fin" /\ pipe # <<>> /\ Break

Round ==
  Select \/ SelectInterrupted \/ Write
    \/ ReadNothing \/ ReadAck \/ ReadOld \/ ReadMessages \/ ReadUnknown

Next ==
  \/ Connect \/ ConnectRefused \/ ConnectAgain \/ ConnectDone \/ EDisconnect
  \/ \E m \in Requests : Request(m)
  \/ CheckMessages \/ Round
  \/ Tick \/ ForeignErrno \/ TwsRead \/ TwsAnswer \/ TwsSend \/ TwsClose \/ Break

Spec == Init /\ [][Next]_vars

\* The program calls checkMessages() again and again, a system call returns,
\* seconds pass, and TWS reads, answers and resets.
Fairness ==
  /\ WF_vars(CheckMessages) /\ WF_vars(Round) /\ WF_vars(ConnectDone)
  /\ WF_vars(Tick) /\ WF_vars(TwsRead) /\ WF_vars(TwsAnswer) /\ WF_vars(Reset)

FairSpec == Spec /\ Fairness

-----------------------------------------------------------------------------
(* Properties.                                                             *)

\* Between two calls the client is either connected on an open socket or fully
\* closed, with at most one unsent message left in m_outBuffer; the application
\* has been told which: connectionClosed() was called for every connection that
\* connectionOpened() announced and that is gone (TwsApiL0.cpp eDisconnect).
AtRest ==
  phase = "idle" =>
    /\ fd = connected
    /\ connected <=> told = "opened"
    /\ ~fd => outBuf \in {<<>>} \cup Message

\* eConnect returns with a connected client or leaves nothing behind: no open
\* socket and no unsent byte (the eDisconnect in EClientL0Impl::eConnect).
ConnectIsAllOrNothing ==
  [][phase = "connecting" /\ phase' = "idle" =>
       connected' \/ (~fd' /\ outBuf' = <<>>)]_vars

\* What RequestStream sees of the client.
Stage == IF ~fd THEN "closed" ELSE IF connected THEN "ready" ELSE "greeting"
Due   == IF fd THEN pipe \o outBuf ELSE <<>>

Promised == INSTANCE RequestStream WITH stage <- Stage, due <- Due

\* Partial sends, full kernel buffers, broken sockets and heartbeats lose,
\* repeat and reorder no byte of a connection: what TWS has still to read is
\* what the kernel holds followed by m_outBuffer (bufferedSend, CleanupBuffer).
ImplementsRequestStream == Promised!Spec

\* What bufferedSend could not send does not stay in m_outBuffer: it is sent
\* or the connection is closed (the heartbeat in checkMessages).
BacklogIsFlushed == connected /\ outBuf # <<>> ~> outBuf = <<>> \/ ~connected

\* When TWS told or loses the connection, the client told its side and says
\* so by connectionClosed().
BrokenIsNoticed == connected /\ peer # "up" ~> ~connected /\ told # "opened"

\* eConnect returns, unless it talks to a TWS below SERVER_VERSION.
ConnectReturns == phase = "connecting" ~> phase = "idle" \/ answer = "old"

\* onConnectBase: "send client version"; TWS reads it first on a connection.
VersionComesFirst ==
  \A i \in 1 .. Len(heard) : heard[i] = Version[i]
==============================================================================
