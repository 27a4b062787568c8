------------------------------ MODULE InBuffer ------------------------------
(***************************************************************************)
(* The way of TWS' messages from the socket to the EWrapper: recv()        *)
(* returns any part of the stream, checkMessages appends it to m_inBuffer  *)
(* and decodes message after message; a message whose end has not arrived  *)
(* is decoded again, from its start, when more has.                        *)
(*                                                                         *)
(* Source: checkMessages, bufferedRead, CleanupBuffer, processConnectAck   *)
(* and processMsg in EClientSocketBaseImpl.h.  A step decodes one message. *)
(* A field of which the end is missing is as good as not there             *)
(* (FindFieldEnd), so the stream is a sequence of whole fields.            *)
(***************************************************************************)
EXTENDS TwsMessages, SequencesExt

CONSTANTS ServerVersions, \* what TWS may say its version is
          Messages(_),    \* the messages a TWS of a version may send
          MaxSent(_)      \* bound: messages it sends on a connection

ASSUME InBufferAssumption ==
  /\ ServerVersions \subseteq Nat \ {0}  \* 0: TWS has not answered
  /\ \A v \in ServerVersions :
       /\ MaxSent(v) \in Nat
       /\ \A m \in Messages(v) : m \in Seq(Int) /\ End(m, v) = Len(m)

VARIABLES
  fd,            \* m_fd >= 0
  connected,     \* m_connected
  serverVersion, \* m_serverVersion
  inBuf,         \* m_inBuffer
  pos,           \* ptr - beginPtr in checkMessages
  decoding,      \* checkMessages is in its loop
  stream,        \* fields TWS has sent and recv() has not returned
  server,        \* the version TWS has sent, 0 before it has
  sent,          \* the messages TWS has sent on this connection
  passed         \* the messages passed to the EWrapper on this connection

buffer == <<inBuf, pos, decoding>>
vars == <<fd, connected, serverVersion, inBuf, pos, decoding, stream, server,
          sent, passed>>

TypeOK ==
  /\ fd \in BOOLEAN /\ connected \in BOOLEAN /\ decoding \in BOOLEAN
  /\ connected => fd /\ serverVersion >= SERVER_VERSION
  /\ decoding => fd /\ pos < Len(inBuf)   \* asserted by processMsg
  /\ serverVersion \in ServerVersions \cup {0} /\ server \in ServerVersions \cup {0}
  /\ inBuf \in Seq(Int) /\ stream \in Seq(Int)
  /\ pos \in 0 .. Len(inBuf)
  /\ sent \in Seq(Seq(Int))
  /\ passed \in Seq(Seq(Int))

Init ==
  /\ fd = FALSE /\ connected = FALSE /\ serverVersion = 0
  /\ inBuf = <<>> /\ pos = 0 /\ decoding = FALSE
  /\ stream = <<>> /\ server = 0 /\ sent = <<>> /\ passed = <<>>

-----------------------------------------------------------------------------
(* The client.                                                             *)

\* eConnect opens a socket; it leaves m_inBuffer as the last disconnect did.
Connect ==
  /\ ~fd
  /\ fd' = TRUE
  /\ stream' = <<>> /\ server' = 0 /\ sent' = <<>> /\ passed' = <<>>
  /\ UNCHANGED <<connected, serverVersion, buffer>>

\* eDisconnect and eDisconnectBase; in the loop of checkMessages it leaves an
\* empty m_inBuffer, on which the loop breaks.
Disconnect ==
  /\ fd' = FALSE /\ connected' = FALSE /\ serverVersion' = 0
  /\ inBuf' = <<>> /\ pos' = 0 /\ decoding' = FALSE

\* Between two calls the program disconnects, recv() fails, or eConnect does.
DisconnectIdle ==
  /\ fd /\ ~decoding
  /\ Disconnect
  /\ UNCHANGED <<stream, server, sent, passed>>

\* bufferedRead.
Receive ==
  /\ fd /\ ~decoding
  /\ \E n \in 1 .. Len(stream) :
       /\ inBuf' = inBuf \o SubSeq(stream, 1, n)
       /\ stream' = SubSeq(stream, n + 1, Len(stream))
  /\ pos' = 0 /\ decoding' = TRUE
  /\ UNCHANGED <<fd, connected, serverVersion, server, sent, passed>>

Rest == SubSeq(inBuf, pos + 1, Len(inBuf))

\* Mutant: what was processed stays in the buffer.
CleanupNothing(processed) ==
  inBuf' = inBuf /\ pos' = 0 /\ decoding' = FALSE

\* CleanupBuffer ends checkMessages.
Cleanup(processed) ==
  inBuf' = SubSeq(inBuf, processed + 1, Len(inBuf)) /\ pos' = 0 /\ decoding' = FALSE

\* Mutant: one message for each read.
ConsumeOne(n) == Cleanup(pos + n)

\* Mutant: the loop goes on at the end of the buffer.
ConsumePastEnd(n) ==
  IF pos + n > Len(inBuf)
    THEN Cleanup(pos + n)
    ELSE pos' = pos + n /\ UNCHANGED <<inBuf, decoding>>

\* A message of n fields has been processed: the loop ends with the buffer.
Consume(n) ==
  IF pos + n >= Len(inBuf)
    THEN Cleanup(pos + n)
    ELSE pos' = pos + n /\ UNCHANGED <<inBuf, decoding>>

\* processConnectAck accepts TWS; START_API or the client id is sent, which may
\* find the connection broken.
ProcessConnectAck ==
  /\ decoding /\ ~connected
  /\ AckEnd(Rest) <= Len(Rest)
  /\ Field(Rest, 1) >= SERVER_VERSION
  /\ \/ /\ connected' = TRUE
        /\ serverVersion' = Field(Rest, 1)
        /\ Consume(AckEnd(Rest))
        /\ UNCHANGED fd
     \/ Disconnect
  /\ UNCHANGED <<stream, server, sent, passed>>

\* TWS is too old: the virtual eDisconnect returns at once, as m_connected is
\* FALSE, nothing is consumed and the answer stays in the buffer.
RefuseServer ==
  /\ decoding /\ ~connected
  /\ AckEnd(Rest) <= Len(Rest)
  /\ Field(Rest, 1) < SERVER_VERSION
  /\ serverVersion' = Field(Rest, 1)
  /\ Cleanup(pos)
  /\ UNCHANGED <<fd, connected, stream, server, sent, passed>>

\* processMsg: the EWrapper is called with the message, and may disconnect.
ProcessMsg ==
  /\ decoding /\ connected
  /\ End(Rest, serverVersion) <= Len(Rest)
  /\ Field(Rest, 1) \in KnownIds
  /\ passed' = Append(passed, SubSeq(Rest, 1, End(Rest, serverVersion)))
  /\ \/ /\ Consume(End(Rest, serverVersion))
        /\ UNCHANGED <<fd, connected, serverVersion>>
     \/ Disconnect
  /\ UNCHANGED <<stream, server, sent>>

\* An unknown id disconnects.
ProcessUnknown ==
  /\ decoding /\ connected
  /\ Field(Rest, 1) \notin KnownIds
  /\ Disconnect
  /\ UNCHANGED <<stream, server, sent, passed>>

\* Mutant: an incomplete message is dropped.
IncompleteDropped ==
  /\ decoding
  /\ (IF connected THEN End(Rest, serverVersion) ELSE AckEnd(Rest)) > Len(Rest)
  /\ Cleanup(Len(inBuf))
  /\ UNCHANGED <<fd, connected, serverVersion, stream, server, sent, passed>>

\* DECODE_FIELD finds the end of the buffer: 0 is returned and the loop ends.
Incomplete ==
  /\ decoding
  /\ (IF connected THEN End(Rest, serverVersion) ELSE AckEnd(Rest)) > Len(Rest)
  /\ Cleanup(pos)
  /\ UNCHANGED <<fd, connected, serverVersion, stream, server, sent, passed>>

Decode ==
  ProcessConnectAck \/ RefuseServer \/ ProcessMsg \/ ProcessUnknown \/ Incomplete

-----------------------------------------------------------------------------
(* TWS.                                                                    *)

TwsAnswer ==
  /\ fd /\ server = 0
  /\ \E v \in ServerVersions :
       /\ server' = v
       /\ stream' = IF v >= 20 THEN <<v, 0>> ELSE <<v>>
  /\ UNCHANGED <<fd, connected, serverVersion, buffer, sent, passed>>

TwsSend ==
  /\ fd /\ server >= SERVER_VERSION /\ Len(sent) < MaxSent(server)
  /\ \E m \in Messages(server) : sent' = Append(sent, m) /\ stream' = stream \o m
  /\ UNCHANGED <<fd, connected, serverVersion, buffer, server, passed>>

Next == Connect \/ DisconnectIdle \/ Receive \/ Decode \/ TwsAnswer \/ TwsSend

Spec == Init /\ [][Next]_vars

-----------------------------------------------------------------------------
(* Properties.                                                             *)

\* However recv() cuts the stream, the EWrapper gets the messages of this
\* connection whole, in order, each once, and none of an earlier connection
\* (checkMessages, CleanupBuffer, eDisconnectBase).
PassedInOrderOnce == IsPrefix(passed, sent)

\* checkMessages does not return while m_inBuffer holds a whole message: nothing
\* would decode it before TWS sends something more.
NothingWaits ==
  connected /\ ~decoding => inBuf = <<>> \/ End(inBuf, serverVersion) > Len(inBuf)

\* Nothing is lost on the way: the messages not passed on yet are what follows in
\* m_inBuffer and in the stream, however often a message was found incomplete
\* (CleanupBuffer, and the return of processMsg without a result).
NothingIsLost ==
  connected => FlattenSeq(SubSeq(sent, Len(passed) + 1, Len(sent))) = Rest \o stream
==============================================================================
