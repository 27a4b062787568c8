---------------------------- MODULE ClientThreads ----------------------------
(***************************************************************************)
(* The threads of an EClientL0 with automatic reading (EWrapperL0(true)):  *)
(* program threads that call EClientL0Interface under its critical         *)
(* section, and the reader threads that eConnect starts, which run outside *)
(* of it.  The shared members m_fd, m_connected, m_ThreadIsRunning and     *)
(* m_Enabled are written one by one: a step writes one of them at most, so *)
(* other threads see what is between two of them.                          *)
(*                                                                         *)
(* Source: EClientL0Impl and EClientL0Interface in TwsApiL0.cpp, on POSIX, *)
(* where the critical section is a mutex.  The bytes are in ClientStream.  *)
(***************************************************************************)
EXTENDS Naturals, FiniteSets

CONSTANTS Users,       \* the program's threads
          Readers,     \* the threads pthread_create may return
          NoThread,    \* the mutex is free
          MaxConnects  \* bound: connections made

ASSUME ThreadsAssumption ==
  /\ Users \cap Readers = {} /\ NoThread \notin Users \cup Readers
  /\ MaxConnects \in Nat

Threads == Users \cup Readers

VARIABLES
  lock,       \* the owner of the critical section
  pc,         \* where each thread is
  ret,        \* where the eDisconnect() a thread executes returns to
  fd,         \* m_fd >= 0
  connected,  \* m_connected
  enabled,    \* m_EWrapperL0Impl.m_Enabled
  running,    \* m_ThreadIsRunning
  told,       \* the last connectionOpened/Closed() calls of the EWrapper
  peer,       \* the connection on the descriptor m_fd, as TWS and the network leave it
  reopen,     \* eConnect found the client connected
  session     \* number of the last connection

shared == <<fd, connected, enabled, running>>
vars == <<lock, pc, ret, fd, connected, enabled, running, told, peer, reopen, session>>

UserPC == {"idle", "eConnect", "open", "version", "handshake", "ack", "tooOld", "startApi",
           "failed", "failedClear", "failedBase", "opened", "start", "request", "send",
           "leave", "stuck"}
DisconnectPC == {"check", "stop", "wait", "close", "clear", "base", "tell"}
ReaderPC == {"none", "born", "loop", "select", "recv", "ack", "tooOld", "startApi",
             "callback", "lock", "request", "send", "again", "leave", "exit", "stuck"}

\* "new": TWS has not answered; "up" and "old": it has sent its version, which is one
\* the library speaks or is too old; "mute": that was read, and nothing follows; "fin":
\* TWS closed its end; "rst": broken; "none": the descriptor is closed.
Peers == {"none", "new", "up", "old", "mute", "fin", "rst"}

TypeOK ==
  /\ lock \in Threads \cup {NoThread}
  /\ pc \in [Threads -> UserPC \cup DisconnectPC \cup ReaderPC]
  /\ ret \in [Threads -> {"leave", "handshake", "failed", "loop", "again"}]
  /\ fd \in BOOLEAN /\ connected \in BOOLEAN
  /\ enabled \in BOOLEAN /\ running \in BOOLEAN
  /\ told \in {"opened", "closed", "closedAgain"}
  /\ peer \in Peers /\ reopen \in BOOLEAN
  /\ session \in 0 .. MaxConnects
  /\ \A u \in Users : pc[u] # "idle" => lock = u

Init ==
  /\ lock = NoThread
  /\ pc = [t \in Threads |-> IF t \in Users THEN "idle" ELSE "none"]
  /\ ret = [t \in Threads |-> "leave"]
  /\ fd = FALSE /\ connected = FALSE /\ enabled = TRUE /\ running = FALSE
  /\ told = "closed" /\ peer = "none"
  /\ reopen = FALSE /\ session = 0

Go(t, to) == pc' = [pc EXCEPT ![t] = to]

\* The virtual eDisconnect() is called and will return to `back`.
CallDisconnect(t, back) == Go(t, "check") /\ ret' = [ret EXCEPT ![t] = back]

\* The virtual eDisconnect() returns.
Return(t) == Go(t, ret[t]) /\ ret' = [ret EXCEPT ![t] = "leave"]

-----------------------------------------------------------------------------
(* EPosixClientSocket::eDisconnect closes the descriptor, resets m_fd and   *)
(* then, in eDisconnectBase, m_connected.  Each is visible to the others.   *)

CloseSocket(t, from, to) ==
  /\ pc[t] = from
  /\ peer' = IF fd THEN "none" ELSE peer
  /\ Go(t, to)
  /\ UNCHANGED <<lock, ret, shared, told, reopen, session>>

ClearSocket(t, from, to) ==
  /\ pc[t] = from
  /\ fd' = FALSE /\ peer' = "none"
  /\ Go(t, to)
  /\ UNCHANGED <<lock, ret, connected, enabled, running, told, reopen, session>>

\* Mutant: m_connected is not reset.
DisconnectNoBase(t, from, to) ==
  /\ pc[t] = from
  /\ Go(t, to)
  /\ UNCHANGED <<lock, ret, shared, told, peer, reopen, session>>

DisconnectBase(t, from, to) ==
  /\ pc[t] = from
  /\ connected' = FALSE
  /\ Go(t, to)
  /\ UNCHANGED <<lock, ret, fd, enabled, running, told, peer, reopen, session>>

-----------------------------------------------------------------------------
(* EClientL0Impl::eDisconnect, by a thread that holds the mutex or by a     *)
(* reader that does not.                                                   *)

DisconnectCheck(t) ==
  /\ pc[t] = "check"
  /\ \/ ~connected /\ ~running /\ Return(t)
     \/ (connected \/ running) /\ Go(t, "stop") /\ UNCHANGED ret
  /\ UNCHANGED <<lock, shared, told, peer, reopen, session>>

\* DisableCalls() if the thread (still) runs.
DisconnectStop(t) ==
  /\ pc[t] = "stop"
  /\ enabled' = (enabled /\ ~running)
  /\ Go(t, IF running THEN "wait" ELSE "close")
  /\ UNCHANGED <<lock, ret, fd, connected, running, told, peer, reopen, session>>

Alive(r) == pc[r] # "none"

\* Mutant: the wait has no end while the thread is running.
DisconnectWaitForever(t) ==
  /\ pc[t] = "wait" /\ ~running
  /\ enabled' = TRUE
  /\ Go(t, "close")
  /\ UNCHANGED <<lock, ret, fd, connected, running, told, peer, reopen, session>>

\* Mutant: the calls are not enabled again.
DisconnectWaitSilent(t) ==
  /\ pc[t] = "wait"
  /\ Go(t, "close")
  /\ UNCHANGED <<lock, ret, shared, told, peer, reopen, session>>

\* At most 100 times Sleep(1) for m_ThreadIsRunning, which the reader need not reset
\* in that time, then EnableCalls().
DisconnectWait(t) ==
  /\ pc[t] = "wait"
  /\ enabled' = TRUE
  /\ Go(t, "close")
  /\ UNCHANGED <<lock, ret, fd, connected, running, told, peer, reopen, session>>

\* connectionClosed() reaches the EWrapper while calls are enabled.
TellClosed ==
  told' = IF ~enabled THEN told
          ELSE IF told = "opened" THEN "closed" ELSE "closedAgain"

DisconnectTell(t) ==
  /\ pc[t] = "tell"
  /\ TellClosed
  /\ Return(t)
  /\ UNCHANGED <<lock, shared, peer, reopen, session>>

Disconnecting(t) ==
  \/ DisconnectCheck(t) \/ DisconnectStop(t) \/ DisconnectWait(t)
  \/ CloseSocket(t, "close", "clear") \/ ClearSocket(t, "clear", "base")
  \/ DisconnectBase(t, "base", "tell") \/ DisconnectTell(t)

-----------------------------------------------------------------------------
(* The calls of EClientL0Interface.                                        *)

\* The bound on connections also asks for a thread to start.
MayConnect == session < MaxConnects /\ \E r \in Readers : ~Alive(r)

\* Mutant: the critical section is not entered.
EnterUnlocked(u) ==
  /\ pc[u] = "idle"
  /\ Go(u, "request")
  /\ UNCHANGED <<lock, ret, shared, told, peer, reopen, session>>

Enter(u) ==
  /\ pc[u] = "idle" /\ lock = NoThread
  /\ lock' = u
  /\ \/ MayConnect /\ Go(u, "eConnect") /\ UNCHANGED ret
     \/ Go(u, "request") /\ UNCHANGED ret
     \/ CallDisconnect(u, "leave")
  /\ UNCHANGED <<shared, told, peer, reopen, session>>

\* LEAVECRITICALSECTION.
Leave(t) ==
  /\ pc[t] = "leave"
  /\ lock' = NoThread
  /\ reopen' = FALSE
  /\ Go(t, IF t \in Users THEN "idle" ELSE "loop")
  /\ UNCHANGED <<ret, shared, told, peer, session>>

\* EnableCalls(), then the test of isConnected().
EConnect(u) ==
  /\ pc[u] = "eConnect"
  /\ enabled' = TRUE
  /\ reopen' = connected
  /\ Go(u, "open")
  /\ UNCHANGED <<lock, ret, fd, connected, running, told, peer, session>>

\* EPosixClientSocket::eConnect has failed: its socket is closed, unless the client
\* was connected before.
Failed == IF reopen THEN "leave" ELSE "failed"

\* EPosixClientSocket::eConnect looks at m_fd alone: a client with a socket is
\* refused, any other gets a new one, or fails to.
Open(u) ==
  /\ pc[u] = "open"
  /\ \/ Go(u, Failed) /\ UNCHANGED <<fd, peer, session>>
     \/ /\ ~fd
        /\ fd' = TRUE /\ peer' = "new" /\ session' = session + 1
        /\ Go(u, "version")
  /\ UNCHANGED <<lock, ret, connected, enabled, running, told, reopen>>

\* What is sent to `peer` is answered with an error.
SendFails == ~fd \/ peer \in {"rst", "none"}

\* A send, by a thread that goes on to `next`: it may find the connection broken and
\* call eDisconnect.  A TWS that closed its end answers what is sent with a reset.
Sends(t, next) ==
  \/ SendFails /\ CallDisconnect(t, next) /\ UNCHANGED peer
  \/ /\ ~SendFails
     /\ peer' = IF peer = "fin" THEN "rst" ELSE peer
     /\ Go(t, next) /\ UNCHANGED ret

\* onConnectBase.
SendVersion(u) ==
  /\ pc[u] = "version"
  /\ Sends(u, "handshake")
  /\ UNCHANGED <<lock, shared, told, reopen, session>>

\* The loop of EPosixClientSocket::eConnect and what follows it.  While TWS is silent
\* it goes on.
Handshake(u) ==
  /\ pc[u] = "handshake"
  /\ \/ /\ ~fd \/ (connected /\ peer = "none")         \* cannot be made non-blocking
        /\ Go(u, Failed) /\ UNCHANGED <<ret, peer>>
     \/ /\ fd /\ connected /\ peer # "none"
        /\ Go(u, IF reopen THEN "leave" ELSE "opened") /\ UNCHANGED <<ret, peer>>
     \/ /\ fd /\ ~connected
        /\ peer = "none" \/ (peer = "rst" /\ enabled)
        /\ CallDisconnect(u, Failed) /\ UNCHANGED peer
     \/ /\ fd /\ ~connected
        /\ peer = "fin" \/ (peer \in {"up", "old", "rst"} /\ ~enabled)
        /\ Go(u, Failed) /\ UNCHANGED <<ret, peer>>
     \/ /\ fd /\ ~connected /\ enabled
        /\ \/ peer = "up" /\ Go(u, "ack") /\ UNCHANGED peer
           \/ peer = "old" /\ Go(u, "tooOld") /\ peer' = "mute"
        /\ UNCHANGED ret
  /\ UNCHANGED <<lock, shared, told, reopen, session>>

\* processConnectAck of a TWS that is not too old: m_connected is set, then the
\* client id sent.
Acknowledged(t) ==
  /\ pc[t] = "ack"
  /\ connected' = TRUE
  /\ Go(t, "startApi")
  /\ UNCHANGED <<lock, ret, fd, enabled, running, told, peer, reopen, session>>

\* processConnectAck of a TWS that is too old: m_connected stays what it was, and
\* eDisconnect does nothing unless another thread set it or is running.
TooOld(t, back) ==
  /\ pc[t] = "tooOld"
  /\ CallDisconnect(t, back)
  /\ UNCHANGED <<lock, shared, told, peer, reopen, session>>

SendClientId(t, back) ==
  /\ pc[t] = "startApi"
  /\ Sends(t, back)
  /\ UNCHANGED <<lock, shared, told, reopen, session>>

\* EPosixClientSocket::eDisconnect after a failure: connectionClosed() is not called.
ConnectFailed(u) ==
  \/ CloseSocket(u, "failed", "failedClear")
  \/ ClearSocket(u, "failedClear", "failedBase")
  \/ DisconnectBase(u, "failedBase", "leave")

ConnectionOpened(u) ==
  /\ pc[u] = "opened"
  /\ told' = IF enabled THEN "opened" ELSE told
  /\ Go(u, "start")
  /\ UNCHANGED <<lock, ret, shared, peer, reopen, session>>

\* pthread_create: the thread exists, m_ThreadIsRunning is set when it runs.
StartThread(u) ==
  /\ pc[u] = "start"
  /\ \/ \E r \in Readers :
          /\ ~Alive(r)
          /\ pc' = [pc EXCEPT ![u] = "leave", ![r] = "born"]
          /\ UNCHANGED ret
     \/ CallDisconnect(u, "leave")
  /\ UNCHANGED <<lock, shared, told, peer, reopen, session>>

\* A request, by the program or from a callback, is refused with NOT_CONNECTED or sent.
Request(t) ==
  /\ pc[t] = "request"
  /\ Go(t, IF connected THEN "send" ELSE "leave")
  /\ UNCHANGED <<lock, ret, shared, told, peer, reopen, session>>

SendRequest(t) ==
  /\ pc[t] = "send"
  /\ Sends(t, "leave")
  /\ UNCHANGED <<lock, shared, told, reopen, session>>

\* connectionOpened(), connectionClosed() and error() are called on a thread that holds
\* the mutex.  An EWrapper that calls the EClient there waits for itself.
SelfCall(t) ==
  /\ lock = t /\ enabled
  /\ \/ pc[t] = "opened" /\ told' = "opened"
     \/ pc[t] = "tell" /\ TellClosed
     \/ pc[t] \in {"open", "failed", "request", "send"} /\ UNCHANGED told
  /\ Go(t, "stuck")
  /\ UNCHANGED <<lock, ret, shared, peer, reopen, session>>

-----------------------------------------------------------------------------
(* The reader: checkMessagesLoop and checkMessagesOnce.                    *)

Born(r) ==
  /\ pc[r] = "born"
  /\ running' = TRUE
  /\ Go(r, "loop")
  /\ UNCHANGED <<lock, ret, fd, connected, enabled, told, peer, reopen, session>>

\* Mutant: the loop runs on while calls are enabled.
LoopOn(r) ==
  /\ pc[r] = "loop"
  /\ Go(r, IF enabled THEN "select" ELSE "exit")
  /\ UNCHANGED <<lock, ret, shared, told, peer, reopen, session>>

Loop(r) ==
  /\ pc[r] = "loop"
  /\ Go(r, IF fd /\ connected /\ enabled THEN "select" ELSE "exit")
  /\ UNCHANGED <<lock, ret, shared, told, peer, reopen, session>>

\* select() waits 1 us for something to read: data, the end or an error.  Of a closed
\* descriptor it reports an error.  On a socket closed since the test of the loop it is
\* given the descriptor -1, and what it reports is undefined.
Select(r) ==
  /\ pc[r] = "select"
  /\ \/ Go(r, "loop") /\ UNCHANGED ret
     \/ fd /\ peer \in {"up", "old", "fin", "rst"} /\ Go(r, "recv") /\ UNCHANGED ret
     \/ (~fd \/ peer = "none") /\ CallDisconnect(r, "loop")
  /\ UNCHANGED <<lock, shared, told, peer, reopen, session>>

\* Mutant: a negative result of recv() changes nothing.
RecvIgnored(r) ==
  /\ pc[r] = "recv"
  /\ Go(r, "loop") \/ (peer = "up" /\ Go(r, "callback"))
  /\ UNCHANGED <<lock, ret, shared, told, peer, reopen, session>>

\* EClientL0Impl::receive returns 0 while calls are disabled and at the end of
\* the stream; a negative result of recv() disconnects; an unknown message does
\* too and reports connectionClosed() once more.  With nothing to read it blocks.
Recv(r) ==
  /\ pc[r] = "recv"
  /\ \/ /\ ~enabled \/ (fd /\ peer = "fin")
        /\ Go(r, "loop") /\ UNCHANGED <<ret, peer>>
     \/ /\ enabled /\ SendFails
        /\ CallDisconnect(r, "loop") /\ UNCHANGED peer
     \/ /\ enabled /\ fd /\ connected /\ peer \in {"up", "old"}
        /\ (Go(r, "callback") /\ UNCHANGED ret) \/ CallDisconnect(r, "again")
        /\ UNCHANGED peer
     \/ /\ enabled /\ fd /\ ~connected
        /\ \/ peer = "up" /\ Go(r, "ack") /\ UNCHANGED peer
           \/ peer = "old" /\ Go(r, "tooOld") /\ peer' = "mute"
        /\ UNCHANGED ret
  /\ UNCHANGED <<lock, shared, told, reopen, session>>

\* The EWrapper is called while calls are enabled; it may call the EClient.
Callback(r) ==
  /\ pc[r] = "callback"
  /\ Go(r, "loop") \/ (enabled /\ Go(r, "lock"))
  /\ UNCHANGED <<lock, ret, shared, told, peer, reopen, session>>

Acquire(r) ==
  /\ pc[r] = "lock" /\ lock = NoThread
  /\ lock' = r
  /\ (Go(r, "request") /\ UNCHANGED ret) \/ CallDisconnect(r, "leave")
  /\ UNCHANGED <<shared, told, peer, reopen, session>>

\* The second connectionClosed() after an unknown message id.
TellAgain(r) ==
  /\ pc[r] = "again"
  /\ TellClosed
  /\ Go(r, "loop")
  /\ UNCHANGED <<lock, ret, shared, peer, reopen, session>>

Exit(r) ==
  /\ pc[r] = "exit"
  /\ running' = FALSE
  /\ Go(r, "none")
  /\ UNCHANGED <<lock, ret, fd, connected, enabled, told, peer, reopen, session>>

-----------------------------------------------------------------------------
PeerAnswers ==
  /\ peer = "new"
  /\ peer' \in {"up", "old"}
  /\ UNCHANGED <<lock, pc, ret, shared, told, reopen, session>>

\* TWS closes its end; the client has read what was sent before.
PeerCloses ==
  /\ peer \in {"new", "mute"} \/ (peer = "up" /\ connected)
  /\ peer' = "fin"
  /\ UNCHANGED <<lock, pc, ret, shared, told, reopen, session>>

PeerBreaks ==
  /\ peer \in {"new", "up", "old", "mute", "fin"}
  /\ peer' = "rst"
  /\ UNCHANGED <<lock, pc, ret, shared, told, reopen, session>>

UserStep(u) ==
  \/ EConnect(u) \/ Open(u) \/ SendVersion(u) \/ Handshake(u)
  \/ Acknowledged(u) \/ TooOld(u, "handshake") \/ SendClientId(u, "handshake")
  \/ ConnectFailed(u) \/ ConnectionOpened(u) \/ StartThread(u)
  \/ Request(u) \/ SendRequest(u) \/ Leave(u) \/ Disconnecting(u)

ReaderStep(r) ==
  \/ Born(r) \/ Loop(r) \/ Select(r) \/ Recv(r)
  \/ Acknowledged(r) \/ TooOld(r, "loop") \/ SendClientId(r, "loop")
  \/ Callback(r) \/ Request(r) \/ SendRequest(r) \/ Leave(r) \/ TellAgain(r) \/ Exit(r)
  \/ Disconnecting(r)

Next ==
  \/ \E u \in Users : Enter(u) \/ UserStep(u) \/ SelfCall(u)
  \/ \E r \in Readers : ReaderStep(r) \/ Acquire(r) \/ SelfCall(r)
  \/ PeerAnswers \/ PeerCloses \/ PeerBreaks

Spec == Init /\ [][Next]_vars

\* Threads are scheduled; a thread that waits for the mutex gets it once it is
\* free again and again; select() reports what there is to read; TWS answers.
Fairness ==
  /\ WF_vars(PeerAnswers)
  /\ \A u \in Users : WF_vars(UserStep(u))
  /\ \A r \in Readers :
       /\ WF_vars(ReaderStep(r))
       /\ SF_vars(Acquire(r))
       /\ SF_vars(Select(r) /\ pc'[r] # "loop")

FairSpec == Spec /\ Fairness

-----------------------------------------------------------------------------
(* Properties.                                                             *)

\* A closed connection has been reported by connectionClosed(), unless a call
\* that will report it is under way.
ClosedIsReported ==
  ~connected /\ (\A t \in Threads : pc[t] \notin DisconnectPC \cup {"opened", "start"})
    => told # "opened"

\* The same while no reader of an earlier connection can interfere: however the
\* eDisconnect() of program threads and of the reader overlap, with each disabling and
\* enabling the calls of the EWrapper, connectionClosed() is not lost.
FirstClosedIsReported == session <= 1 => ClosedIsReported

\* A client that counts as connected has a socket, or the thread that closed it is
\* about to reset m_connected, whichever threads close the first connection at once.
FirstConnectedHasSocket ==
  session <= 1 /\ connected /\ ~fd => \E t \in Threads : pc[t] \in {"base", "failedBase"}

\* Excepted from what must happen: a callback on the thread that holds the mutex has
\* called the EClient, which nothing can end.
SelfBlocked == \E t \in Threads : pc[t] = "stuck"

\* No call blocks for ever, although eDisconnect waits for a reader whose callback may
\* wait for the mutex the caller holds.  A TWS that is too old and stays connected is
\* excepted too: eConnect then waits on.
CallsReturn ==
  []<>(peer # "mute") => \A u \in Users : pc[u] # "idle" ~> pc[u] = "idle" \/ SelfBlocked

\* Once the connection is closed for good, no reader thread goes on.
ThreadStops ==
  <>[]~connected => <>[](SelfBlocked \/ \A r \in Readers : ~Alive(r))

\* The first connection is closed and that is reported, or it has been replaced.
EndOfFirst == session > 1 \/ (~connected /\ told # "opened")

\* A broken first connection is closed and reported.
BreakIsNoticed ==
  session = 1 /\ connected /\ peer = "rst" ~> EndOfFirst \/ SelfBlocked

\* Any connection that broke or that TWS closed is closed if the program goes on making
\* requests, as a send fails in the end; of the first one that is reported.
EndIsNoticed ==
  []<>(\E u \in Users : pc[u] = "request")
    => /\ connected /\ peer \in {"fin", "rst"} ~> ~connected \/ SelfBlocked
       /\ session = 1 /\ connected /\ peer = "fin" ~> EndOfFirst \/ SelfBlocked
==============================================================================
