------------------------ MODULE ClientThreadsProofs ------------------------
(***************************************************************************)
(* Theorems about ClientThreads for any number of program threads and      *)
(* readers and any number of connections: the types with the critical      *)
(* section, and what holds of the first connection.                        *)
(***************************************************************************)
EXTENDS ClientThreads, TLAPS

\* The reader has entered the critical section, from a callback.
Inside(r) ==
  \/ pc[r] \in {"request", "send", "leave", "stuck"}
  \/ pc[r] \in DisconnectPC /\ ret[r] = "leave"

\* TypeOK is not inductive: a reader that leaves the critical section must be its
\* owner, and a thread that may connect has not lost the right to by another's connection.
LockInv ==
  /\ TypeOK
  /\ \A u \in Users : pc[u] \in UserPC \cup DisconnectPC /\ ret[u] \in {"leave", "handshake", "failed"}
  /\ \A u \in Users : pc[u] \in {"eConnect", "open"} => session < MaxConnects
  /\ \A r \in Readers :
       /\ pc[r] \in ReaderPC \cup DisconnectPC /\ ret[r] \in {"leave", "loop", "again"}
       /\ Inside(r) => lock = r

\* A program thread is in eConnect, with a socket that no reader uses yet.
Connecting(u) ==
  \/ pc[u] \in {"version", "handshake", "ack", "tooOld", "startApi", "opened", "start"}
  \/ pc[u] \in DisconnectPC /\ ret[u] \in {"handshake", "failed"}
  \/ pc[u] \in {"failed", "failedClear", "failedBase"} /\ (fd \/ connected)
  \/ pc[u] = "stuck" /\ fd /\ ~connected

\* While calls are disabled someone is about to enable them.
SomeoneEnables == ~enabled => \E t \in Threads : pc[t] = "wait"

\* While the program takes a closed connection for open someone is about to report it.
Telling == {"wait", "close", "clear", "base", "tell"}
SomeoneTells == told = "opened" /\ ~connected => \E t \in Threads : pc[t] \in Telling

\* While m_connected is set without a socket someone is about to reset it.
SomeoneResets ==
  connected /\ ~fd => \E t \in Threads : pc[t] \in {"base", "failedBase"}

NoReader == ~running /\ \A r \in Readers : pc[r] = "none"

\* What holds until a second connection is made.
FirstInv ==
  /\ SomeoneEnables /\ SomeoneTells /\ SomeoneResets
  /\ \A t \in Threads : pc[t] \in {"base", "tell", "failedBase"} => ~fd
  /\ fd /\ ~connected => \E u \in Users : Connecting(u)
  /\ session = 0 => ~fd /\ ~connected /\ ~reopen /\ told # "opened" /\ NoReader
  /\ \A u \in Users : pc[u] = "open" /\ ~reopen => ~connected
  /\ \A u \in Users : Connecting(u) =>
       /\ NoReader /\ ~reopen
       /\ pc[u] # "start" => told # "opened"
       /\ pc[u] \in {"ack", "startApi", "opened", "start"} => fd
       /\ pc[u] \in {"startApi", "opened", "start"} => connected
  /\ \A r \in Readers : pc[r] \notin {"ack", "tooOld", "startApi"}

Inv == LockInv /\ (session <= 1 => FirstInv)

-----------------------------------------------------------------------------
(* Types and the critical section.                                         *)

\* The members and the history have their types.
RestOK ==
  /\ fd \in BOOLEAN /\ connected \in BOOLEAN /\ enabled \in BOOLEAN /\ running \in BOOLEAN
  /\ told \in {"opened", "closed", "closedAgain"}
  /\ peer \in Peers /\ reopen \in BOOLEAN
  /\ session \in 0 .. MaxConnects

\* A step of a thread to `to` that leaves `back` in its ret.
Moves(t, to, back) == pc' = [pc EXCEPT ![t] = to] /\ ret' = [ret EXCEPT ![t] = back]

\* What such a step may do to the critical section.
Allowed(t, to, back) ==
  /\ t \in Users => /\ to \in UserPC \cup DisconnectPC /\ back \in {"leave", "handshake", "failed"}
                    /\ to # "idle" => lock' = t
                    /\ to \in {"eConnect", "open"} => session' < MaxConnects
  /\ t \in Readers => /\ to \in ReaderPC \cup DisconnectPC /\ back \in {"leave", "loop", "again"}
                      /\ \/ to \in {"request", "send", "leave", "stuck"}
                         \/ to \in DisconnectPC /\ back = "leave"
                         => lock' = t
  /\ session' = session \/ (t \in Users /\ pc[t] = "open")
  /\ lock' = lock \/ (lock \in {NoThread, t} /\ lock' \in {NoThread, t})

LEMMA Disjoint ==
  ASSUME ThreadsAssumption
  PROVE  /\ \A u \in Users : u \in Threads /\ u \notin Readers /\ u # NoThread
         /\ \A r \in Readers : r \in Threads /\ r \notin Users /\ r # NoThread
         /\ \A t \in Threads : t \in Users \/ t \in Readers
BY DEF ThreadsAssumption, Threads

LEMMA GoMoves ==
  ASSUME LockInv, NEW t \in Threads, NEW to, Go(t, to), UNCHANGED ret
  PROVE  Moves(t, to, ret[t])
BY DEF LockInv, TypeOK, Go, Moves

LEMMA MoveLock ==
  ASSUME ThreadsAssumption, LockInv, NEW t \in Threads, NEW to, NEW back,
         Moves(t, to, back), Allowed(t, to, back), RestOK'
  PROVE  LockInv'
<1> USE Disjoint
<1>1. /\ pc \in [Threads -> UserPC \cup DisconnectPC \cup ReaderPC]
      /\ ret \in [Threads -> {"leave", "handshake", "failed", "loop", "again"}]
      /\ lock \in Threads \cup {NoThread}
  BY DEF LockInv, TypeOK
<1>2. /\ to \in UserPC \cup DisconnectPC \cup ReaderPC
      /\ back \in {"leave", "handshake", "failed", "loop", "again"}
  BY DEF Allowed
<1>3. /\ pc' \in [Threads -> UserPC \cup DisconnectPC \cup ReaderPC]
      /\ ret' \in [Threads -> {"leave", "handshake", "failed", "loop", "again"}]
      /\ pc'[t] = to /\ ret'[t] = back
      /\ \A s \in Threads : s # t => pc'[s] = pc[s] /\ ret'[s] = ret[s]
  BY <1>1, <1>2 DEF Moves
<1>4. lock' \in Threads \cup {NoThread}
  BY <1>1 DEF Allowed
<1>5. ASSUME NEW u \in Users
      PROVE  /\ pc'[u] \in UserPC \cup DisconnectPC /\ ret'[u] \in {"leave", "handshake", "failed"}
             /\ pc'[u] # "idle" => lock' = u
             /\ pc'[u] \in {"eConnect", "open"} => session' < MaxConnects
  BY <1>3 DEF Allowed, LockInv, TypeOK
<1>6. ASSUME NEW r \in Readers
      PROVE  /\ pc'[r] \in ReaderPC \cup DisconnectPC /\ ret'[r] \in {"leave", "loop", "again"}
             /\ Inside(r)' => lock' = r
  BY <1>3 DEF Allowed, LockInv, Inside
<1> QED
  BY <1>3, <1>4, <1>5, <1>6 DEF LockInv, TypeOK, RestOK

LEMMA InitLock == ThreadsAssumption /\ Init => LockInv
<1> SUFFICES ASSUME ThreadsAssumption, Init
             PROVE  LockInv
  OBVIOUS
<1>1. \A t \in Threads : pc[t] = (IF t \in Users THEN "idle" ELSE "none") /\ ret[t] = "leave"
  BY DEF Init
<1>2. TypeOK
  <2>1. pc \in [Threads -> {"idle", "none"}] /\ ret \in [Threads -> {"leave"}]
    BY DEF Init
  <2>2. \A u \in Users : pc[u] = "idle"
    BY <1>1 DEF Threads
  <2>3. /\ pc \in [Threads -> UserPC \cup DisconnectPC \cup ReaderPC]
        /\ ret \in [Threads -> {"leave", "handshake", "failed", "loop", "again"}]
    BY <2>1 DEF UserPC, ReaderPC
  <2>4. session \in 0 .. MaxConnects
    BY DEF Init, ThreadsAssumption
  <2> QED
    BY <2>2, <2>3, <2>4 DEF Init, TypeOK, Peers
<1>3. \A r \in Readers : pc[r] = "none" /\ ret[r] = "leave"
  BY <1>1 DEF Threads, ThreadsAssumption
<1> QED
  BY <1>1, <1>2, <1>3 DEF LockInv, Threads, UserPC, DisconnectPC, ReaderPC, Inside

LEMMA CallMoves ==
  ASSUME NEW t, NEW back, CallDisconnect(t, back)
  PROVE  Moves(t, "check", back)
BY DEF CallDisconnect, Go, Moves

LEMMA ReturnMoves ==
  ASSUME NEW t, Return(t)
  PROVE  Moves(t, ret[t], "leave")
BY DEF Return, Go, Moves

\* A send moves its thread on, or into eDisconnect.
LEMMA SendMoves ==
  ASSUME LockInv, NEW t \in Threads, NEW next, Sends(t, next)
  PROVE  /\ Moves(t, next, ret[t]) \/ Moves(t, "check", next)
         /\ peer' \in Peers
BY GoMoves, CallMoves DEF Sends, LockInv, TypeOK, Peers

\* The steps of EPosixClientSocket::eDisconnect.
LEMMA CloseMoves ==
  ASSUME LockInv, NEW t \in Threads, NEW from, NEW to,
         \/ CloseSocket(t, from, to) \/ ClearSocket(t, from, to)
         \/ DisconnectBase(t, from, to)
  PROVE  /\ Moves(t, to, ret[t]) /\ RestOK' /\ pc[t] = from
         /\ UNCHANGED <<lock, session>>
<1>1. RestOK
  BY DEF LockInv, TypeOK, RestOK
<1> QED
  BY <1>1, GoMoves DEF CloseSocket, ClearSocket, DisconnectBase, RestOK, Peers, shared

LEMMA DisconnectingLock ==
  ASSUME ThreadsAssumption, LockInv, NEW t \in Threads, Disconnecting(t)
  PROVE  LockInv'
<1> USE Disjoint, GoMoves, ReturnMoves, CloseMoves, MoveLock
<1>1. t \in Users => ret[t] \in {"leave", "handshake", "failed"} /\ (lock = t \/ pc[t] = "idle")
  BY DEF LockInv, TypeOK
<1>2. t \in Readers => ret[t] \in {"leave", "loop", "again"} /\ (Inside(t) => lock = t)
  BY DEF LockInv
<1>3. RestOK
  BY DEF LockInv, TypeOK, RestOK
<1> USE DEF RestOK, shared
<1>4. ASSUME NEW to, pc[t] \in DisconnectPC, Moves(t, to, ret[t]), UNCHANGED <<lock, session>>,
             to \in DisconnectPC, RestOK'
      PROVE  LockInv'
  BY <1>1, <1>2, <1>4 DEF Allowed, DisconnectPC, Inside
<1>5. ASSUME pc[t] \in DisconnectPC, Moves(t, ret[t], "leave"), UNCHANGED <<lock, session>>,
             RestOK'
      PROVE  LockInv'
  BY <1>1, <1>2, <1>5 DEF Allowed, DisconnectPC, Inside, UserPC, ReaderPC
<1>6. CASE DisconnectCheck(t)
  BY <1>3, <1>4, <1>5, <1>6 DEF DisconnectCheck, DisconnectPC
<1>7. CASE DisconnectStop(t)
  BY <1>3, <1>4, <1>7 DEF DisconnectStop, DisconnectPC
<1>8. CASE DisconnectWait(t)
  BY <1>3, <1>4, <1>8 DEF DisconnectWait, DisconnectPC
<1>9. CASE \/ CloseSocket(t, "close", "clear") \/ ClearSocket(t, "clear", "base")
           \/ DisconnectBase(t, "base", "tell")
  BY <1>4, <1>9 DEF DisconnectPC
<1>10. CASE DisconnectTell(t)
  BY <1>3, <1>5, <1>10 DEF DisconnectTell, TellClosed, DisconnectPC
<1> QED
  BY <1>6, <1>7, <1>8, <1>9, <1>10 DEF Disconnecting

LEMMA UserLock ==
  ASSUME ThreadsAssumption, LockInv, NEW u \in Users, Enter(u) \/ UserStep(u) \/ SelfCall(u)
  PROVE  LockInv'
<1> USE Disjoint, GoMoves, CallMoves, MoveLock
<1>1. /\ ret[u] \in {"leave", "handshake", "failed"} /\ lock \in Threads \cup {NoThread}
      /\ pc[u] # "idle" => lock = u
  BY DEF LockInv, TypeOK
<1>2. RestOK /\ Failed \in {"leave", "failed"}
  BY DEF LockInv, TypeOK, RestOK, Failed
<1> USE DEF RestOK, shared
<1>3. ASSUME NEW to, NEW back, Moves(u, to, back), back \in {ret[u], "leave", "handshake", "failed"},
             to \in (UserPC \cup DisconnectPC) \ {"idle", "eConnect", "open"},
             pc[u] # "idle", UNCHANGED <<lock, session>>, RestOK'
      PROVE  LockInv'
  BY <1>1, <1>3 DEF Allowed
<1> USE DEF UserPC, DisconnectPC
<1>4. CASE Enter(u)
  <2>1. PICK to \in {"eConnect", "request", "check"}, back \in {ret[u], "leave"} :
               Moves(u, to, back) /\ (to = "eConnect" => MayConnect)
    BY <1>4 DEF Enter
  <2>2. RestOK'
    BY <1>2, <1>4 DEF Enter
  <2>3. Allowed(u, to, back)
    BY <1>1, <1>4, <2>1 DEF Enter, MayConnect, Allowed
  <2> QED
    BY <2>1, <2>2, <2>3
<1>5. CASE EConnect(u)
  <2>1. Moves(u, "open", ret[u])
    BY <1>5 DEF EConnect
  <2>2. RestOK' /\ session < MaxConnects
    BY <1>2, <1>5 DEF EConnect, LockInv
  <2>3. Allowed(u, "open", ret[u])
    BY <1>1, <1>5, <2>2 DEF EConnect, Allowed
  <2> QED
    BY <2>1, <2>2, <2>3
<1>6. CASE Open(u)
  <2>1. PICK to \in {"leave", "failed", "version"} : Go(u, to) /\ UNCHANGED ret
    BY <1>2, <1>6 DEF Open
  <2>2. Moves(u, to, ret[u])
    BY <2>1
  <2>3. pc[u] = "open" /\ session < MaxConnects /\ session' \in {session, session + 1}
    BY <1>6 DEF Open, LockInv
  <2>4. session' \in 0 .. MaxConnects
    BY <1>2, <2>3 DEF ThreadsAssumption
  <2>5. RestOK'
    BY <1>2, <1>6, <2>4 DEF Open, Peers
  <2>6. Allowed(u, to, ret[u])
    BY <1>1, <1>6, <2>1, <2>3 DEF Open, Allowed
  <2> QED
    BY <2>2, <2>5, <2>6
<1>7. CASE SendVersion(u)
  <2>1. pc[u] = "version" /\ UNCHANGED <<lock, session>> /\ Sends(u, "handshake")
    BY <1>7 DEF SendVersion
  <2>2. RestOK'
    BY <1>2, <1>7, SendMoves DEF SendVersion
  <2> QED
    BY <1>3, <2>1, <2>2, SendMoves
<1>8. CASE Handshake(u)
  <2>1. PICK to \in {"leave", "failed", "opened", "ack", "tooOld", "check"},
             back \in {ret[u], "leave", "failed"} : Moves(u, to, back)
    BY <1>2, <1>8 DEF Handshake
  <2>2. RestOK' /\ pc[u] = "handshake" /\ UNCHANGED <<lock, session>>
    BY <1>2, <1>8 DEF Handshake, Peers
  <2> QED
    BY <1>3, <2>1, <2>2
<1>9. CASE Acknowledged(u)
  BY <1>2, <1>3, <1>9 DEF Acknowledged
<1>10. CASE TooOld(u, "handshake")
  BY <1>2, <1>3, <1>10 DEF TooOld
<1>11. CASE SendClientId(u, "handshake")
  <2>1. pc[u] = "startApi" /\ UNCHANGED <<lock, session>> /\ Sends(u, "handshake")
    BY <1>11 DEF SendClientId
  <2>2. RestOK'
    BY <1>2, <1>11, SendMoves DEF SendClientId
  <2> QED
    BY <1>3, <2>1, <2>2, SendMoves
<1>12. CASE ConnectFailed(u)
  BY <1>3, <1>12, CloseMoves DEF ConnectFailed
<1>13. CASE ConnectionOpened(u)
  BY <1>2, <1>3, <1>13 DEF ConnectionOpened
<1>14. CASE StartThread(u)
  <2>1. RestOK'
    BY <1>2, <1>14 DEF StartThread
  <2>2. CASE CallDisconnect(u, "leave")
    <3>1. Allowed(u, "check", "leave")
      BY <1>1, <1>14 DEF StartThread, Allowed
    <3> QED
      BY <2>1, <2>2, <3>1
  <2>3. ASSUME NEW r \in Readers, ~Alive(r), UNCHANGED ret,
               pc' = [pc EXCEPT ![u] = "leave", ![r] = "born"]
        PROVE  LockInv'
    <3>1. /\ pc' \in [Threads -> UserPC \cup DisconnectPC \cup ReaderPC]
          /\ pc'[u] = "leave" /\ pc'[r] = "born"
          /\ \A t \in Threads : t # u /\ t # r => pc'[t] = pc[t]
      BY <2>3 DEF LockInv, TypeOK, ReaderPC
    <3>2. lock' = lock /\ session' = session /\ lock = u
      BY <1>1, <1>14 DEF StartThread
    <3>3. ASSUME NEW v \in Users
          PROVE  /\ pc'[v] \in UserPC \cup DisconnectPC /\ ret'[v] \in {"leave", "handshake", "failed"}
                 /\ pc'[v] # "idle" => lock' = v
                 /\ pc'[v] \in {"eConnect", "open"} => session' < MaxConnects
      BY <2>3, <3>1, <3>2 DEF LockInv, TypeOK
    <3>4. ASSUME NEW s \in Readers
          PROVE  /\ pc'[s] \in ReaderPC \cup DisconnectPC
                 /\ ret'[s] \in {"leave", "loop", "again"}
                 /\ Inside(s)' => lock' = s
      <4>1. CASE s = r
        BY <2>3, <3>1, <4>1 DEF LockInv, ReaderPC, Inside
      <4>2. CASE s # r
        BY <2>3, <3>1, <3>2, <4>2 DEF LockInv, Inside
      <4> QED
        BY <4>1, <4>2
    <3> QED
      BY <2>1, <2>3, <3>1, <3>2, <3>3, <3>4 DEF LockInv, TypeOK
  <2> QED
    BY <1>14, <2>2, <2>3 DEF StartThread
<1>15. CASE Request(u)
  BY <1>2, <1>3, <1>15 DEF Request
<1>16. CASE SendRequest(u)
  <2>1. pc[u] = "send" /\ UNCHANGED <<lock, session>> /\ Sends(u, "leave")
    BY <1>16 DEF SendRequest
  <2>2. RestOK'
    BY <1>2, <1>16, SendMoves DEF SendRequest
  <2> QED
    BY <1>3, <2>1, <2>2, SendMoves
<1>17. CASE Leave(u)
  <2>1. Moves(u, "idle", ret[u]) /\ RestOK'
    BY <1>2, <1>17 DEF Leave
  <2>2. Allowed(u, "idle", ret[u])
    BY <1>1, <1>17 DEF Leave, Allowed
  <2> QED
    BY <2>1, <2>2
<1>18. CASE SelfCall(u)
  BY <1>2, <1>3, <1>18 DEF SelfCall, TellClosed
<1>19. CASE Disconnecting(u)
  BY <1>19, DisconnectingLock
<1> QED
  BY <1>4, <1>5, <1>6, <1>7, <1>8, <1>9, <1>10, <1>11, <1>12, <1>13, <1>14, <1>15, <1>16,
     <1>17, <1>18, <1>19 DEF UserStep

LEMMA ReaderLock ==
  ASSUME ThreadsAssumption, LockInv, NEW r \in Readers,
         ReaderStep(r) \/ Acquire(r) \/ SelfCall(r)
  PROVE  LockInv'
<1> USE Disjoint, GoMoves, CallMoves, MoveLock
<1>1. /\ ret[r] \in {"leave", "loop", "again"} /\ lock \in Threads \cup {NoThread}
      /\ Inside(r) => lock = r
  BY DEF LockInv, TypeOK
<1>2. RestOK
  BY DEF LockInv, TypeOK, RestOK
<1> USE DEF RestOK, shared
<1>3. ASSUME NEW to, NEW back, Moves(r, to, back), UNCHANGED <<lock, session>>, RestOK',
             back \in {ret[r], "leave", "loop", "again"}, to \in ReaderPC \cup DisconnectPC,
             \/ lock = r
             \/ /\ to \notin {"request", "send", "leave", "stuck"}
                /\ to \in DisconnectPC => back # "leave"
      PROVE  LockInv'
  BY <1>1, <1>3 DEF Allowed
<1> USE DEF ReaderPC, DisconnectPC
<1>4. CASE Born(r)
  BY <1>2, <1>3, <1>4 DEF Born
<1>5. CASE Loop(r)
  BY <1>2, <1>3, <1>5 DEF Loop
<1>6. CASE Select(r)
  BY <1>2, <1>3, <1>6 DEF Select
<1>7. CASE Recv(r)
  <2>1. PICK to \in {"loop", "callback", "ack", "tooOld", "check"}, back \in {ret[r], "loop", "again"} :
               Moves(r, to, back) /\ (to = "check" => back # "leave")
    BY <1>7 DEF Recv
  <2>2. RestOK' /\ UNCHANGED <<lock, session>>
    BY <1>2, <1>7 DEF Recv, Peers
  <2> QED
    BY <1>3, <2>1, <2>2
<1>8. CASE Acknowledged(r)
  BY <1>2, <1>3, <1>8 DEF Acknowledged
<1>9. CASE TooOld(r, "loop")
  BY <1>2, <1>3, <1>9 DEF TooOld
<1>10. CASE SendClientId(r, "loop")
  <2>1. UNCHANGED <<lock, session>> /\ Sends(r, "loop")
    BY <1>10 DEF SendClientId
  <2>2. RestOK'
    BY <1>2, <1>10, SendMoves DEF SendClientId
  <2> QED
    BY <1>3, <2>1, <2>2, SendMoves
<1>11. CASE Callback(r)
  BY <1>2, <1>3, <1>11 DEF Callback
<1>12. CASE Request(r)
  BY <1>1, <1>2, <1>3, <1>12 DEF Request, Inside
<1>13. CASE SendRequest(r)
  <2>1. UNCHANGED <<lock, session>> /\ Sends(r, "leave") /\ lock = r
    BY <1>1, <1>13 DEF SendRequest, Inside
  <2>2. RestOK'
    BY <1>2, <1>13, SendMoves DEF SendRequest
  <2> QED
    BY <1>3, <2>1, <2>2, SendMoves
<1>14. CASE Leave(r)
  <2>1. Moves(r, "loop", ret[r]) /\ RestOK'
    BY <1>2, <1>14 DEF Leave
  <2>2. Allowed(r, "loop", ret[r])
    BY <1>1, <1>14 DEF Leave, Inside, Allowed
  <2> QED
    BY <2>1, <2>2
<1>15. CASE TellAgain(r)
  BY <1>2, <1>3, <1>15 DEF TellAgain, TellClosed
<1>16. CASE Exit(r)
  BY <1>2, <1>3, <1>16 DEF Exit
<1>17. CASE Acquire(r)
  <2>1. PICK to \in {"request", "check"}, back \in {ret[r], "leave"} :
               Moves(r, to, back) /\ (to = "check" => back = "leave")
    BY <1>17 DEF Acquire
  <2>2. RestOK'
    BY <1>2, <1>17 DEF Acquire
  <2>3. Allowed(r, to, back)
    BY <1>1, <1>17, <2>1 DEF Acquire, Allowed
  <2> QED
    BY <2>1, <2>2, <2>3
<1>18. CASE SelfCall(r)
  BY <1>2, <1>3, <1>18 DEF SelfCall, TellClosed
<1>19. CASE Disconnecting(r)
  BY <1>19, DisconnectingLock
<1> QED
  BY <1>4, <1>5, <1>6, <1>7, <1>8, <1>9, <1>10, <1>11, <1>12, <1>13, <1>14, <1>15, <1>16,
     <1>17, <1>18, <1>19 DEF ReaderStep

LEMMA LockStep ==
  ASSUME ThreadsAssumption, LockInv, [Next]_vars
  PROVE  LockInv'
<1>1. CASE PeerAnswers \/ PeerCloses \/ PeerBreaks
  BY <1>1 DEF PeerAnswers, PeerCloses, PeerBreaks, LockInv, TypeOK, Peers, Inside, shared
<1>2. CASE UNCHANGED vars
  BY <1>2 DEF vars, LockInv, TypeOK, Inside
<1> QED
  BY <1>1, <1>2, UserLock, ReaderLock DEF Next
-----------------------------------------------------------------------------
(* The first connection.                                                   *)

\* Connections are only added.
LEMMA SessionStep ==
  ASSUME LockInv, [Next]_vars
  PROVE  session' \in {session, session + 1}
<1> USE DEF shared
<1>1. ASSUME NEW t, Disconnecting(t)
      PROVE  session' = session
  BY <1>1 DEF Disconnecting, DisconnectCheck, DisconnectStop, DisconnectWait, CloseSocket,
              ClearSocket, DisconnectBase, DisconnectTell
<1>2. ASSUME NEW u \in Users, Enter(u) \/ UserStep(u) \/ SelfCall(u)
      PROVE  session' \in {session, session + 1}
  BY <1>1, <1>2 DEF Enter, UserStep, EConnect, Open, SendVersion, Handshake, Acknowledged,
                    TooOld, SendClientId, ConnectFailed, CloseSocket, ClearSocket,
                    DisconnectBase, ConnectionOpened, StartThread, Request, SendRequest,
                    Leave, SelfCall
<1>3. ASSUME NEW r \in Readers, ReaderStep(r) \/ Acquire(r) \/ SelfCall(r)
      PROVE  session' = session
  BY <1>1, <1>3 DEF ReaderStep, Born, Loop, Select, Recv, Acknowledged, TooOld, SendClientId,
                    Callback, Request, SendRequest, Leave, TellAgain, Exit, Acquire, SelfCall
<1> QED
  BY <1>2, <1>3 DEF Next, PeerAnswers, PeerCloses, PeerBreaks, vars

\* Where a step of t leaves the threads.
Leaves(t, to, back) ==
  /\ pc'[t] = to /\ ret'[t] = back
  /\ \A s \in Threads : s # t => pc'[s] = pc[s] /\ ret'[s] = ret[s]

LEMMA MovesLeaves ==
  ASSUME LockInv, NEW t \in Threads, NEW to, NEW back, Moves(t, to, back)
  PROVE  Leaves(t, to, back)
BY DEF LockInv, TypeOK, Moves, Leaves

\* Only the owner of the critical section is in a call, and no reader exists while it
\* connects.
LEMMA OneUser ==
  ASSUME ThreadsAssumption, LockInv, FirstInv
  PROVE  /\ \A u, v \in Users : pc[u] # "idle" /\ pc[v] # "idle" => u = v
         /\ \A r \in Readers : pc[r] # "none" =>
              /\ session # 0 /\ (fd => connected)
              /\ \A u \in Users : ~Connecting(u)
BY DEF LockInv, TypeOK, FirstInv, NoReader, Connecting

\* A step that makes a thread neither begin nor end what others rely on: it is the
\* thread's own position that SomeoneEnables, SomeoneTells and SomeoneResets may lose.
LEMMA Keeps ==
  ASSUME LockInv, FirstInv, NEW t \in Threads, NEW to, NEW back, Leaves(t, to, back),
         enabled' \/ to = "wait" \/ (~enabled /\ pc[t] # "wait"),
         \/ told' # "opened" \/ connected' \/ to \in Telling
         \/ told = "opened" /\ ~connected /\ pc[t] \notin Telling,
         \/ ~connected' \/ fd' \/ to = "base" \/ to = "failedBase"
         \/ connected /\ ~fd /\ pc[t] \notin {"base", "failedBase"}
  PROVE  SomeoneEnables' /\ SomeoneTells' /\ SomeoneResets'
<1>1. SomeoneEnables'
  BY DEF FirstInv, SomeoneEnables, Leaves
<1>2. SomeoneTells'
  BY DEF FirstInv, SomeoneTells, Leaves
<1>3. SomeoneResets'
  BY DEF FirstInv, SomeoneResets, Leaves
<1> QED
  BY <1>1, <1>2, <1>3

\* connectionClosed() gets through, or whoever disabled the calls will report.
LEMMA TellKeeps ==
  ASSUME LockInv, FirstInv, NEW t \in Threads, NEW to, NEW back, Leaves(t, to, back),
         pc[t] = "tell", TellClosed, UNCHANGED <<fd, connected, enabled>>
  PROVE  SomeoneEnables' /\ SomeoneTells' /\ SomeoneResets'
<1>1. enabled \in BOOLEAN
  BY DEF LockInv, TypeOK
<1>2. CASE enabled
  BY <1>2, Keeps DEF TellClosed
<1>3. CASE ~enabled
  <2>1. PICK s \in Threads : pc[s] = "wait"
    BY <1>3 DEF FirstInv, SomeoneEnables
  <2>2. pc'[s] = "wait"
    BY <2>1 DEF Leaves
  <2>3. SomeoneResets'
    BY DEF FirstInv, SomeoneResets, Leaves
  <2> QED
    BY <2>2, <2>3 DEF SomeoneEnables, SomeoneTells, Telling
<1> QED
  BY <1>1, <1>2, <1>3

LEMMA FirstReader ==
  ASSUME ThreadsAssumption, LockInv, FirstInv, session' <= 1,
         NEW r \in Readers, ReaderStep(r) \/ Acquire(r) \/ SelfCall(r)
  PROVE  FirstInv'
<1> USE Disjoint, OneUser, MovesLeaves, GoMoves, CallMoves, ReturnMoves
<1> USE DEF shared
<1>1. pc[r] \notin {"none", "ack", "tooOld", "startApi", "opened", "failed", "open"}
  BY DEF FirstInv, LockInv, ReaderPC, DisconnectPC, ReaderStep, Acquire, SelfCall, Born, Loop,
         Select, Recv, Acknowledged, TooOld, SendClientId, Callback, Request, SendRequest,
         Leave, TellAgain, Exit, Disconnecting, DisconnectCheck, DisconnectStop,
         DisconnectWait, CloseSocket, ClearSocket, DisconnectBase, DisconnectTell
<1>2. /\ session = 1 /\ (fd => connected)
      /\ \A u \in Users : ~Connecting(u)
      /\ connected \in BOOLEAN /\ enabled \in BOOLEAN /\ fd \in BOOLEAN
      /\ pc[r] \in {"base", "tell", "failedBase"} => ~fd
  BY <1>1, SessionStep DEF LockInv, TypeOK, Next, FirstInv
<1> DEFINE Kept(to, back) == /\ Leaves(r, to, back)
                             /\ to \notin {"ack", "tooOld", "startApi"}
                             /\ SomeoneEnables' /\ SomeoneTells' /\ SomeoneResets'
                             /\ to \in {"base", "tell", "failedBase"} => ~fd'
                             /\ fd' => fd /\ connected'
                             /\ connected' => connected
<1>3. SUFFICES \E to, back : Kept(to, back)
  <2>1. PICK to, back : Kept(to, back)
    OBVIOUS
  <2>2. session' = 1 /\ (reopen' = reopen \/ lock = r)
    BY <1>2, SessionStep DEF Next, ReaderStep, Acquire, SelfCall, Born, Loop, Select, Recv,
       Acknowledged, TooOld, SendClientId, Callback, Request, SendRequest, Leave, TellAgain,
       Exit, Disconnecting, DisconnectCheck, DisconnectStop, DisconnectWait, CloseSocket,
       ClearSocket, DisconnectBase, DisconnectTell, LockInv, Inside
  <2>3. \A u \in Users : pc'[u] = pc[u] /\ ret'[u] = ret[u]
    BY <2>1 DEF Leaves
  <2>4. \A u \in Users : ~Connecting(u)'
    BY <1>2, <2>1, <2>3 DEF Connecting
  <2>5. \A u \in Users : pc'[u] = "open" /\ ~reopen' => ~connected'
    <3>1. \A u \in Users : pc[u] = "open" => lock = u
      BY DEF LockInv, TypeOK
    <3> QED
      BY <2>1, <2>2, <2>3, <3>1 DEF FirstInv
  <2>6. \A t \in Threads : pc'[t] \in {"base", "tell", "failedBase"} => ~fd'
    BY <2>1 DEF Leaves, FirstInv
  <2>7. \A s \in Readers : pc'[s] \notin {"ack", "tooOld", "startApi"}
    BY <2>1 DEF Leaves, FirstInv
  <2> QED
    BY <2>1, <2>2, <2>4, <2>5, <2>6, <2>7 DEF FirstInv
<1>4. ASSUME UNCHANGED <<fd, connected, enabled, told>>,
             pc[r] \notin Telling, NEW to, NEW back,
             to \notin {"ack", "tooOld", "startApi", "base", "tell", "failedBase"},
             Moves(r, to, back)
      PROVE  Kept(to, back)
  <2>1. pc[r] # "failedBase"
    BY DEF LockInv, ReaderPC, DisconnectPC
  <2> QED
    BY <1>2, <1>4, <2>1, Keeps DEF Telling
<1> HIDE DEF Kept
<1> USE DEF Telling
<1>5. CASE Born(r)
  BY <1>4, <1>5 DEF Born
<1>6. CASE Loop(r)
  BY <1>4, <1>6 DEF Loop
<1>7. CASE Select(r)
  BY <1>4, <1>7 DEF Select
<1>8. CASE Recv(r)
  <2>1. PICK to, back : to \in {"loop", "callback", "check"} /\ Moves(r, to, back)
    BY <1>2, <1>8 DEF Recv
  <2> QED
    BY <1>4, <1>8, <2>1 DEF Recv
<1>9. CASE Callback(r)
  BY <1>4, <1>9 DEF Callback
<1>10. CASE Request(r)
  BY <1>4, <1>10 DEF Request
<1>11. CASE SendRequest(r)
  <2>1. PICK to, back : to \in {"leave", "check"} /\ Moves(r, to, back)
    BY <1>11, SendMoves DEF SendRequest
  <2> QED
    BY <1>4, <1>11, <2>1 DEF SendRequest
<1>12. CASE Leave(r)
  BY <1>4, <1>12 DEF Leave
<1>13. CASE Exit(r)
  BY <1>4, <1>13 DEF Exit
<1>14. CASE Acquire(r)
  BY <1>4, <1>14 DEF Acquire
<1>15. CASE TellAgain(r)
  <2>1. Leaves(r, "loop", ret[r])
    BY <1>15 DEF TellAgain
  <2>2. Kept("loop", ret[r])
    BY <1>2, <1>15, <2>1, Keeps DEF TellAgain, TellClosed, Kept
  <2> QED
    BY <2>2
<1>16. CASE SelfCall(r)
  <2>1. Leaves(r, "stuck", ret[r])
    BY <1>16 DEF SelfCall
  <2>2. SomeoneEnables' /\ SomeoneTells' /\ SomeoneResets'
    <3>1. CASE pc[r] = "tell"
      BY <1>16, <2>1, <3>1, TellKeeps DEF SelfCall
    <3>2. CASE pc[r] \in {"request", "send"}
      BY <1>16, <2>1, <3>2, Keeps DEF SelfCall
    <3> QED
      BY <1>1, <1>16, <3>1, <3>2 DEF SelfCall
  <2>3. Kept("stuck", ret[r])
    BY <1>2, <1>16, <2>1, <2>2 DEF SelfCall, Kept
  <2> QED
    BY <2>3
<1>17. CASE DisconnectCheck(r)
  <2>1. ret[r] \in {"leave", "loop", "again"}
    BY DEF LockInv
  <2>2. PICK to, back : to \in {ret[r], "stop"} /\ Moves(r, to, back)
    BY <1>17 DEF DisconnectCheck
  <2> QED
    BY <1>4, <1>17, <2>1, <2>2 DEF DisconnectCheck
<1>18. CASE DisconnectStop(r)
  <2>1. PICK to \in {"wait", "close"} : Leaves(r, to, ret[r]) /\ (to = "wait" <=> running)
    BY <1>18 DEF DisconnectStop
  <2>2. SomeoneEnables' /\ SomeoneTells' /\ SomeoneResets'
    BY <1>2, <1>18, <2>1, Keeps DEF DisconnectStop
  <2>3. Kept(to, ret[r])
    BY <1>2, <1>18, <2>1, <2>2 DEF DisconnectStop, Kept
  <2> QED
    BY <2>3
<1>19. CASE DisconnectWait(r)
  <2>1. Leaves(r, "close", ret[r])
    BY <1>19 DEF DisconnectWait
  <2>2. Kept("close", ret[r])
    BY <1>2, <1>19, <2>1, Keeps DEF DisconnectWait, Kept
  <2> QED
    BY <2>2
<1>20. CASE CloseSocket(r, "close", "clear")
  <2>1. Leaves(r, "clear", ret[r])
    BY <1>20 DEF CloseSocket
  <2>2. Kept("clear", ret[r])
    BY <1>2, <1>20, <2>1, Keeps DEF CloseSocket, Kept
  <2> QED
    BY <2>2
<1>21. CASE ClearSocket(r, "clear", "base")
  <2>1. Leaves(r, "base", ret[r])
    BY <1>21 DEF ClearSocket
  <2>2. Kept("base", ret[r])
    BY <1>2, <1>21, <2>1, Keeps DEF ClearSocket, Kept
  <2> QED
    BY <2>2
<1>22. CASE DisconnectBase(r, "base", "tell")
  <2>1. Leaves(r, "tell", ret[r]) /\ ~fd
    BY <1>2, <1>22 DEF DisconnectBase
  <2>2. Kept("tell", ret[r])
    BY <1>2, <1>22, <2>1, Keeps DEF DisconnectBase, Kept
  <2> QED
    BY <2>2
<1>23. CASE DisconnectTell(r)
  <2>1. Leaves(r, ret[r], "leave") /\ ret[r] \in {"leave", "loop", "again"}
    BY <1>23 DEF DisconnectTell, LockInv
  <2>2. SomeoneEnables' /\ SomeoneTells' /\ SomeoneResets'
    BY <1>23, <2>1, TellKeeps DEF DisconnectTell
  <2>3. Kept(ret[r], "leave")
    BY <1>2, <1>23, <2>1, <2>2 DEF DisconnectTell, Kept
  <2> QED
    BY <2>3
<1> QED
  BY <1>1, <1>5, <1>6, <1>7, <1>8, <1>9, <1>10, <1>11, <1>12, <1>13, <1>14, <1>15, <1>16,
     <1>17, <1>18, <1>19, <1>20, <1>21, <1>22, <1>23
     DEF ReaderStep, Acknowledged, TooOld, SendClientId, Disconnecting

LEMMA FirstUser ==
  ASSUME ThreadsAssumption, LockInv, FirstInv, session' <= 1,
         NEW u \in Users, Enter(u) \/ UserStep(u) \/ SelfCall(u)
  PROVE  FirstInv'
<1> USE Disjoint, MovesLeaves, GoMoves, CallMoves, ReturnMoves
<1> USE DEF shared
<1>1. /\ session \in {0, 1} /\ session' \in {session, session + 1}
      /\ connected \in BOOLEAN /\ enabled \in BOOLEAN /\ fd \in BOOLEAN
      /\ running \in BOOLEAN /\ reopen \in BOOLEAN
      /\ ret[u] \in {"leave", "handshake", "failed"}
      /\ pc[u] \in UserPC \cup DisconnectPC
  BY SessionStep DEF LockInv, TypeOK, Next
<1>2. /\ \A v \in Users : v # u => pc[v] = "idle" /\ ~Connecting(v)
      /\ fd /\ ~connected => Connecting(u)
  BY OneUser DEF FirstInv, LockInv, TypeOK, Connecting, Enter, UserStep, SelfCall, EConnect,
     Open, SendVersion, Handshake, Acknowledged, TooOld, SendClientId, ConnectFailed,
     ConnectionOpened, StartThread, Request, SendRequest, Leave, Disconnecting,
     DisconnectCheck, DisconnectStop, DisconnectWait, CloseSocket, ClearSocket,
     DisconnectBase, DisconnectTell, DisconnectPC
<1>3. /\ Connecting(u) =>
           /\ running = FALSE /\ ~reopen
           /\ pc[u] # "start" => told # "opened"
           /\ pc[u] \in {"ack", "startApi", "opened", "start"} => fd
           /\ pc[u] \in {"startApi", "opened", "start"} => connected
      /\ session = 0 => ~fd /\ ~connected /\ ~reopen /\ told # "opened" /\ running = FALSE
      /\ pc[u] \in {"base", "tell", "failedBase"} => ~fd
      /\ pc[u] = "open" /\ ~reopen => ~connected
  BY DEF FirstInv, NoReader
<1> DEFINE Kept(to, back) ==
  /\ Leaves(u, to, back)
  /\ SomeoneEnables' /\ SomeoneTells' /\ SomeoneResets'
  /\ to \in {"base", "tell", "failedBase"} => ~fd'
  /\ fd' => fd \/ session = 0
  /\ fd' /\ ~connected' => Connecting(u)'
  /\ session' = 0 => ~fd' /\ ~connected' /\ ~reopen' /\ told' # "opened" /\ running' = FALSE
  /\ session = 0 \/ session' = session
  /\ to = "open" /\ ~reopen' => ~connected'
  /\ Connecting(u)' =>
       /\ session = 0 \/ Connecting(u)
       /\ running' = FALSE /\ ~reopen'
       /\ to # "start" => told' # "opened"
       /\ to \in {"ack", "startApi", "opened", "start"} => fd'
       /\ to \in {"startApi", "opened", "start"} => connected'
<1>4. ASSUME NEW to, NEW back, Kept(to, back)
      PROVE  FirstInv'
  <2>1. \A r \in Readers : pc'[r] = pc[r]
    BY <1>4 DEF Leaves
  <2>2. \A v \in Users : v # u => pc'[v] = "idle" /\ ~Connecting(v)'
    BY <1>2, <1>4 DEF Leaves, Connecting, DisconnectPC
  <2>3. Connecting(u)' => NoReader'
    BY <1>4, <2>1 DEF FirstInv, NoReader
  <2>4. session' = 0 => NoReader'
    BY <1>1, <1>4, <2>1 DEF FirstInv, NoReader
  <2>5. \A t \in Threads : pc'[t] \in {"base", "tell", "failedBase"} => ~fd'
    <3>1. ASSUME NEW t \in Threads, t # u, pc[t] \in {"base", "tell", "failedBase"}
          PROVE  session # 0 /\ ~fd
      BY <1>2, <3>1 DEF FirstInv, NoReader
    <3> QED
      BY <1>4, <3>1 DEF Leaves
  <2> QED
    BY <1>4, <2>1, <2>2, <2>3, <2>4, <2>5 DEF FirstInv, Leaves
<1>5. ASSUME NEW to, NEW back, Leaves(u, to, back),
             UNCHANGED <<fd, connected, enabled, told, running, reopen, session>>,
             pc[u] \notin Telling \cup {"failedBase"},
             to \notin {"base", "tell", "failedBase", "open"},
             Connecting(u)' => /\ Connecting(u) /\ pc[u] # "start"
                               /\ to \in {"ack", "startApi", "opened", "start"} => fd
                               /\ to \in {"startApi", "opened", "start"} => connected,
             fd /\ ~connected => Connecting(u)'
      PROVE  FirstInv'
  <2>1. SomeoneEnables' /\ SomeoneTells' /\ SomeoneResets'
    BY <1>1, <1>5, Keeps DEF Telling
  <2> QED
    BY <1>3, <1>4, <1>5, <2>1 DEF Kept
<1> HIDE DEF Kept
<1> USE DEF Telling
<1>6. CASE Enter(u)
  <2>1. ~Connecting(u) /\ (fd => connected)
    BY <1>2, <1>6 DEF Enter, Connecting, DisconnectPC
  <2>2. PICK to \in {"eConnect", "request", "check"}, back \in {ret[u], "leave"} :
               Leaves(u, to, back) /\ (to = "check" => back = "leave")
    BY <1>6 DEF Enter
  <2>3. ~Connecting(u)'
    BY <2>2 DEF Leaves, Connecting, DisconnectPC
  <2> QED
    BY <1>5, <1>6, <2>1, <2>2, <2>3 DEF Enter
<1>7. CASE EConnect(u)
  <2>1. pc[u] = "eConnect" /\ ~Connecting(u) /\ (fd => connected)
    BY <1>2, <1>7 DEF EConnect, Connecting, DisconnectPC
  <2>2. Leaves(u, "open", ret[u]) /\ ~Connecting(u)'
    BY <1>7 DEF EConnect, Leaves, Connecting, DisconnectPC
  <2>3. SomeoneEnables' /\ SomeoneTells' /\ SomeoneResets'
    BY <1>1, <1>7, <2>1, <2>2, Keeps DEF EConnect
  <2>4. Kept("open", ret[u])
    BY <1>1, <1>3, <1>7, <2>1, <2>2, <2>3 DEF EConnect, Kept
  <2> QED
    BY <1>4, <2>4
<1>8. CASE Open(u)
  <2>1. pc[u] = "open" /\ ~Connecting(u) /\ (fd => connected)
    BY <1>2, <1>8 DEF Open, Connecting, DisconnectPC
  <2>2. CASE Go(u, Failed) /\ UNCHANGED <<fd, peer, session>>
    <3>1. PICK to \in {"leave", "failed"} : Leaves(u, to, ret[u]) /\ to = Failed
      BY <1>8, <2>2 DEF Open, Failed
    <3>2. ~Connecting(u)'
      BY <1>3, <1>8, <2>1, <2>2, <3>1 DEF Open, Failed, Leaves, Connecting, DisconnectPC
    <3>3. UNCHANGED <<fd, connected, enabled, told, running, reopen, session>>
      BY <1>8, <2>2 DEF Open
    <3> QED
      BY <1>5, <2>1, <3>1, <3>2, <3>3
  <2>3. CASE ~fd /\ fd' = TRUE /\ session' = session + 1 /\ Go(u, "version")
    <3>1. session = 0 /\ session' = 1 /\ ~reopen
      BY <1>1, <1>3, <1>8, <2>1, <2>3 DEF FirstInv
    <3>2. Leaves(u, "version", ret[u]) /\ Connecting(u)'
      BY <1>8, <2>3 DEF Open, Leaves, Connecting
    <3>3. SomeoneEnables' /\ SomeoneTells' /\ SomeoneResets'
      BY <1>1, <1>3, <1>8, <2>1, <2>3, <3>1, <3>2, Keeps DEF Open
    <3>4. Kept("version", ret[u])
      BY <1>3, <1>8, <2>3, <3>1, <3>2, <3>3 DEF Open, Kept
    <3> QED
      BY <1>4, <3>4
  <2> QED
    BY <1>8, <2>2, <2>3 DEF Open
<1>9. CASE SendVersion(u)
  <2>1. PICK to \in {"handshake", "check"}, back \in {ret[u], "handshake"} :
               Leaves(u, to, back) /\ (to = "check" => back = "handshake")
    BY <1>9 DEF SendVersion, Sends
  <2>2. Connecting(u) /\ Connecting(u)'
    BY <1>9, <2>1 DEF SendVersion, Leaves, Connecting, DisconnectPC
  <2> QED
    BY <1>5, <1>9, <2>1, <2>2 DEF SendVersion
<1>10. CASE Handshake(u)
  <2>1. pc[u] = "handshake" /\ Connecting(u) /\ Failed = "failed"
    BY <1>3, <1>10 DEF Handshake, Connecting, Failed
  <2>2. PICK to \in {"failed", "opened", "ack", "tooOld", "check"}, back \in {ret[u], "failed"} :
               /\ Leaves(u, to, back)
               /\ to = "check" => back = "failed"
               /\ to \in {"ack", "opened"} => fd
               /\ to = "opened" => connected
    BY <1>3, <1>10, <2>1 DEF Handshake
  <2>3. fd /\ ~connected => Connecting(u)'
    BY <1>10, <2>2 DEF Handshake, Leaves, Connecting, DisconnectPC
  <2> QED
    BY <1>5, <1>10, <2>1, <2>2, <2>3 DEF Handshake
<1>11. CASE Acknowledged(u)
  <2>1. pc[u] = "ack" /\ Connecting(u) /\ fd
    BY <1>3, <1>11 DEF Acknowledged, Connecting
  <2>2. Leaves(u, "startApi", ret[u])
    BY <1>11 DEF Acknowledged
  <2>3. SomeoneEnables' /\ SomeoneTells' /\ SomeoneResets'
    BY <1>1, <1>11, <2>1, <2>2, Keeps DEF Acknowledged
  <2>4. session # 0
    BY <1>3, <2>1
  <2>5. Kept("startApi", ret[u])
    BY <1>1, <1>3, <1>11, <2>1, <2>2, <2>3, <2>4 DEF Acknowledged, Kept
  <2> QED
    BY <1>4, <2>5
<1>12. CASE TooOld(u, "handshake")
  <2>1. pc[u] = "tooOld" /\ Connecting(u) /\ Leaves(u, "check", "handshake")
    BY <1>12 DEF TooOld, Connecting
  <2>2. Connecting(u)'
    BY <2>1 DEF Leaves, Connecting, DisconnectPC
  <2> QED
    BY <1>5, <1>12, <2>1, <2>2 DEF TooOld
<1>13. CASE SendClientId(u, "handshake")
  <2>1. PICK to \in {"handshake", "check"}, back \in {ret[u], "handshake"} :
               Leaves(u, to, back) /\ (to = "check" => back = "handshake")
    BY <1>13 DEF SendClientId, Sends
  <2>2. Connecting(u) /\ Connecting(u)'
    BY <1>13, <2>1 DEF SendClientId, Leaves, Connecting, DisconnectPC
  <2> QED
    BY <1>5, <1>13, <2>1, <2>2 DEF SendClientId
<1>14. CASE CloseSocket(u, "failed", "failedClear")
  <2>1. pc[u] = "failed" /\ Leaves(u, "failedClear", ret[u])
    BY <1>14 DEF CloseSocket
  <2>2. Connecting(u)' <=> Connecting(u)
    BY <1>14, <2>1 DEF CloseSocket, Leaves, Connecting, DisconnectPC
  <2> QED
    BY <1>2, <1>5, <1>14, <2>1, <2>2 DEF CloseSocket
<1>15. CASE ClearSocket(u, "failedClear", "failedBase")
  <2>1. pc[u] = "failedClear" /\ Leaves(u, "failedBase", ret[u])
    BY <1>15 DEF ClearSocket
  <2>2. Connecting(u)' => Connecting(u)
    BY <1>15, <2>1 DEF ClearSocket, Leaves, Connecting, DisconnectPC
  <2>3. SomeoneEnables' /\ SomeoneTells' /\ SomeoneResets'
    BY <1>1, <1>15, <2>1, Keeps DEF ClearSocket
  <2>4. Kept("failedBase", ret[u])
    BY <1>1, <1>3, <1>15, <2>1, <2>2, <2>3 DEF ClearSocket, Kept
  <2> QED
    BY <1>4, <2>4
<1>16. CASE DisconnectBase(u, "failedBase", "leave")
  <2>1. pc[u] = "failedBase" /\ Leaves(u, "leave", ret[u]) /\ ~Connecting(u)' /\ ~fd
    BY <1>3, <1>16 DEF DisconnectBase, Leaves, Connecting, DisconnectPC
  <2>2. connected => told # "opened"
    BY <1>3, <2>1 DEF Connecting
  <2>3. SomeoneEnables' /\ SomeoneTells' /\ SomeoneResets'
    BY <1>1, <1>16, <2>1, <2>2, Keeps DEF DisconnectBase
  <2>4. Kept("leave", ret[u])
    BY <1>1, <1>3, <1>16, <2>1, <2>3 DEF DisconnectBase, Kept
  <2> QED
    BY <1>4, <2>4
<1>17. CASE ConnectionOpened(u)
  <2>1. pc[u] = "opened" /\ running = FALSE /\ connected /\ fd /\ session = 1 /\ Connecting(u)
        /\ ~reopen
    BY <1>1, <1>3, <1>17 DEF ConnectionOpened, Connecting
  <2>2. Leaves(u, "start", ret[u])
    BY <1>17 DEF ConnectionOpened
  <2>3. SomeoneEnables' /\ SomeoneTells' /\ SomeoneResets'
    BY <1>1, <1>17, <2>1, <2>2, Keeps DEF ConnectionOpened
  <2>4. Kept("start", ret[u])
    BY <1>1, <1>17, <2>1, <2>2, <2>3 DEF ConnectionOpened, Kept
  <2> QED
    BY <1>4, <2>4
<1>18. CASE StartThread(u)
  <2>1. /\ pc[u] = "start" /\ connected /\ fd /\ session = 1
        /\ UNCHANGED <<fd, connected, enabled, told, running, reopen, session>>
    BY <1>1, <1>3, <1>18 DEF StartThread, Connecting
  <2>2. CASE CallDisconnect(u, "leave")
    <3>1. Leaves(u, "check", "leave") /\ ~Connecting(u)'
      BY <2>2 DEF Leaves, Connecting, DisconnectPC
    <3> QED
      BY <1>5, <1>18, <2>1, <3>1
  <2>3. ASSUME NEW r \in Readers, ~Alive(r), UNCHANGED ret,
               pc' = [pc EXCEPT ![u] = "leave", ![r] = "born"]
        PROVE  FirstInv'
    <3>1. /\ pc'[u] = "leave" /\ pc'[r] = "born" /\ ~Alive(r)
          /\ \A t \in Threads : t # u /\ t # r => pc'[t] = pc[t]
      BY <2>3 DEF LockInv, TypeOK
    <3>2. SomeoneEnables' /\ SomeoneTells' /\ SomeoneResets'
      BY <2>1, <3>1 DEF Alive, FirstInv, SomeoneEnables, SomeoneTells, SomeoneResets
    <3>3. \A v \in Users : ~Connecting(v)'
      BY <1>2, <2>1, <3>1 DEF Connecting, DisconnectPC
    <3>4. \A s \in Readers : pc'[s] \notin {"ack", "tooOld", "startApi"}
      BY <3>1 DEF FirstInv
    <3>5. \A t \in Threads : pc'[t] \notin {"base", "tell", "failedBase"}
      BY <2>1, <3>1 DEF FirstInv
    <3>6. \A v \in Users : pc'[v] # "open"
      BY <1>2, <3>1
    <3> QED
      BY <2>1, <3>2, <3>3, <3>4, <3>5, <3>6 DEF FirstInv
  <2> QED
    BY <1>18, <2>2, <2>3 DEF StartThread
<1>19. CASE Request(u)
  <2>1. ~Connecting(u) /\ pc[u] = "request"
    BY <1>19 DEF Request, Connecting, DisconnectPC
  <2>2. PICK to \in {"leave", "send"} : Leaves(u, to, ret[u])
    BY <1>19 DEF Request
  <2>3. ~Connecting(u)'
    BY <2>2 DEF Leaves, Connecting, DisconnectPC
  <2> QED
    BY <1>2, <1>5, <1>19, <2>1, <2>2, <2>3 DEF Request
<1>20. CASE SendRequest(u)
  <2>1. ~Connecting(u) /\ pc[u] = "send"
    BY <1>20 DEF SendRequest, Connecting, DisconnectPC
  <2>2. PICK to \in {"leave", "check"}, back \in {ret[u], "leave"} :
               Leaves(u, to, back) /\ (to = "check" => back = "leave")
    BY <1>20 DEF SendRequest, Sends
  <2>3. ~Connecting(u)'
    BY <2>2 DEF Leaves, Connecting, DisconnectPC
  <2> QED
    BY <1>2, <1>5, <1>20, <2>1, <2>2, <2>3 DEF SendRequest
<1>21. CASE Leave(u)
  <2>1. Leaves(u, "idle", ret[u]) /\ pc[u] = "leave"
    BY <1>21 DEF Leave
  <2>2. ~Connecting(u) /\ ~Connecting(u)'
    BY <2>1 DEF Leaves, Connecting, DisconnectPC
  <2>3. SomeoneEnables' /\ SomeoneTells' /\ SomeoneResets'
    BY <1>1, <1>21, <2>1, Keeps DEF Leave
  <2>4. Kept("idle", ret[u])
    BY <1>1, <1>2, <1>3, <1>21, <2>1, <2>2, <2>3 DEF Leave, Kept
  <2> QED
    BY <1>4, <2>4
<1>22. CASE SelfCall(u)
  <2>1. Leaves(u, "stuck", ret[u])
    BY <1>22 DEF SelfCall
  <2>2. Connecting(u)' <=> fd /\ ~connected
    BY <1>22, <2>1 DEF SelfCall, Leaves, Connecting, DisconnectPC
  <2>3. SomeoneEnables' /\ SomeoneTells' /\ SomeoneResets'
    <3>1. CASE pc[u] = "tell"
      BY <1>22, <2>1, <3>1, TellKeeps DEF SelfCall
    <3>2. CASE pc[u] # "tell"
      <4>1. pc[u] = "opened" => connected
        BY <1>3 DEF Connecting
      <4> QED
        BY <1>22, <2>1, <3>2, <4>1, Keeps DEF SelfCall
    <3> QED
      BY <3>1, <3>2
  <2>4. session = 0 => pc[u] # "opened"
    BY <1>3 DEF Connecting
  <2>5. fd /\ ~connected => told' # "opened"
    BY <1>2, <1>3, <1>22 DEF SelfCall, TellClosed
  <2>6. session = 0 => told' # "opened"
    BY <1>3, <1>22, <2>4 DEF SelfCall, TellClosed
  <2>7. Kept("stuck", ret[u])
    BY <1>2, <1>3, <1>22, <2>1, <2>2, <2>3, <2>5, <2>6 DEF SelfCall, Kept
  <2> QED
    BY <1>4, <2>7
<1>23. ASSUME NEW to, pc[u] \in DisconnectPC, to \in DisconnectPC, Leaves(u, to, ret[u])
       PROVE  /\ Connecting(u)' <=> Connecting(u)
              /\ Connecting(u) => ~running /\ ~reopen /\ told # "opened"
  BY <1>3, <1>23 DEF Leaves, Connecting, DisconnectPC
<1>24. CASE DisconnectCheck(u)
  <2>1. pc[u] = "check" /\ (Connecting(u) <=> ret[u] \in {"handshake", "failed"})
    BY <1>24 DEF DisconnectCheck, Connecting, DisconnectPC
  <2>2. CASE Return(u) /\ ~connected /\ ~running
    <3>1. Leaves(u, ret[u], "leave")
      BY <2>2
    <3>2. Connecting(u)' => Connecting(u)
      BY <1>1, <2>1, <3>1 DEF Leaves, Connecting, DisconnectPC
    <3>3. fd => Connecting(u)'
      BY <1>1, <1>2, <1>24, <2>1, <2>2, <3>1 DEF DisconnectCheck, Leaves, Connecting
    <3> QED
      BY <1>1, <1>5, <1>24, <2>1, <2>2, <3>1, <3>2, <3>3 DEF DisconnectCheck
  <2>3. CASE Go(u, "stop") /\ UNCHANGED ret
    <3>1. Leaves(u, "stop", ret[u]) /\ (Connecting(u)' <=> Connecting(u))
      BY <1>23, <2>1, <2>3 DEF DisconnectPC
    <3> QED
      BY <1>2, <1>5, <1>24, <2>1, <3>1 DEF DisconnectCheck
  <2> QED
    BY <1>24, <2>2, <2>3 DEF DisconnectCheck
<1>25. CASE DisconnectStop(u)
  <2>1. PICK to \in {"wait", "close"} :
               pc[u] = "stop" /\ Leaves(u, to, ret[u]) /\ (to = "wait" <=> running)
    BY <1>25 DEF DisconnectStop
  <2>2. /\ Connecting(u)' <=> Connecting(u)
        /\ Connecting(u) => ~running /\ ~reopen /\ told # "opened"
    BY <1>23, <2>1 DEF DisconnectPC
  <2>3. SomeoneEnables' /\ SomeoneTells' /\ SomeoneResets'
    BY <1>1, <1>25, <2>1, Keeps DEF DisconnectStop
  <2>4. Kept(to, ret[u])
    BY <1>1, <1>2, <1>3, <1>25, <2>1, <2>2, <2>3 DEF DisconnectStop, Kept
  <2> QED
    BY <1>4, <2>4
<1>26. CASE DisconnectWait(u)
  <2>1. Leaves(u, "close", ret[u]) /\ pc[u] = "wait"
    BY <1>26 DEF DisconnectWait
  <2>2. /\ Connecting(u)' <=> Connecting(u)
        /\ Connecting(u) => ~running /\ ~reopen /\ told # "opened"
    BY <1>23, <2>1 DEF DisconnectPC
  <2>3. SomeoneEnables' /\ SomeoneTells' /\ SomeoneResets'
    BY <1>1, <1>26, <2>1, Keeps DEF DisconnectWait
  <2>4. Kept("close", ret[u])
    BY <1>1, <1>2, <1>3, <1>26, <2>1, <2>2, <2>3 DEF DisconnectWait, Kept
  <2> QED
    BY <1>4, <2>4
<1>27. CASE CloseSocket(u, "close", "clear")
  <2>1. Leaves(u, "clear", ret[u]) /\ pc[u] = "close"
    BY <1>27 DEF CloseSocket
  <2>2. /\ Connecting(u)' <=> Connecting(u)
        /\ Connecting(u) => ~running /\ ~reopen /\ told # "opened"
    BY <1>23, <2>1 DEF DisconnectPC
  <2>3. SomeoneEnables' /\ SomeoneTells' /\ SomeoneResets'
    BY <1>1, <1>27, <2>1, Keeps DEF CloseSocket
  <2>4. Kept("clear", ret[u])
    BY <1>1, <1>2, <1>3, <1>27, <2>1, <2>2, <2>3 DEF CloseSocket, Kept
  <2> QED
    BY <1>4, <2>4
<1>28. CASE ClearSocket(u, "clear", "base")
  <2>1. Leaves(u, "base", ret[u]) /\ pc[u] = "clear"
    BY <1>28 DEF ClearSocket
  <2>2. /\ Connecting(u)' <=> Connecting(u)
        /\ Connecting(u) => ~running /\ ~reopen /\ told # "opened"
    BY <1>23, <2>1 DEF DisconnectPC
  <2>3. SomeoneEnables' /\ SomeoneTells' /\ SomeoneResets'
    BY <1>1, <1>28, <2>1, Keeps DEF ClearSocket
  <2>4. Kept("base", ret[u])
    BY <1>1, <1>2, <1>3, <1>28, <2>1, <2>2, <2>3 DEF ClearSocket, Kept
  <2> QED
    BY <1>4, <2>4
<1>29. CASE DisconnectBase(u, "base", "tell")
  <2>1. Leaves(u, "tell", ret[u]) /\ pc[u] = "base" /\ ~fd
    BY <1>3, <1>29 DEF DisconnectBase
  <2>2. /\ Connecting(u)' <=> Connecting(u)
        /\ Connecting(u) => ~running /\ ~reopen /\ told # "opened"
    BY <1>23, <2>1 DEF DisconnectPC
  <2>3. SomeoneEnables' /\ SomeoneTells' /\ SomeoneResets'
    BY <1>1, <1>29, <2>1, Keeps DEF DisconnectBase
  <2>4. Kept("tell", ret[u])
    BY <1>1, <1>2, <1>3, <1>29, <2>1, <2>2, <2>3 DEF DisconnectBase, Kept
  <2> QED
    BY <1>4, <2>4
<1>30. CASE DisconnectTell(u)
  <2>1. Leaves(u, ret[u], "leave") /\ pc[u] = "tell" /\ ~fd
    BY <1>3, <1>30 DEF DisconnectTell
  <2>2. Connecting(u)' => Connecting(u) /\ ~reopen /\ ~running
    BY <1>1, <1>3, <1>30, <2>1 DEF DisconnectTell, Leaves, Connecting, DisconnectPC
  <2>3. SomeoneEnables' /\ SomeoneTells' /\ SomeoneResets'
    BY <1>30, <2>1, TellKeeps DEF DisconnectTell
  <2>4. told' # "opened" \/ (told' = told /\ told = "opened" /\ ~Connecting(u) /\ session # 0)
    BY <1>3, <1>30, <2>1 DEF DisconnectTell, TellClosed
  <2>5. Kept(ret[u], "leave")
    BY <1>1, <1>3, <1>30, <2>1, <2>2, <2>3, <2>4 DEF DisconnectTell, Kept
  <2> QED
    BY <1>4, <2>5
<1> QED
  BY <1>6, <1>7, <1>8, <1>9, <1>10, <1>11, <1>12, <1>13, <1>14, <1>15, <1>16, <1>17, <1>18,
     <1>19, <1>20, <1>21, <1>22, <1>24, <1>25, <1>26, <1>27, <1>28, <1>29, <1>30
     DEF UserStep, ConnectFailed, Disconnecting

-----------------------------------------------------------------------------
(* The theorems.                                                           *)

LEMMA InitInv == ThreadsAssumption /\ Init => Inv
<1> SUFFICES ASSUME ThreadsAssumption, Init
             PROVE  Inv
  OBVIOUS
<1>1. \A t \in Threads : pc[t] = (IF t \in Users THEN "idle" ELSE "none")
  BY DEF Init
<1>2. (\A u \in Users : ~Connecting(u)) /\ \A r \in Readers : pc[r] = "none"
  BY <1>1, Disjoint DEF Connecting, DisconnectPC
<1>3. FirstInv
  BY <1>2 DEF Init, FirstInv, SomeoneEnables, SomeoneTells, SomeoneResets, NoReader
<1> QED
  BY <1>3, InitLock DEF Inv

LEMMA NextInv == ThreadsAssumption /\ Inv /\ [Next]_vars => Inv'
<1> SUFFICES ASSUME ThreadsAssumption, Inv, [Next]_vars, session' <= 1
             PROVE  FirstInv'
  BY LockStep DEF Inv
<1>1. LockInv /\ FirstInv
  <2>1. LockInv /\ session' \in {session, session + 1}
    BY SessionStep DEF Inv
  <2>2. session <= 1
    BY <2>1 DEF LockInv, TypeOK, ThreadsAssumption
  <2> QED
    BY <2>1, <2>2 DEF Inv
<1>2. CASE \E u \in Users : Enter(u) \/ UserStep(u) \/ SelfCall(u)
  BY <1>1, <1>2, FirstUser
<1>3. CASE \E r \in Readers : ReaderStep(r) \/ Acquire(r) \/ SelfCall(r)
  BY <1>1, <1>3, FirstReader
<1>4. CASE PeerAnswers \/ PeerCloses \/ PeerBreaks \/ UNCHANGED vars
  BY <1>1, <1>4 DEF PeerAnswers, PeerCloses, PeerBreaks, vars, shared, FirstInv,
                    SomeoneEnables, SomeoneTells, SomeoneResets, NoReader, Connecting
<1> QED
  BY <1>2, <1>3, <1>4 DEF Next

LEMMA Invariance == Spec => []Inv
<1>1. Init => Inv
  BY InitInv, ThreadsAssumption
<1>2. Inv /\ [Next]_vars => Inv'
  BY NextInv, ThreadsAssumption
<1> QED
  BY <1>1, <1>2, PTL DEF Spec

\* Every member keeps its type, and a program thread that is in a call of
\* EClientL0Interface owns the critical section (LEAVECRITICALSECTION of any thread,
\* a reader's callback among them, frees only its own).
THEOREM TypeCorrect == Spec => []TypeOK
<1>1. Inv => TypeOK
  BY DEF Inv, LockInv
<1> QED
  BY <1>1, Invariance, PTL

\* While no second connection was made, connectionClosed() is not lost however the
\* eDisconnect() of the program's threads and of the reader overlap: m_Enabled is only
\* off while a thread that will report the end is in its wait.
THEOREM EndIsReported == Spec => []FirstClosedIsReported
<1>1. Inv => FirstClosedIsReported
  BY DEF Inv, FirstInv, SomeoneTells, Telling, FirstClosedIsReported, ClosedIsReported, DisconnectPC
<1> QED
  BY <1>1, Invariance, PTL

\* m_fd and m_connected are reset one after the other, outside the critical section
\* too: while the first connection is the last one made, m_connected is set without a
\* socket only until the thread that closed the socket takes its next step.
THEOREM SocketOfFirst == Spec => []FirstConnectedHasSocket
<1>1. Inv => FirstConnectedHasSocket
  BY DEF Inv, FirstInv, SomeoneResets, FirstConnectedHasSocket
<1> QED
  BY <1>1, Invariance, PTL
=============================================================================
