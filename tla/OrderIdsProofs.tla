--------------------------- MODULE OrderIdsProofs ---------------------------
(***************************************************************************)
(* Theorems about OrderIds for any number of orders in a call, any ids and *)
(* any backlog: the types, that the ids of a settled call are new, and     *)
(* that the orders of it that TWS has reported are returned.               *)
(***************************************************************************)
EXTENDS OrderIds, SequenceFacts

Request == Ids \cup {ReqIds}
Callback == [call : {"nextValidId", "order"}, id : Ids]

\* An id that TWS may send: the first, or behind that of an order.
MayBeNext(n) == n = 1 \/ n - 1 \in placed

\* What is under way is about orders that have been placed.
Known ==
  /\ \A r \in Range(requests) : r = ReqIds \/ r \in placed
  /\ \A m \in Range(coming) :
       IF m.call = "order" THEN m.id \in orders ELSE m.id \in TwsIds /\ MayBeNext(m.id)
  /\ storing # 0 => MayBeNext(storing)
  /\ placed \subseteq orders \cup Range(requests)

\* The ids suffice for the rest of the call.
Bounds ==
  /\ pc \in {"start", "idle", "confirm", "collect"} => left = 0
  /\ \A i \in placed : i + left < MaxId
  /\ m_orderId + (IF pc = "place" THEN left - 1 ELSE left) <= MaxId
  /\ pc \in {"increment", "place"} => id + left <= MaxId

\* Every order has an id below n.
Above(n) == \A i \in placed : i < n

\* Answers to reqIds on their way to the program.
NextIds == {k \in 1 .. Len(coming) : coming[k].call = "nextValidId"}

\* Where the id is that a waiting call has asked for: TWS has not handled the request,
\* behind which there is none,
Requested == requests # <<>> /\ requests[Len(requests)] = ReqIds

\* or the id comes, behind it none, or is being stored, or has been stored.
Answered ==
  /\ requests = <<>>
  /\ \/ \E k \in NextIds : Above(coming[k].id) /\ \A l \in NextIds : l <= k
     \/ NextIds = {} /\ storing # 0 /\ Above(storing)
     \/ NextIds = {} /\ storing = 0 /\ Above(m_orderId)

WaitInv == pc = "wait" => Requested \/ Answered

\* The rest of a call that is settled.
Placing == pc \in {"take", "increment", "place", "confirm", "collect"}

SettledInv ==
  settled =>
    /\ Placing /\ ~IdUnderWay
    /\ pc = "take" => Above(m_orderId)
    /\ pc = "increment" => id = m_orderId /\ Above(id)
    /\ pc = "place" => m_orderId = id + 1 /\ Above(id)

\* What TWS has reported of the orders of a settled call.
MineInv ==
  /\ ~Placing => mine = {}
  /\ settled => \A i \in mine \cap orders :
                  [call |-> "order", id |-> i] \in Range(coming) \/ i \in combOpenOrd

Inv == TypeOK /\ Known /\ Bounds /\ WaitInv /\ SettledInv /\ MineInv

-----------------------------------------------------------------------------
(* What the steps of TWS and of the reader do to the queues.               *)

LEMMA QueueTypes ==
  ASSUME OrderIdsAssumption, TypeOK
  PROVE  /\ requests \in Seq(Request) /\ coming \in Seq(Callback)
         /\ MaxOrders \in Nat \ {0} /\ MaxId \in Nat \ {0} /\ MaxOrders < MaxId
         /\ Ids \subseteq Int /\ ReqIds \notin Ids /\ TwsIds \subseteq Ids /\ -1 \in Ids
         /\ ToSet(requests) = Range(requests) /\ ToSet(coming) = Range(coming)
BY DEF OrderIdsAssumption, TypeOK, Request, Callback, Ids, ReqIds, TwsIds, ToSet, Range

LEMMA NextIdFacts ==
  ASSUME OrderIdsAssumption, TypeOK, Bounds
  PROVE  /\ NextId \in TwsIds /\ NextId - 1 \in orders \cup {0}
         /\ \A i \in orders : i < NextId
<1>1. /\ orders \subseteq placed /\ placed \subseteq Ids /\ left \in Nat
      /\ MaxId \in Nat \ {0}
  BY DEF TypeOK, OrderIdsAssumption
<1>2. \A i \in orders \cup {0} : i \in Int /\ i < MaxId
  <2>1. \A i \in orders : i \in Int /\ i < MaxId
    BY <1>1 DEF Bounds, Ids
  <2> QED
    BY <1>1, <2>1
<1>3. PICK m \in orders \cup {0} : \A i \in orders \cup {0} : i <= m
  BY <1>1, <1>2, Largest
<1>4. /\ m + 1 \in TwsIds /\ (m + 1) - 1 \in orders \cup {0}
      /\ \A i \in orders : i < m + 1
  BY <1>1, <1>2, <1>3 DEF TwsIds
<1>5. \E n \in TwsIds : n - 1 \in orders \cup {0} /\ \A i \in orders : i < n
  BY <1>4
<1> QED
  BY <1>5 DEF NextId

\* TWS takes a request and sends a callback.
LEMMA HandleFacts ==
  ASSUME OrderIdsAssumption, TypeOK, Bounds, TwsHandle
  PROVE  /\ Head(requests) \in Request /\ requests' \in Seq(Request)
         /\ Range(requests) = {Head(requests)} \cup Range(requests')
         /\ \E m \in Callback :
              /\ coming' = Append(coming, m) /\ coming' \in Seq(Callback)
              /\ Range(coming') = Range(coming) \cup {m}
              /\ IF Head(requests) = ReqIds
                   THEN m.call = "nextValidId" /\ m.id = NextId /\ orders' = orders
                   ELSE /\ m.call = "order" /\ m.id = Head(requests)
                        /\ orders' = orders \cup {Head(requests)}
<1>1. requests \in Seq(Request) /\ coming \in Seq(Callback) /\ TwsIds \subseteq Ids
  BY QueueTypes
<1>2. /\ Head(requests) \in Request /\ requests' \in Seq(Request)
      /\ Range(requests) = {Head(requests)} \cup Range(requests')
  BY <1>1, RangeTail DEF TwsHandle
<1>3. CASE Head(requests) = ReqIds
  <2> DEFINE m == [call |-> "nextValidId", id |-> NextId]
  <2>1. m \in Callback /\ m.call = "nextValidId" /\ m.id = NextId
    BY <1>1, NextIdFacts DEF Callback
  <2>2. coming' = Append(coming, m) /\ orders' = orders
    BY <1>3 DEF TwsHandle
  <2> HIDE DEF m
  <2> QED
    BY <1>1, <1>2, <1>3, <2>1, <2>2, RangeAppend
<1>4. CASE Head(requests) # ReqIds
  <2> DEFINE m == [call |-> "order", id |-> Head(requests)]
  <2>1. m \in Callback /\ m.call = "order" /\ m.id = Head(requests)
    BY <1>2, <1>4 DEF Callback, Request
  <2>2. coming' = Append(coming, m) /\ orders' = orders \cup {Head(requests)}
    BY <1>4 DEF TwsHandle
  <2> HIDE DEF m
  <2> QED
    BY <1>1, <1>2, <1>4, <2>1, <2>2, RangeAppend
<1> QED
  BY <1>3, <1>4

\* TWS sends a callback about an order that it has.
LEMMA EventFacts ==
  ASSUME OrderIdsAssumption, TypeOK, TwsOrderEvent
  PROVE  \E m \in Callback :
           /\ m.call = "order" /\ m.id \in orders
           /\ coming' = Append(coming, m) /\ coming' \in Seq(Callback)
           /\ Range(coming') = Range(coming) \cup {m}
<1>1. PICK i \in orders : coming' = Append(coming, [call |-> "order", id |-> i])
  BY DEF TwsOrderEvent
<1>2. coming \in Seq(Callback) /\ i \in Ids
  BY QueueTypes DEF TypeOK
<1> DEFINE m == [call |-> "order", id |-> i]
<1>3. m \in Callback /\ m.call = "order" /\ m.id = i
  BY <1>2 DEF Callback
<1> HIDE DEF m
<1>4. coming' = Append(coming, m)
  BY <1>1 DEF m
<1> QED
  BY <1>2, <1>3, <1>4, RangeAppend

\* The reader takes a callback.
LEMMA TakenFacts ==
  ASSUME OrderIdsAssumption, TypeOK, NextValidId \/ OrderReported
  PROVE  /\ Head(coming) \in Callback /\ coming' \in Seq(Callback) /\ coming' = Tail(coming)
         /\ Range(coming) = {Head(coming)} \cup Range(coming')
         /\ Len(coming) \in Nat \ {0} /\ Len(coming') = Len(coming) - 1
         /\ Head(coming) = coming[1]
         /\ \A i \in 1 .. Len(coming) - 1 : coming'[i] = coming[i + 1]
<1>1. coming \in Seq(Callback) /\ coming # <<>> /\ coming' = Tail(coming)
  BY QueueTypes DEF NextValidId, OrderReported
<1>2. /\ Len(coming) \in Nat \ {0} /\ Len(Tail(coming)) = Len(coming) - 1
      /\ Head(coming) = coming[1]
      /\ \A i \in 1 .. Len(coming) - 1 : Tail(coming)[i] = coming[i + 1]
  BY <1>1, HeadTailProperties, LenProperties, EmptySeq
<1> QED
  BY <1>1, <1>2, RangeTail

-----------------------------------------------------------------------------
(* Types and bounds.                                                       *)

\* The steps that change neither what is under way nor an order.
Quiet ==
  \/ WaitForNextValidId \/ Send \/ Clear \/ Unflag \/ Ready \/ TimeOut
  \/ Take \/ Increment \/ Confirm \/ Collect

LEMMA QuietFacts ==
  ASSUME Quiet
  PROVE  UNCHANGED <<tws, placed>>
BY Zenon DEF Quiet, WaitForNextValidId, Send, Clear, Unflag, Ready, TimeOut, Take, Increment,
       Confirm, Collect, shared

LEMMA KnownStep ==
  ASSUME OrderIdsAssumption, TypeOK, Known, Bounds, [Next]_vars
  PROVE  Known'
<1>1. CASE Quiet \/ UNCHANGED vars
  <2>1. UNCHANGED <<requests, coming, storing, orders, placed>>
    BY <1>1, QuietFacts DEF tws, vars
  <2> QED
    BY <2>1 DEF Known, MayBeNext
<1>2. CASE Ask
  <2>1. requests \in Seq(Request) /\ ReqIds \in Request /\ requests' = Append(requests, ReqIds)
        /\ UNCHANGED <<coming, storing, orders, placed>>
    BY <1>2, QueueTypes DEF Ask, Request
  <2>2. Range(requests') = Range(requests) \cup {ReqIds}
    BY <2>1, RangeAppend
  <2> QED
    BY <2>1, <2>2 DEF Known, MayBeNext
<1>3. CASE Place
  <2>1. /\ requests \in Seq(Request) /\ id \in Request /\ requests' = Append(requests, id)
        /\ placed' = placed \cup {id} /\ UNCHANGED <<coming, storing, orders>>
    BY <1>3, QueueTypes DEF Place, Request, TypeOK
  <2>2. Range(requests') = Range(requests) \cup {id}
    BY <2>1, RangeAppend
  <2>3. \A n : MayBeNext(n) => MayBeNext(n)'
    BY <2>1 DEF MayBeNext
  <2> QED
    BY <2>1, <2>2, <2>3 DEF Known
<1>4. CASE TwsHandle
  <2>1. /\ Range(requests) = {Head(requests)} \cup Range(requests')
        /\ UNCHANGED <<storing, placed>>
    BY <1>4, HandleFacts DEF TwsHandle
  <2>2. PICK m \in Callback :
          /\ Range(coming') = Range(coming) \cup {m}
          /\ IF Head(requests) = ReqIds
               THEN m.call = "nextValidId" /\ m.id = NextId /\ orders' = orders
               ELSE /\ m.call = "order" /\ m.id = Head(requests)
                    /\ orders' = orders \cup {Head(requests)}
    BY <1>4, HandleFacts
  <2>3. \A n : MayBeNext(n)' <=> MayBeNext(n)
    BY <2>1 DEF MayBeNext
  <2>4. NextId \in TwsIds /\ MayBeNext(NextId)
    <3>1. /\ NextId \in TwsIds /\ NextId - 1 \in orders \cup {0}
          /\ orders \subseteq placed /\ \A n \in TwsIds : n - 1 = 0 => n = 1
      BY NextIdFacts DEF TypeOK, TwsIds
    <3> QED
      BY <3>1 DEF MayBeNext
  <2>5. placed \subseteq orders' \cup Range(requests') \cup {ReqIds}
    BY <2>1, <2>2 DEF Known
  <2>6. ReqIds \notin placed
    BY QueueTypes DEF TypeOK
  <2> QED
    BY <2>1, <2>2, <2>3, <2>4, <2>5, <2>6 DEF Known
<1>5. CASE TwsOrderEvent
  <2>1. PICK m \in Callback : /\ m.call = "order" /\ m.id \in orders
                              /\ Range(coming') = Range(coming) \cup {m}
    BY <1>5, EventFacts
  <2>2. UNCHANGED <<requests, storing, orders, placed>>
    BY <1>5 DEF TwsOrderEvent
  <2> QED
    BY <2>1, <2>2 DEF Known, MayBeNext
<1>6. CASE NextValidId \/ OrderReported
  <2>1. /\ Range(coming) = {Head(coming)} \cup Range(coming')
        /\ UNCHANGED <<requests, orders, placed>>
        /\ \/ storing' = storing
           \/ Head(coming).call = "nextValidId" /\ storing' = Head(coming).id
    BY <1>6, TakenFacts DEF NextValidId, OrderReported
  <2> QED
    BY <2>1 DEF Known, MayBeNext
<1>7. CASE StoreId
  BY <1>7 DEF StoreId, Known, MayBeNext
<1> QED
  BY <1>1, <1>2, <1>3, <1>4, <1>5, <1>6, <1>7 DEF Next, Program, Quiet

\* What TWS may send as the next id leaves room for the call.
LEMMA NextIsBounded ==
  ASSUME OrderIdsAssumption, TypeOK, Bounds, NEW n \in TwsIds, MayBeNext(n)
  PROVE  n + left <= MaxId
<1>1. /\ left \in Nat /\ left <= MaxOrders /\ MaxOrders \in Nat /\ MaxId \in Nat
      /\ MaxOrders < MaxId /\ n \in Int
  BY DEF TypeOK, OrderIdsAssumption, TwsIds
<1>2. CASE n = 1
  BY <1>1, <1>2
<1>3. CASE n - 1 \in placed
  <2>1. (n - 1) + left < MaxId
    BY <1>3 DEF Bounds
  <2> QED
    BY <1>1, <2>1
<1> QED
  BY <1>2, <1>3 DEF MayBeNext

LEMMA TypedStep ==
  ASSUME OrderIdsAssumption, TypeOK, Known, Bounds, [Next]_vars
  PROVE  TypeOK'
<1>1. /\ requests \in Seq(Request) /\ coming \in Seq(Callback)
      /\ MaxOrders \in Nat \ {0} /\ MaxId \in Nat \ {0} /\ TwsIds \subseteq Ids
  BY QueueTypes
<1> DEFINE PcOK == pc \in {"start", "idle", "clear", "unflag", "ask", "wait", "take",
                           "increment", "place", "confirm", "collect"}
           ProgramOK == /\ PcOK /\ left \in 0 .. MaxOrders
                        /\ (pc \in {"take", "increment", "place"} => left > 0)
           IdsOK == id \in Ids /\ m_orderId \in Ids
           FlagsOK == b_nextValidId \in BOOLEAN /\ settled \in BOOLEAN
           StoringOK == storing \in TwsIds \cup {0}
           QueuesOK == requests \in Seq(Request) /\ coming \in Seq(Callback)
           OrdersOK == /\ mine \subseteq placed /\ placed \subseteq Ids /\ orders \subseteq placed
                       /\ combOpenOrd \subseteq orders
<1>2. SUFFICES ProgramOK' /\ IdsOK' /\ FlagsOK' /\ StoringOK' /\ QueuesOK' /\ OrdersOK'
  BY DEF TypeOK, Request, Callback
<1>3. ProgramOK /\ IdsOK /\ FlagsOK /\ StoringOK /\ QueuesOK /\ OrdersOK
  BY <1>1 DEF TypeOK
<1>4. CASE Quiet
  <2>1. UNCHANGED <<storing, requests, coming, orders, placed>>
    BY <1>4, QuietFacts DEF tws
  <2>2. ProgramOK'
    <3>1. CASE Ready \/ TimeOut
      BY <1>3, <3>1 DEF Ready, TimeOut, Goto, Loop
    <3>2. CASE Send
      BY <1>1, <1>3, <3>2 DEF Send
    <3>3. CASE Take \/ Increment
      BY <1>3, <3>3 DEF Take, Increment, Goto
    <3>4. CASE WaitForNextValidId \/ Clear \/ Unflag \/ Confirm \/ Collect
      BY <1>3, <3>4 DEF WaitForNextValidId, Clear, Unflag, Confirm, Collect, Goto
    <3> QED
      BY <1>4, <3>1, <3>2, <3>3, <3>4 DEF Quiet
  <2>3. IdsOK'
    <3>1. CASE Increment
      <4>1. m_orderId' = id + 1 /\ id' = id /\ id \in Ids
        BY <1>3, <3>1 DEF Increment, caller
      <4>2. id + left <= MaxId /\ left \in Nat /\ left > 0
        BY <1>3, <3>1 DEF Increment, Bounds
      <4>3. id + 1 \in Ids
        BY <1>1, <4>1, <4>2 DEF Ids
      <4> QED
        BY <4>1, <4>3
    <3>2. CASE ~Increment
      <4>1. 0 \in Ids
        BY <1>1 DEF Ids
      <4>2. m_orderId' = m_orderId /\ id' \in {0, id, m_orderId}
        BY <1>4, <3>2 DEF Quiet, WaitForNextValidId, Send, Clear, Unflag, Ready, TimeOut, Take,
           Confirm, Collect, shared, caller
      <4> QED
        BY <1>3, <4>1, <4>2
    <3> QED
      BY <3>1, <3>2
  <2>4. FlagsOK'
    BY <1>3, <1>4 DEF Quiet, WaitForNextValidId, Send, Clear, Unflag, Ready, TimeOut, Take,
       Increment, Confirm, Collect, shared, caller, IdUnderWay
  <2>5. mine' \in {mine, {}} /\ combOpenOrd' \in {combOpenOrd, {}}
    BY <1>4 DEF Quiet, WaitForNextValidId, Send, Clear, Unflag, Ready, TimeOut, Take,
       Increment, Confirm, Collect, shared, caller
  <2> QED
    BY <1>3, <2>1, <2>2, <2>3, <2>4, <2>5
<1>5. CASE Ask
  <2>1. ReqIds \in Request /\ requests' = Append(requests, ReqIds)
    BY <1>5 DEF Ask, Request
  <2>2. requests' \in Seq(Request)
    BY <1>1, <2>1, RangeAppend
  <2>3. /\ pc' = "wait" /\ UNCHANGED <<left, id, mine, settled, m_orderId, b_nextValidId,
                                       combOpenOrd, storing, coming, orders, placed>>
    BY <1>5 DEF Ask, Goto, caller, shared
  <2> QED
    BY <1>3, <2>2, <2>3
<1>6. CASE Place
  <2>1. requests' = Append(requests, id) /\ id \in Ids
    BY <1>3, <1>6 DEF Place
  <2>2. requests' \in Seq(Request)
    BY <1>1, <2>1, RangeAppend DEF Request
  <2>3. /\ pc = "place" /\ left' = left - 1 /\ pc' = IF left' = 0 THEN "confirm" ELSE "take"
        /\ placed' = placed \cup {id} /\ mine' = mine \cup {id}
        /\ UNCHANGED <<id, settled, m_orderId, b_nextValidId, combOpenOrd, storing, coming,
                       orders>>
    BY <1>6 DEF Place, Loop, shared
  <2>4. ProgramOK'
    BY <1>1, <1>3, <2>3
  <2> QED
    BY <1>3, <2>1, <2>2, <2>3, <2>4
<1>7. CASE TwsHandle
  <2>1. requests' \in Seq(Request) /\ coming' \in Seq(Callback)
        /\ orders' \subseteq orders \cup (Range(requests) \ {ReqIds})
    BY <1>7, HandleFacts
  <2>2. orders' \subseteq placed
    BY <1>3, <2>1 DEF Known
  <2>3. orders \subseteq orders'
    BY <1>7, HandleFacts
  <2>4. UNCHANGED <<pc, left, id, mine, settled, m_orderId, b_nextValidId, combOpenOrd, storing,
                    placed>>
    BY <1>7 DEF TwsHandle, caller, shared
  <2> QED
    BY <1>3, <2>1, <2>2, <2>3, <2>4
<1>8. CASE TwsOrderEvent
  BY <1>3, <1>8, EventFacts DEF TwsOrderEvent, caller, shared
<1>9. CASE NextValidId \/ OrderReported
  <2>1. /\ Head(coming) \in Range(coming) /\ coming' \in Seq(Callback)
        /\ Head(coming) \in Callback
    BY <1>9, TakenFacts
  <2>2. /\ UNCHANGED <<pc, left, id, mine, settled, m_orderId, requests, orders, placed>>
        /\ b_nextValidId' \in {b_nextValidId, TRUE}
    BY <1>9 DEF NextValidId, OrderReported, caller
  <2>3. StoringOK'
    BY <1>3, <1>9, <2>1 DEF NextValidId, OrderReported, Known
  <2>4. combOpenOrd' \subseteq orders
    BY <1>3, <1>9, <2>1 DEF NextValidId, OrderReported, Known
  <2> QED
    BY <1>3, <2>1, <2>2, <2>3, <2>4
<1>10. CASE StoreId
  BY <1>1, <1>3, <1>10 DEF StoreId, caller
<1>11. CASE UNCHANGED vars
  BY <1>3, <1>11 DEF vars, caller, shared, tws
<1> QED
  BY <1>4, <1>5, <1>6, <1>7, <1>8, <1>9, <1>10, <1>11 DEF Next, Program, Quiet

LEMMA BoundsStep ==
  ASSUME OrderIdsAssumption, TypeOK, Known, Bounds, [Next]_vars
  PROVE  Bounds'
<1>1. /\ left \in 0 .. MaxOrders /\ MaxOrders \in Nat \ {0} /\ MaxId \in Nat
      /\ MaxOrders < MaxId /\ id \in Int /\ m_orderId \in Int
      /\ \A i \in placed : i \in Int
  BY DEF TypeOK, OrderIdsAssumption, Ids
<1>2. CASE WaitForNextValidId \/ Clear \/ Unflag \/ Confirm \/ Collect
  <2>1. /\ UNCHANGED <<left, m_orderId, placed>>
        /\ pc \in {"start", "clear", "unflag", "confirm", "collect"}
        /\ pc' \in {"idle", "unflag", "ask", "collect"}
        /\ pc' \in {"idle", "collect"} => pc \in {"start", "confirm", "collect"}
    BY <1>2 DEF WaitForNextValidId, Clear, Unflag, Confirm, Collect, Goto, shared
  <2> QED
    BY <2>1 DEF Bounds
<1>3. CASE Send
  <2>1. /\ \A i \in placed \cup {m_orderId} : i + MaxOrders < MaxId
        /\ pc' = "clear" /\ left' \in 0 .. MaxOrders /\ UNCHANGED <<m_orderId, placed>>
    BY <1>3 DEF Send, shared
  <2>2. \A i \in placed : i + left' < MaxId
    BY <1>1, <2>1
  <2>3. m_orderId' + left' <= MaxId
    <3>1. m_orderId + MaxOrders < MaxId
      BY <2>1
    <3>2. PICK l \in 0 .. MaxOrders : left' = l
      BY <2>1
    <3>3. m_orderId + l <= MaxId
      BY <1>1, <3>1
    <3> QED
      BY <2>1, <3>2, <3>3
  <2> QED
    BY <2>1, <2>2, <2>3 DEF Bounds
<1>4. CASE Ask \/ Ready \/ TimeOut
  <2>1. /\ UNCHANGED <<left, m_orderId, placed>> /\ pc \in {"ask", "wait"}
        /\ (pc' \in {"wait", "take"} \/ (pc' = "confirm" /\ left = 0))
    <3>1. UNCHANGED <<left, m_orderId, placed>> /\ pc \in {"ask", "wait"}
      BY <1>4 DEF Ask, Ready, TimeOut, Goto, shared
    <3>2. pc' = "wait" \/ pc' = Loop(left)
      BY <1>4 DEF Ask, Ready, TimeOut, Goto
    <3> QED
      BY <3>1, <3>2 DEF Loop
  <2> QED
    BY <2>1 DEF Bounds
<1>5. CASE Take
  <2>1. UNCHANGED <<left, m_orderId, placed>> /\ pc = "take" /\ pc' = "increment"
        /\ id' = m_orderId
    BY <1>5 DEF Take, Goto, shared
  <2> QED
    BY <2>1 DEF Bounds
<1>6. CASE Increment
  <2>1. UNCHANGED <<left, id, placed>> /\ pc = "increment" /\ pc' = "place"
        /\ m_orderId' = id + 1
    BY <1>6 DEF Increment, Goto, caller
  <2>2. id + left <= MaxId
    BY <2>1 DEF Bounds
  <2>3. m_orderId' + (left' - 1) <= MaxId
    BY <1>1, <2>1, <2>2
  <2> QED
    BY <2>1, <2>2, <2>3 DEF Bounds
<1>7. CASE Place
  <2>1. /\ UNCHANGED <<m_orderId>> /\ pc = "place" /\ pc' \in {"take", "confirm"}
        /\ pc' = "confirm" => left' = 0
        /\ placed' = placed \cup {id} /\ left' = left - 1
    BY <1>7 DEF Place, Loop, shared
  <2>2. /\ id + left <= MaxId /\ m_orderId + (left - 1) <= MaxId
        /\ \A i \in placed : i + left < MaxId
    BY <2>1 DEF Bounds
  <2>3. \A i \in placed' : i + left' < MaxId
    BY <1>1, <2>1, <2>2
  <2> QED
    BY <2>1, <2>2, <2>3 DEF Bounds
<1>8. CASE StoreId
  <2>1. /\ UNCHANGED <<pc, left, id, placed>> /\ storing \in TwsIds /\ MayBeNext(storing)
        /\ m_orderId' = storing
    BY <1>8 DEF StoreId, caller, TypeOK, Known
  <2>2. storing + left <= MaxId /\ storing \in Int
    BY <2>1, NextIsBounded DEF TwsIds
  <2>3. storing + (IF pc = "place" THEN left - 1 ELSE left) <= MaxId
    BY <1>1, <2>2
  <2> QED
    BY <2>1, <2>3 DEF Bounds
<1>9. CASE TwsHandle \/ TwsOrderEvent \/ NextValidId \/ OrderReported \/ UNCHANGED vars
  <2>1. UNCHANGED <<pc, left, id, m_orderId, placed>>
    BY <1>9 DEF TwsHandle, TwsOrderEvent, NextValidId, OrderReported, vars, caller, shared
  <2> QED
    BY <2>1 DEF Bounds
<1> QED
  BY <1>2, <1>3, <1>4, <1>5, <1>6, <1>7, <1>8, <1>9 DEF Next, Program

-----------------------------------------------------------------------------
(* The id of a call.                                                       *)

\* What a new callback does to the answers under way.
LEMMA NextIdsAppend ==
  ASSUME coming \in Seq(Callback), NEW m \in Callback, coming' = Append(coming, m)
  PROVE  /\ Len(coming) \in Nat /\ Len(coming') = Len(coming) + 1
         /\ coming'[Len(coming')] = m
         /\ \A k \in 1 .. Len(coming) : coming'[k] = coming[k]
         /\ NextIds' = IF m.call = "nextValidId" THEN NextIds \cup {Len(coming')} ELSE NextIds
<1>1. /\ Len(coming) \in Nat /\ Len(coming') = Len(coming) + 1
      /\ coming'[Len(coming')] = m
      /\ \A k \in 1 .. Len(coming) : coming'[k] = coming[k]
  BY AppendProperties, LenProperties
<1> QED
  BY <1>1 DEF NextIds

\* What is left of them when the first callback has been taken.
LEMMA NextIdsTaken ==
  ASSUME OrderIdsAssumption, TypeOK, NextValidId \/ OrderReported
  PROVE  /\ \A k \in NextIds : k \in 1 .. Len(coming) /\ (k # 1 => k - 1 \in NextIds')
         /\ \A k \in NextIds' : k + 1 \in NextIds /\ k \in Nat \ {0} /\ coming'[k] = coming[k + 1]
         /\ 1 \in NextIds <=> NextValidId
<1>1. /\ Len(coming) \in Nat \ {0} /\ Len(coming') = Len(coming) - 1
      /\ Head(coming) = coming[1]
      /\ \A i \in 1 .. Len(coming) - 1 : coming'[i] = coming[i + 1]
  BY TakenFacts
<1>2. ASSUME NEW k \in NextIds
      PROVE  k \in 1 .. Len(coming) /\ (k # 1 => k - 1 \in NextIds')
  <2>1. k \in 1 .. Len(coming) /\ coming[k].call = "nextValidId"
    BY DEF NextIds
  <2>2. k # 1 => k - 1 \in 1 .. Len(coming) - 1 /\ coming'[k - 1] = coming[k]
    BY <1>1, <2>1
  <2> QED
    BY <1>1, <2>1, <2>2 DEF NextIds
<1>3. ASSUME NEW k \in NextIds'
      PROVE  k + 1 \in NextIds /\ k \in Nat \ {0} /\ coming'[k] = coming[k + 1]
  <2>1. k \in 1 .. Len(coming) - 1 /\ coming'[k].call = "nextValidId"
    BY <1>1 DEF NextIds
  <2>2. k + 1 \in 1 .. Len(coming) /\ coming'[k] = coming[k + 1] /\ k \in Nat \ {0}
    BY <1>1, <2>1
  <2> QED
    BY <2>1, <2>2 DEF NextIds
<1>4. 1 \in NextIds <=> NextValidId
  <2>1. 1 \in NextIds <=> Head(coming).call = "nextValidId"
    BY <1>1 DEF NextIds
  <2> QED
    BY <2>1 DEF NextValidId, OrderReported
<1> QED
  BY <1>2, <1>3, <1>4

LEMMA WaitStep ==
  ASSUME OrderIdsAssumption, TypeOK, Known, Bounds, WaitInv, [Next]_vars
  PROVE  WaitInv'
<1>1. requests \in Seq(Request) /\ coming \in Seq(Callback)
  BY QueueTypes
<1>2. CASE Quiet \/ Place
  <2>1. pc' # "wait"
    BY Zenon, <1>2 DEF Quiet, WaitForNextValidId, Send, Clear, Unflag, Ready, TimeOut, Take,
       Increment, Confirm, Collect, Place, Goto, Loop
  <2> QED
    BY <2>1 DEF WaitInv
<1>3. CASE Ask
  <2>1. requests' = Append(requests, ReqIds) /\ ReqIds \in Request
    BY <1>3 DEF Ask, Request
  <2>2. Len(requests') = Len(requests) + 1 /\ requests'[Len(requests')] = ReqIds
    BY <1>1, <2>1, AppendProperties, LenProperties
  <2>3. Len(requests) \in Nat
    BY <1>1, LenProperties
  <2>4. requests' # <<>>
    BY <2>2, <2>3
  <2> QED
    BY <2>2, <2>4 DEF WaitInv, Requested
<1>4. CASE TwsHandle
  <2>1. /\ UNCHANGED <<pc, m_orderId, storing, placed>> /\ requests # <<>>
        /\ requests' = Tail(requests)
    BY <1>4 DEF TwsHandle, caller, shared
  <2> SUFFICES ASSUME pc = "wait"
               PROVE  Requested' \/ Answered'
    BY <2>1 DEF WaitInv
  <2>2. requests[Len(requests)] = ReqIds
    BY <2>1 DEF WaitInv, Requested, Answered
  <2>3. /\ Len(requests) \in Nat \ {0} /\ Len(requests') = Len(requests) - 1
        /\ Head(requests) = requests[1]
        /\ \A i \in 1 .. Len(requests) - 1 : requests'[i] = requests[i + 1]
        /\ requests' \in Seq(Request)
    BY <1>1, <2>1, HeadTailProperties, LenProperties, EmptySeq
  <2>4. CASE Len(requests) # 1
    <3>1. requests' # <<>> /\ requests'[Len(requests')] = ReqIds
      BY <2>2, <2>3, <2>4, EmptySeq
    <3> QED
      BY <3>1 DEF Requested
  <2>5. CASE Len(requests) = 1
    <3>1. requests' = <<>> /\ Head(requests) = ReqIds
      BY <2>2, <2>3, <2>5, EmptySeq
    <3>2. PICK m \in Callback : /\ coming' = Append(coming, m)
                                /\ m.call = "nextValidId" /\ m.id = NextId
      BY <1>4, <3>1, HandleFacts
    <3>3. Above(NextId)
      <4>1. Range(requests) = {ReqIds} \cup Range(requests') /\ Range(requests') = {}
        <5>1. Range(requests) = {Head(requests)} \cup Range(requests')
          BY <1>4, HandleFacts
        <5>2. Range(<<>>) = {}
          BY DEF Range
        <5> QED
          BY <3>1, <5>1, <5>2
      <4>2. placed \subseteq orders
        BY <4>1, QueueTypes DEF Known, TypeOK
      <4> QED
        BY <4>2, NextIdFacts DEF Above
    <3>4. /\ coming'[Len(coming')].id = NextId /\ Len(coming') \in NextIds'
          /\ \A l \in NextIds' : l <= Len(coming')
      <4>1. /\ coming'[Len(coming')] = m
            /\ Len(coming') = Len(coming) + 1 /\ Len(coming) \in Nat
            /\ NextIds' = NextIds \cup {Len(coming')}
        BY <1>1, <3>2, NextIdsAppend
      <4>2. \A l \in NextIds' : l <= Len(coming')
        BY <4>1 DEF NextIds
      <4> QED
        BY <3>2, <4>1, <4>2
    <3>5. Above(coming[Len(coming)].id)'
      BY <2>1, <3>3, <3>4 DEF Above
    <3> QED
      BY <3>1, <3>4, <3>5 DEF Answered
  <2> QED
    BY <2>4, <2>5
<1>5. CASE TwsOrderEvent
  <2>1. UNCHANGED <<pc, m_orderId, storing, requests, placed>>
    BY <1>5 DEF TwsOrderEvent, shared
  <2>2. PICK m \in Callback : coming' = Append(coming, m) /\ m.call = "order"
    BY <1>5, EventFacts
  <2>3. /\ NextIds' = NextIds /\ \A k \in NextIds : coming'[k] = coming[k]
    <3>1. NextIds' = NextIds /\ \A k \in 1 .. Len(coming) : coming'[k] = coming[k]
      BY <1>1, <2>2, NextIdsAppend
    <3> QED
      BY <3>1 DEF NextIds
  <2>4. Requested => Requested'
    BY <2>1 DEF Requested
  <2>5. Answered => Answered'
    BY <2>1, <2>3 DEF Answered, Above
  <2> QED
    BY <2>1, <2>4, <2>5 DEF WaitInv
<1>6. CASE NextValidId
  <2>1. /\ UNCHANGED <<pc, m_orderId, requests, placed>> /\ storing = 0
        /\ storing' = coming[1].id
    BY <1>6, TakenFacts DEF NextValidId
  <2>2. storing' # 0
    <3>1. Head(coming) \in Range(coming) /\ Head(coming).call = "nextValidId"
      BY <1>6, TakenFacts DEF NextValidId
    <3> QED
      BY <1>6, <3>1 DEF Known, NextValidId, TwsIds
  <2>3. Requested => Requested'
    BY <2>1 DEF Requested
  <2>4. Answered => Answered'
    <3> SUFFICES ASSUME Answered
                 PROVE  Answered'
      OBVIOUS
    <3>1. PICK k \in NextIds : Above(coming[k].id) /\ \A l \in NextIds : l <= k
      BY <1>6, NextIdsTaken DEF Answered
    <3>2. CASE k = 1
      <4>1. NextIds' = {}
        BY <1>6, <3>1, <3>2, NextIdsTaken
      <4>2. Above(storing)'
        BY <2>1, <3>1, <3>2 DEF Above
      <4> QED
        BY <2>1, <2>2, <4>1, <4>2 DEF Answered
    <3>3. CASE k # 1
      <4>1. PICK j \in NextIds' : j = k - 1 /\ k = j + 1
        <5>1. k \in Int /\ k - 1 \in NextIds'
          BY <1>6, <3>1, <3>3, NextIdsTaken
        <5>2. k = (k - 1) + 1
          BY <5>1
        <5> QED
          BY <5>1, <5>2
      <4>2. Above(coming[j].id)'
        <5>1. coming'[j] = coming[k]
          BY <1>6, <4>1, NextIdsTaken
        <5> QED
          BY <2>1, <3>1, <5>1 DEF Above
      <4>3. ASSUME NEW l \in NextIds'
            PROVE  l <= j
        <5>1. l + 1 <= j + 1 /\ l \in Nat /\ j \in Nat
          BY <1>6, <3>1, <4>1, NextIdsTaken
        <5> QED
          BY <5>1
      <4> QED
        BY <2>1, <4>1, <4>2, <4>3 DEF Answered
    <3> QED
      BY <3>2, <3>3
  <2> QED
    BY <2>1, <2>3, <2>4 DEF WaitInv
<1>7. CASE OrderReported
  <2>1. UNCHANGED <<pc, m_orderId, storing, requests, placed>>
    BY <1>7 DEF OrderReported
  <2>2. Requested => Requested'
    BY <2>1 DEF Requested
  <2>3. 1 \notin NextIds
    BY <1>7, NextIdsTaken DEF OrderReported, NextValidId
  <2>4. CASE Answered /\ NextIds = {}
    <3>1. NextIds' = {}
      BY <1>7, <2>4, NextIdsTaken
    <3> QED
      BY <2>1, <2>4, <3>1 DEF Answered, Above, WaitInv
  <2>5. CASE Answered /\ NextIds # {}
    <3>1. PICK k \in NextIds : Above(coming[k].id) /\ \A l \in NextIds : l <= k
      BY <2>5 DEF Answered
    <3>2. PICK j \in NextIds' : k = j + 1
      <4>1. k \in Int /\ k - 1 \in NextIds'
        BY <1>7, <2>3, <3>1, NextIdsTaken
      <4>2. k = (k - 1) + 1
        BY <4>1
      <4> QED
        BY <4>1, <4>2
    <3>3. Above(coming[j].id)'
      <4>1. coming'[j] = coming[k]
        BY <1>7, <3>2, NextIdsTaken
      <4> QED
        BY <2>1, <3>1, <4>1 DEF Above
    <3>4. ASSUME NEW l \in NextIds'
          PROVE  l <= j
      <4>1. l + 1 <= j + 1 /\ l \in Nat /\ j \in Nat
        BY <1>7, <3>1, <3>2, NextIdsTaken
      <4> QED
        BY <4>1
    <3> QED
      BY <2>1, <2>5, <3>3, <3>4 DEF Answered, WaitInv
  <2> QED
    BY <2>1, <2>2, <2>4, <2>5 DEF WaitInv
<1>8. CASE StoreId
  <2>1. /\ UNCHANGED <<pc, requests, coming, placed>> /\ storing # 0 /\ storing' = 0
        /\ m_orderId' = storing /\ NextIds' = NextIds
    BY <1>8 DEF StoreId, NextIds
  <2> QED
    BY <2>1 DEF WaitInv, Requested, Answered, Above
<1>9. CASE UNCHANGED vars
  <2>1. /\ UNCHANGED <<pc, m_orderId, storing, requests, coming, placed>> /\ NextIds' = NextIds
    BY <1>9 DEF vars, shared, tws, NextIds
  <2> QED
    BY <2>1 DEF WaitInv, Requested, Answered, Above
<1> QED
  BY <1>2, <1>3, <1>4, <1>5, <1>6, <1>7, <1>8, <1>9 DEF Next, Program, Quiet

LEMMA SettledStep ==
  ASSUME OrderIdsAssumption, TypeOK, Known, Bounds, WaitInv, SettledInv, [Next]_vars
  PROVE  SettledInv'
<1>1. /\ requests \in Seq(Request) /\ coming \in Seq(Callback) /\ ReqIds \notin Ids
      /\ ToSet(requests) = Range(requests) /\ ToSet(coming) = Range(coming)
      /\ ToSet(requests)' = Range(requests') /\ ToSet(coming)' = Range(coming')
  BY QueueTypes DEF ToSet, Range
<1>2. IdUnderWay <=> \/ ReqIds \in Range(requests)
                     \/ \E m \in Range(coming) : m.call = "nextValidId"
                     \/ storing # 0
  BY <1>1 DEF IdUnderWay
<1>3. IdUnderWay' <=> \/ ReqIds \in Range(requests')
                      \/ \E m \in Range(coming') : m.call = "nextValidId"
                      \/ storing' # 0
  BY <1>1 DEF IdUnderWay
<1>4. Quiet \/ UNCHANGED vars => (IdUnderWay' <=> IdUnderWay) /\ placed' = placed
  BY <1>2, <1>3, QuietFacts DEF tws, vars
<1>5. CASE Ready
  <2>1. /\ pc = "wait" /\ settled' = ~IdUnderWay /\ pc' \in {"take", "confirm"}
        /\ m_orderId' = m_orderId
    BY <1>5 DEF Ready, Goto, Loop, shared
  <2>2. ~IdUnderWay => Above(m_orderId)
    <3>1. Requested => IdUnderWay
      <4>1. Requested => Len(requests) \in DOMAIN requests
        BY <1>1, LenProperties, EmptySeq DEF Requested
      <4> QED
        BY <1>2, <4>1 DEF Requested, Range
    <3>2. NextIds # {} => IdUnderWay
      BY <1>1, <1>2, LenProperties DEF NextIds, Range
    <3> QED
      BY <1>2, <2>1, <3>1, <3>2 DEF WaitInv, Answered
  <2> QED
    BY <1>4, <1>5, <2>1, <2>2 DEF SettledInv, Placing, Above, Quiet
<1>6. CASE WaitForNextValidId \/ Send \/ Clear \/ Unflag \/ Ask \/ TimeOut \/ Collect
  <2>1. settled' = FALSE
    BY <1>6 DEF SettledInv, Placing, WaitForNextValidId, Send, Clear, Unflag, Ask, TimeOut,
       Collect, caller
  <2> QED
    BY <2>1 DEF SettledInv
<1>7. CASE Take
  <2>1. /\ pc = "take" /\ pc' = "increment" /\ id' = m_orderId
        /\ UNCHANGED <<settled, m_orderId>>
    BY <1>7 DEF Take, Goto, shared
  <2> QED
    BY <1>4, <1>7, <2>1 DEF SettledInv, Placing, Above, Quiet
<1>8. CASE Increment
  <2>1. /\ pc = "increment" /\ pc' = "place" /\ m_orderId' = id + 1
        /\ UNCHANGED <<settled, id>>
    BY <1>8 DEF Increment, Goto, caller
  <2> QED
    BY <1>4, <1>8, <2>1 DEF SettledInv, Placing, Above, Quiet
<1>9. CASE Confirm
  <2>1. pc' = "collect" /\ UNCHANGED settled /\ pc = "confirm"
    BY <1>9 DEF Confirm, Goto, caller
  <2> QED
    BY <1>4, <1>9, <2>1 DEF SettledInv, Placing, Quiet
<1>10. CASE Place
  <2>1. /\ pc = "place" /\ pc' \in {"take", "confirm"} /\ placed' = placed \cup {id}
        /\ requests' = Append(requests, id) /\ id \in Ids
        /\ UNCHANGED <<settled, m_orderId, coming, storing>>
    BY <1>10 DEF Place, Loop, shared, TypeOK
  <2>2. Range(requests') = Range(requests) \cup {id} /\ id # ReqIds
    BY <1>1, <2>1, RangeAppend DEF Request
  <2>3. IdUnderWay' <=> IdUnderWay
    BY <1>2, <1>3, <2>1, <2>2
  <2>4. m_orderId = id + 1 /\ Above(id) => Above(m_orderId)'
    BY <2>1, QueueTypes DEF Above, TypeOK
  <2> QED
    BY <2>1, <2>3, <2>4 DEF SettledInv, Placing
<1>11. CASE TwsHandle
  <2>1. /\ UNCHANGED <<pc, id, settled, m_orderId, storing, placed>>
    BY <1>11 DEF TwsHandle, caller, shared
  <2>2. settled => ~IdUnderWay'
    <3>1. Range(requests) = {Head(requests)} \cup Range(requests')
      BY <1>11, HandleFacts
    <3>2. Head(requests) # ReqIds =>
            \E m \in Callback : m.call = "order" /\ Range(coming') = Range(coming) \cup {m}
      BY <1>11, HandleFacts
    <3> QED
      BY <1>2, <1>3, <2>1, <3>1, <3>2 DEF SettledInv
  <2> QED
    BY <2>1, <2>2 DEF SettledInv, Placing, Above
<1>12. CASE TwsOrderEvent
  <2>1. UNCHANGED <<pc, id, settled, m_orderId, storing, requests, placed>>
    BY <1>12 DEF TwsOrderEvent, caller, shared
  <2>2. PICK m \in Callback : m.call = "order" /\ Range(coming') = Range(coming) \cup {m}
    BY <1>12, EventFacts
  <2>3. IdUnderWay' <=> IdUnderWay
    BY <1>2, <1>3, <2>1, <2>2
  <2> QED
    BY <2>1, <2>3 DEF SettledInv, Placing, Above
<1>13. CASE NextValidId \/ StoreId
  <2>1. IdUnderWay /\ settled' = settled
    <3>1. NextValidId => Head(coming) \in Range(coming) /\ Head(coming).call = "nextValidId"
      BY TakenFacts DEF NextValidId
    <3> QED
      BY <1>2, <1>13, <3>1 DEF NextValidId, StoreId, caller
  <2> QED
    BY <2>1 DEF SettledInv
<1>14. CASE OrderReported
  <2>1. UNCHANGED <<pc, id, settled, m_orderId, storing, requests, placed>>
    BY <1>14 DEF OrderReported, caller
  <2>2. Range(coming') \subseteq Range(coming)
    BY <1>14, TakenFacts
  <2> QED
    BY <1>2, <1>3, <2>1, <2>2 DEF SettledInv, Placing, Above
<1>15. CASE UNCHANGED vars
  <2>1. UNCHANGED <<pc, id, settled, m_orderId, placed>>
    BY <1>15 DEF vars, caller, shared
  <2> QED
    BY <1>4, <1>15, <2>1 DEF SettledInv, Placing, Above
<1> QED
  BY <1>5, <1>6, <1>7, <1>8, <1>9, <1>10, <1>11, <1>12, <1>13, <1>14, <1>15 DEF Next, Program

-----------------------------------------------------------------------------
(* What a call returns.                                                    *)

LEMMA MineStep ==
  ASSUME OrderIdsAssumption, TypeOK, Known, Bounds, SettledInv, MineInv, [Next]_vars
  PROVE  MineInv'
<1>1. CASE WaitForNextValidId \/ Send \/ Clear \/ Unflag \/ Ask \/ TimeOut
  <2>1. /\ mine = {} /\ mine' = mine
    BY <1>1 DEF MineInv, Placing, WaitForNextValidId, Send, Clear, Unflag, Ask, TimeOut, caller
  <2> QED
    BY <2>1 DEF MineInv
<1>2. CASE Ready \/ Collect
  <2>1. mine' = {}
    BY <1>2 DEF MineInv, Placing, Ready, Collect
  <2> QED
    BY <2>1 DEF MineInv
<1>3. CASE Take \/ Increment \/ Confirm
  <2>1. /\ Placing /\ Placing'
        /\ UNCHANGED <<mine, settled, orders, coming, combOpenOrd>>
    BY <1>3 DEF Placing, Take, Increment, Confirm, Goto, shared, caller, tws
  <2> QED
    BY <2>1 DEF MineInv
<1>4. CASE Place
  <2>1. /\ Placing /\ Placing' /\ pc = "place" /\ mine' = mine \cup {id}
        /\ UNCHANGED <<settled, orders, coming, combOpenOrd>>
    BY <1>4 DEF Placing, Place, shared, Loop
  <2>2. settled => id \notin orders
    BY <2>1, QueueTypes DEF SettledInv, Above, TypeOK
  <2> QED
    BY <2>1, <2>2 DEF MineInv
<1>5. CASE TwsHandle
  <2>1. UNCHANGED <<pc, mine, settled, combOpenOrd>>
    BY <1>5 DEF TwsHandle, caller, shared
  <2>2. PICK m \in Callback :
          /\ Range(coming') = Range(coming) \cup {m}
          /\ \/ orders' = orders
             \/ m.call = "order" /\ orders' = orders \cup {m.id}
    BY <1>5, HandleFacts
  <2>3. m = [call |-> m.call, id |-> m.id]
    BY DEF Callback
  <2> QED
    BY <2>1, <2>2, <2>3 DEF MineInv, Placing
<1>6. CASE TwsOrderEvent
  <2>1. UNCHANGED <<pc, mine, settled, orders, combOpenOrd>>
    BY <1>6 DEF TwsOrderEvent, caller, shared
  <2>2. Range(coming) \subseteq Range(coming')
    BY <1>6, EventFacts
  <2> QED
    BY <2>1, <2>2 DEF MineInv, Placing
<1>7. CASE NextValidId \/ OrderReported
  <2>1. UNCHANGED <<pc, mine, settled, orders>> /\ combOpenOrd \subseteq combOpenOrd'
    BY <1>7 DEF NextValidId, OrderReported, caller
  <2>2. Range(coming) = {Head(coming)} \cup Range(coming')
    BY <1>7, TakenFacts
  <2>3. ASSUME NEW i, Head(coming) = [call |-> "order", id |-> i]
        PROVE  i \in combOpenOrd'
    BY <1>7, <2>3 DEF NextValidId, OrderReported
  <2> QED
    BY <2>1, <2>2, <2>3 DEF MineInv, Placing
<1>8. CASE StoreId \/ UNCHANGED vars
  <2>1. UNCHANGED <<pc, mine, settled, orders, coming, combOpenOrd>>
    BY <1>8 DEF StoreId, vars, caller, shared, tws
  <2> QED
    BY <2>1 DEF MineInv, Placing
<1> QED
  BY <1>1, <1>2, <1>3, <1>4, <1>5, <1>6, <1>7, <1>8 DEF Next, Program

-----------------------------------------------------------------------------
(* The theorems.                                                           *)

LEMMA InitInv ==
  ASSUME OrderIdsAssumption, Init
  PROVE  Inv
<1> DEFINE first == [call |-> "nextValidId", id |-> 1]
<1>1. /\ pc = "start" /\ left = 0 /\ id = 0 /\ mine = {} /\ settled = FALSE
      /\ m_orderId = -1 /\ b_nextValidId = FALSE /\ combOpenOrd = {} /\ storing = 0
      /\ requests = <<>> /\ coming = <<first>> /\ orders = {} /\ placed = {}
  BY DEF Init
<1>2. MaxOrders \in Nat \ {0} /\ MaxId \in Nat \ {0}
  BY DEF OrderIdsAssumption
<1>3. {0, 1, -1} \subseteq Ids /\ 1 \in TwsIds
  BY <1>2 DEF Ids, TwsIds
<1>4. first \in Callback /\ first.call = "nextValidId" /\ first.id = 1
  BY <1>3 DEF Callback
<1> HIDE DEF first
<1>5. Range(requests) = {} /\ Range(coming) = {first} /\ coming \in Seq(Callback)
      /\ requests \in Seq(Request)
  <2>1. Range(<<>>) = {} /\ <<>> \in Seq(Request)
    BY DEF Range
  <2>2. Range(<<first>>) = {first} /\ <<first>> \in Seq(Callback)
    BY <1>4 DEF Range
  <2> QED
    BY <1>1, <2>1, <2>2
<1>6. TypeOK
  <2>1. /\ requests \in Seq(Ids \cup {ReqIds})
        /\ coming \in Seq([call : {"nextValidId", "order"}, id : Ids])
    BY <1>5 DEF Request, Callback
  <2>2. /\ pc = "start" /\ left = 0 /\ id = 0 /\ mine = {} /\ settled = FALSE
        /\ m_orderId = -1 /\ b_nextValidId = FALSE /\ combOpenOrd = {} /\ storing = 0
        /\ orders = {} /\ placed = {}
    BY <1>1
  <2>3. left \in 0 .. MaxOrders /\ id \in Ids /\ m_orderId \in Ids
    BY <1>2, <1>3, <2>2
  <2> QED
    BY <2>1, <2>2, <2>3 DEF TypeOK
<1>7. Known
  BY <1>1, <1>3, <1>4, <1>5 DEF Known, MayBeNext
<1>8. Bounds
  BY <1>1, <1>2 DEF Bounds
<1>9. WaitInv /\ SettledInv /\ MineInv
  BY <1>1 DEF WaitInv, SettledInv, MineInv
<1> QED
  BY <1>6, <1>7, <1>8, <1>9 DEF Inv

LEMMA Invariance == OrderIdsAssumption => (Spec => []Inv)
<1> SUFFICES ASSUME OrderIdsAssumption
             PROVE  Spec => []Inv
  OBVIOUS
<1>1. Init => Inv
  BY InitInv
<1>2. Inv /\ [Next]_vars => Inv'
  BY TypedStep, KnownStep, BoundsStep, WaitStep, SettledStep, MineStep DEF Inv
<1> QED
  BY <1>1, <1>2, PTL DEF Spec

\* Every variable of a call keeps its type: an id that a call uses up is never beyond
\* those that there are, and the reader only stores ids of orders TWS has got.
THEOREM TypeCorrect == Spec => []TypeOK
<1>1. Inv => TypeOK
  BY DEF Inv
<1> QED
  BY <1>1, Invariance, OrderIdsAssumption, PTL

\* The orders of a call whose answer to reqIds has been stored, with no other under way,
\* get ids that no order had before.
THEOREM SettledAreNew == Spec => []SettledIdsAreNew
<1>1. Inv => SettledIdsAreNew
  BY QueueTypes, OrderIdsAssumption DEF Inv, SettledInv, Above, SettledIdsAreNew, TypeOK
<1> QED
  BY <1>1, Invariance, OrderIdsAssumption, PTL

\* Such a call returns the id of every one of its orders that TWS has reported, unless
\* the report is still under way.
THEOREM ReportedReturned == Spec => []ReportedAreReturned
<1>1. Inv => ReportedAreReturned
  BY DEF Inv, MineInv, ReportedAreReturned, ToSet, Range
<1> QED
  BY <1>1, Invariance, OrderIdsAssumption, PTL
=============================================================================
