------------------------------ MODULE OrderIds ------------------------------
(***************************************************************************)
(* Sending orders.  sendLmtOrder and its like ask TWS for the next order   *)
(* id, wait for it or give up, number the orders with EW.m_orderId++, wait *)
(* for a flag that no answer of TWS to an order sets, and return the ids   *)
(* of the orders that callbacks have put into combOpenOrd meanwhile.       *)
(* m_orderId, b_nextValidId and combOpenOrd are written by the callbacks   *)
(* of the reader thread, without a lock.                                   *)
(*                                                                         *)
(* Source: queryNextOrderId and sendXxxOrder in IBAPI.cpp, myEWrapper.cpp. *)
(***************************************************************************)
EXTENDS Integers, Sequences, SequencesExt, FiniteSets

CONSTANTS MaxOrders, \* orders in a call
          MaxId,     \* bound: order ids
          MaxComing  \* bound: a call begins, and TWS reports an order, below this backlog

ASSUME OrderIdsAssumption ==
  /\ MaxOrders \in Nat \ {0} /\ MaxId \in Nat /\ MaxComing \in Nat
  /\ MaxOrders < MaxId  \* the first call has ids

VARIABLES
  pc,            \* the program's next statement
  left,          \* orders the call has still to place
  id,            \* the value of EW.m_orderId++
  m_orderId,
  b_nextValidId,
  combOpenOrd,   \* the keys of the map
  storing,       \* the id that nextValidId is about to store, or 0
  requests,      \* to TWS: the ids of orders, and ReqIds
  coming,        \* callbacks under way: [call, id]
  orders,        \* the ids of the orders TWS has got
  placed,        \* the ids of all orders placed
  mine,          \* those of this call
  settled        \* the call has its id, and nextValidId is not under way

caller == <<id, mine, settled>>
shared == <<m_orderId, b_nextValidId, combOpenOrd>>
tws == <<storing, requests, coming, orders>>
vars == <<pc, left, caller, shared, tws, placed>>

ReqIds == -2
TwsIds == 1 .. MaxId   \* the ids TWS gives
Ids    == -1 .. MaxId  \* MyEWrapper begins with -1

TypeOK ==
  /\ pc \in {"start", "idle", "clear", "unflag", "ask", "wait", "take", "increment",
             "place", "confirm", "collect"}
  /\ left \in 0 .. MaxOrders /\ (pc \in {"take", "increment", "place"} => left > 0)
  /\ id \in Ids /\ m_orderId \in Ids
  /\ b_nextValidId \in BOOLEAN /\ settled \in BOOLEAN
  /\ storing \in TwsIds \cup {0}
  /\ requests \in Seq(Ids \cup {ReqIds})
  /\ coming \in Seq([call : {"nextValidId", "order"}, id : Ids])
  /\ mine \subseteq placed /\ placed \subseteq Ids /\ orders \subseteq placed
  /\ combOpenOrd \subseteq orders

\* TWS sends a nextValidId to a client that connects.
Init ==
  /\ pc = "start" /\ left = 0 /\ id = 0 /\ mine = {} /\ settled = FALSE
  /\ m_orderId = -1 /\ b_nextValidId = FALSE /\ combOpenOrd = {} /\ storing = 0
  /\ requests = <<>> /\ coming = <<[call |-> "nextValidId", id |-> 1]>>
  /\ orders = {} /\ placed = {}

-----------------------------------------------------------------------------
(* The program's thread.                                                   *)

Goto(step) == pc' = step /\ UNCHANGED left

\* waitForNextValidId, without a limit.
WaitForNextValidId ==
  /\ pc = "start" /\ b_nextValidId
  /\ Goto("idle")
  /\ UNCHANGED <<caller, shared, tws, placed>>

\* sendLmtOrder, sendLOOOrder, .. with a list of orders.
Send ==
  /\ pc = "idle"
  /\ \A i \in placed \cup {m_orderId} : i + MaxOrders < MaxId
  /\ Len(requests) + Len(coming) < MaxComing
  /\ pc' = "clear" /\ left' \in 0 .. MaxOrders
  /\ UNCHANGED <<caller, shared, tws, placed>>

\* EW.combOpenOrd.clear().
Clear ==
  /\ pc = "clear"
  /\ combOpenOrd' = {}
  /\ Goto("unflag")
  /\ UNCHANGED <<caller, m_orderId, b_nextValidId, tws, placed>>

\* queryNextOrderId clears the flag,
Unflag ==
  /\ pc = "unflag"
  /\ b_nextValidId' = FALSE
  /\ Goto("ask")
  /\ UNCHANGED <<caller, m_orderId, combOpenOrd, tws, placed>>

\* sends reqIds,
Ask ==
  /\ pc = "ask"
  /\ requests' = Append(requests, ReqIds)
  /\ Goto("wait")
  /\ UNCHANGED <<caller, shared, storing, coming, orders, placed>>

\* A next valid id has still to be asked for, sent or stored.
IdUnderWay ==
  \/ ReqIds \in ToSet(requests)
  \/ \E m \in ToSet(coming) : m.call = "nextValidId"
  \/ storing # 0

\* The loop over the orders, with n of them left.
Loop(n) == IF n = 0 THEN "confirm" ELSE "take"

\* and polls the flag until it is set,
Ready ==
  /\ pc = "wait" /\ b_nextValidId
  /\ settled' = ~IdUnderWay
  /\ Goto(Loop(left))
  /\ UNCHANGED <<id, mine, shared, tws, placed>>

\* or gives up; the call goes on with the id there is.
TimeOut ==
  /\ pc = "wait" /\ ~b_nextValidId
  /\ Goto(Loop(left))
  /\ UNCHANGED <<caller, shared, tws, placed>>

\* EW.m_orderId++ reads the id
Take ==
  /\ pc = "take"
  /\ id' = m_orderId
  /\ Goto("increment")
  /\ UNCHANGED <<mine, settled, shared, tws, placed>>

\* Mutant: the id is not incremented.
IncrementNothing ==
  /\ pc = "increment"
  /\ Goto("place")
  /\ UNCHANGED <<caller, shared, tws, placed>>

\* and stores it incremented.
Increment ==
  /\ pc = "increment"
  /\ m_orderId' = id + 1
  /\ Goto("place")
  /\ UNCHANGED <<caller, b_nextValidId, combOpenOrd, tws, placed>>

\* Mutant: the loop goes on behind the last order.
PlaceOneMore ==
  /\ pc = "place"
  /\ requests' = Append(requests, id)
  /\ placed' = placed \cup {id} /\ mine' = mine \cup {id}
  /\ left' = left - 1
  /\ pc' = Loop(left)
  /\ UNCHANGED <<id, settled, shared, storing, coming, orders>>

\* Mutant: the map is cleared before each order.
PlaceClearing ==
  /\ pc = "place"
  /\ requests' = Append(requests, id)
  /\ placed' = placed \cup {id} /\ mine' = mine \cup {id}
  /\ left' = left - 1
  /\ pc' = Loop(left')
  /\ combOpenOrd' = {}
  /\ UNCHANGED <<id, settled, m_orderId, b_nextValidId, storing, coming, orders>>

\* placeOrder.
Place ==
  /\ pc = "place"
  /\ requests' = Append(requests, id)
  /\ placed' = placed \cup {id} /\ mine' = mine \cup {id}
  /\ left' = left - 1
  /\ pc' = Loop(left')
  /\ UNCHANGED <<id, settled, shared, storing, coming, orders>>

\* b_openOrdReady, which no answer to an order sets: the loop ends at its limit.
Confirm ==
  /\ pc = "confirm"
  /\ Goto("collect")
  /\ UNCHANGED <<caller, shared, tws, placed>>

\* The keys of combOpenOrd are returned.
Collect ==
  /\ pc = "collect"
  /\ Goto("idle")
  /\ id' = 0 /\ mine' = {} /\ settled' = FALSE
  /\ UNCHANGED <<shared, tws, placed>>

Program ==
  \/ WaitForNextValidId \/ Send \/ Clear \/ Unflag \/ Ask \/ Ready \/ TimeOut
  \/ Take \/ Increment \/ Place \/ Confirm \/ Collect

-----------------------------------------------------------------------------
(* TWS and the reader thread.                                              *)

\* Above the ids of all orders TWS has got.
NextId == CHOOSE n \in TwsIds : /\ n - 1 \in orders \cup {0}
                                /\ \A i \in orders : i < n

\* TWS answers reqIds, or gets an order and reports it: openOrder.
TwsHandle ==
  /\ requests # <<>>
  /\ LET head == Head(requests)
     IN  IF head = ReqIds
           THEN /\ coming' = Append(coming, [call |-> "nextValidId", id |-> NextId])
                /\ UNCHANGED orders
           ELSE /\ coming' = Append(coming, [call |-> "order", id |-> head])
                /\ orders' = orders \cup {head}
  /\ requests' = Tail(requests)
  /\ UNCHANGED <<pc, left, caller, shared, storing, placed>>

\* Something happens to an order: orderStatus.
TwsOrderEvent ==
  /\ Len(requests) + Len(coming) < MaxComing
  /\ \E i \in orders : coming' = Append(coming, [call |-> "order", id |-> i])
  /\ UNCHANGED <<pc, left, caller, shared, storing, requests, orders, placed>>

\* nextValidId sets the flag first,
NextValidId ==
  /\ storing = 0 /\ coming # <<>> /\ Head(coming).call = "nextValidId"
  /\ b_nextValidId' = TRUE
  /\ storing' = Head(coming).id
  /\ coming' = Tail(coming)
  /\ UNCHANGED <<pc, left, caller, m_orderId, combOpenOrd, requests, orders, placed>>

\* then the id.
StoreId ==
  /\ storing # 0
  /\ m_orderId' = storing /\ storing' = 0
  /\ UNCHANGED <<pc, left, caller, b_nextValidId, combOpenOrd, requests, coming, orders,
                 placed>>

\* openOrder and orderStatus put the order into the map.
OrderReported ==
  /\ storing = 0 /\ coming # <<>> /\ Head(coming).call = "order"
  /\ combOpenOrd' = combOpenOrd \cup {Head(coming).id}
  /\ coming' = Tail(coming)
  /\ UNCHANGED <<pc, left, caller, m_orderId, b_nextValidId, storing, requests, orders,
                 placed>>

Next ==
  Program \/ TwsHandle \/ TwsOrderEvent \/ NextValidId \/ StoreId \/ OrderReported

Spec == Init /\ [][Next]_vars

-----------------------------------------------------------------------------
(* Properties.                                                             *)

\* If the answer to reqIds has been stored when the wait for it ends, and no other is
\* under way, then the orders of the call get ids that no order had before
\* (queryNextOrderId, nextValidId, EW.m_orderId++).
SettledIdsAreNew == pc = "place" /\ settled => id \notin placed

\* An id identifies an order (Order.h): no two orders are placed with the same.
OrderIdsAreNew == pc = "place" => id \notin placed

\* The ids a call returns, by which its orders are later watched and modified, are not
\* too few: those of all its orders that TWS has reported (combOpenOrd, cleared before
\* the orders are sent and filled by openOrder and orderStatus).
ReportedAreReturned ==
  pc = "collect" /\ settled =>
    \A i \in mine \cap orders :
      [call |-> "order", id |-> i] \in ToSet(coming) \/ i \in combOpenOrd
==============================================================================
