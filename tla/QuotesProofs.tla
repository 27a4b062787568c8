---------------------------- MODULE QuotesProofs ----------------------------
(***************************************************************************)
(* Theorems about Quotes for any tickers, any lists of them and any number *)
(* of ticks under way: the types, that no subscription stays, and that the *)
(* quotes a query returns are those of its tickers.                        *)
(***************************************************************************)
EXTENDS Quotes, SequenceFacts

Request == [ticker : Tickers \cup {NoTicker}, id : Ids]

\* TypeOK is not inductive: a query under way has a list with a ticker in it.
Typed == TypeOK /\ (pc # "idle" => list # <<>>)

\* The query has asked for the ticker of an id and has not cancelled it.
Open(i) ==
  \/ pc = "ask" /\ i < index
  \/ pc = "wait" /\ i < Len(list)
  \/ pc = "cancel" /\ index <= i /\ i < Len(list)

Behind(k, i) == \A m \in k + 1 .. Len(requests) : requests[m].id # i

\* TWS has, or has been sent, the cancellation of what was asked for under the id.
Cancelled(i) ==
  \/ subs[i] = NoTicker /\ Behind(0, i)
  \/ \E k \in 1 .. Len(requests) :
       requests[k].id = i /\ requests[k].ticker = NoTicker /\ Behind(k, i)

SubsInv == \A i \in Ids : Open(i) \/ Cancelled(i)

\* The data of the used ids are those of their tickers, and what has been counted has
\* come.
DataAgree ==
  /\ \A i \in Used, f \in Fields : tickData[i][f] \in {NoTicker, TickerOf(i)}
  /\ pc # "unflag" => \A i \in Used : \A f \in counted[i] : tickData[i][f] # NoTicker

\* A tick that is stored and not counted is still what tickData holds.
StoringAgrees ==
  storing # <<>> /\ storing[1].id \in Used =>
    /\ storing[1].ticker = TickerOf(storing[1].id)
    /\ tickData[storing[1].id][storing[1].field] = storing[1].ticker

\* A query that did not give up has counted all it wants.
AllCounted ==
  pc \in {"cancel", "read", "idle"} /\ ~timedOut => \A i \in Used : Wanted(kind) \subseteq counted[i]

Copied(i) == i \in Used /\ (pc = "idle" \/ (pc = "read" /\ i < index))

\* What has been copied to the map is right.
MapRight ==
  \A i \in Used : Copied(i) =>
    /\ TickerOf(i) \in DOMAIN quoteMap
    /\ \A f \in Fields :
         /\ quoteMap[TickerOf(i)][f] \in {TickerOf(i), NoTicker}
         /\ ~timedOut /\ f \in Wanted(kind) => quoteMap[TickerOf(i)][f] # NoTicker

CleanInv ==
  /\ pc = "clear" => ~clean
  /\ list = <<>> => ~clean
  /\ clean => Agrees /\ DataAgree /\ StoringAgrees /\ AllCounted /\ MapRight

Inv == Typed /\ SubsInv /\ CleanInv

-----------------------------------------------------------------------------
(* Types.                                                                  *)

\* The list is one of the bounded ones.
LEMMA ListFacts ==
  ASSUME QuotesAssumption, list \in Lists \cup {<<>>}
  PROVE  /\ Len(list) \in 0 .. MaxList /\ MaxList \in Nat
         /\ list # <<>> => Len(list) > 0
         /\ Used \subseteq Ids
         /\ \A i \in Used : TickerOf(i) \in Tickers
<1>1. MaxList \in Nat
  BY DEF QuotesAssumption
<1>2. CASE list = <<>>
  <2>1. Len(list) = 0
    BY <1>2, EmptySeq
  <2> QED
    BY <1>1, <1>2, <2>1 DEF Used
<1>3. CASE list \in Lists
  <2>1. PICK m \in 0 .. MaxList : list \in [1 .. m -> Tickers]
    BY <1>3 DEF QuotesAssumption, BoundedSeq, SeqOf
  <2>2. list \in Seq(Tickers) /\ Len(list) = m
    BY <1>1, <2>1
  <2>3. list # <<>>
    BY <1>3 DEF QuotesAssumption
  <2> QED
    BY <1>1, <2>1, <2>2, <2>3, EmptySeq DEF Used, Ids, TickerOf
<1> QED
  BY <1>2, <1>3

\* The variables that TypeOK says more of than that they have a type.
LEMMA TypedStep ==
  ASSUME QuotesAssumption, Typed, [Next]_vars
  PROVE  Typed'
<1> USE DEF Typed, TypeOK, program
<1>1. /\ Len(list) \in 0 .. MaxList /\ MaxList \in Nat /\ MaxList > 0
      /\ list # <<>> => Len(list) > 0
      /\ \A i \in Used : TickerOf(i) \in Tickers /\ i \in Ids
  BY ListFacts DEF QuotesAssumption
<1>2. CASE Begin
  <2>1. list' \in Lists /\ pc' = "clear" /\ index' = 0 /\ Len(list') \in Nat /\ list' # <<>>
    <3>1. list' \in Lists
      BY <1>2 DEF Begin
    <3>2. PICK m \in 0 .. MaxList : list' \in [1 .. m -> Tickers]
      BY <3>1 DEF QuotesAssumption, BoundedSeq, SeqOf
    <3>3. Len(list') \in Nat
      BY <1>1, <3>2
    <3> QED
      BY <1>2, <3>1, <3>3 DEF Begin, QuotesAssumption
  <2>2. \A t \in DOMAIN quoteMap' : FALSE
    BY <1>2 DEF Begin
  <2>3. /\ kind' \in Kinds /\ timedOut' = FALSE /\ clean' = FALSE
        /\ UNCHANGED <<tickData, counted, requests, subs, ticks, storing>>
    BY <1>2 DEF Begin
  <2>4. /\ index' \in 0 .. Len(list')
        /\ pc' \notin {"ask", "cancel", "read"}
        /\ pc' \in {"idle", "clear", "unflag", "ask", "wait", "cancel", "read"}
    BY <2>1
  <2>5. timedOut' \in BOOLEAN /\ clean' \in BOOLEAN /\ list' \in Lists \cup {<<>>}
    BY <2>1, <2>3
  <2>6. TypeOK'
    BY <2>2, <2>3, <2>4, <2>5
  <2> QED
    BY <2>1, <2>6
<1>3. CASE Clear
  BY <1>1, <1>3 DEF Clear, NoData
<1>4. CASE Unflag
  BY <1>1, <1>4 DEF Unflag, Goto
<1>5. CASE Ask
  <2>1. [ticker |-> TickerOf(index), id |-> index] \in Request
    BY <1>1, <1>5 DEF Ask, Request, Used, Ids
  <2>2. requests' \in Seq(Request)
    BY <1>5, <2>1, RangeAppend DEF Ask, Request
  <2> QED
    BY <1>1, <1>5, <2>2 DEF Ask, Turn, Request
<1>6. CASE WaitEnds
  BY <1>1, <1>6 DEF WaitEnds, Goto
<1>7. CASE TimeOut
  BY <1>1, <1>7 DEF TimeOut
<1>8. CASE Cancel
  <2>1. [ticker |-> NoTicker, id |-> index] \in Request
    BY <1>1, <1>8 DEF Cancel, Request, Used, Ids
  <2>2. requests' \in Seq(Request)
    BY <1>8, <2>1, RangeAppend DEF Cancel, Request
  <2> QED
    BY <1>1, <1>8, <2>2 DEF Cancel, Turn, Request
<1>9. CASE Read
  <2>1. index \in Used /\ index \in Ids /\ TickerOf(index) \in Tickers
    BY <1>1, <1>9 DEF Read, Used
  <2>2. tickData[index] \in [Fields -> Tickers \cup {NoTicker}]
    BY <2>1
  <2>3. \A t \in DOMAIN quoteMap' :
          t \in Tickers /\ quoteMap'[t] \in [Fields -> Tickers \cup {NoTicker}]
    BY <1>9, <2>1, <2>2 DEF Read
  <2>4. /\ pc' \in {"idle", "read"} /\ index' \in 0 .. Len(list)
        /\ pc' = "read" => index' < Len(list)
    BY <1>1, <1>9 DEF Read, Turn
  <2> QED
    BY <1>9, <2>3, <2>4 DEF Read, Turn
<1>10. CASE TwsRequest
  <2>1. Head(requests) \in Request /\ Tail(requests) \in Seq(Request)
    BY <1>10, RangeTail DEF TwsRequest, Request
  <2>2. subs' \in [Ids -> Tickers \cup {NoTicker}]
    BY <1>10, <2>1 DEF TwsRequest, Request
  <2> QED
    BY <1>10, <2>1, <2>2 DEF TwsRequest, Request
<1>11. CASE TwsTick
  <2>1. PICK t \in Tick : ticks' = Append(ticks, t)
    BY <1>11 DEF TwsTick, Tick
  <2>2. ticks' \in Seq(Tick)
    BY <2>1, RangeAppend
  <2> QED
    BY <1>11, <2>2 DEF TwsTick
<1>12. CASE Store
  <2>1. Head(ticks) \in Tick /\ Tail(ticks) \in Seq(Tick)
    BY <1>12, RangeTail DEF Store
  <2>2. tickData' \in [Ids -> [Fields -> Tickers \cup {NoTicker}]]
    BY <1>12, <2>1 DEF Store, Tick
  <2> QED
    BY <1>12, <2>1, <2>2 DEF Store
<1>13. CASE Count
  <2>1. storing[1] \in Tick
    BY <1>13 DEF Count
  <2>2. counted' \in [Ids -> SUBSET Fields]
    BY <1>13, <2>1 DEF Count, Tick
  <2> QED
    BY <1>13, <2>2 DEF Count
<1>14. CASE UNCHANGED vars
  BY <1>14 DEF vars
<1> QED
  BY <1>2, <1>3, <1>4, <1>5, <1>6, <1>7, <1>8, <1>9, <1>10, <1>11, <1>12, <1>13, <1>14
     DEF Next, Program

-----------------------------------------------------------------------------
(* Subscriptions.                                                          *)

\* A cancellation at the end of the queue; and a request for another id.
LEMMA CancelledAppend ==
  ASSUME Typed, NEW i \in Ids, NEW r \in Request,
         requests' = Append(requests, r), subs' = subs,
         r.id # i \/ r.ticker = NoTicker,
         r.id = i \/ Cancelled(i)
  PROVE  Cancelled(i)'
<1>1. /\ requests \in Seq(Request) /\ Len(requests) \in Nat
      /\ Len(requests') = Len(requests) + 1
      /\ \A k \in 1 .. Len(requests) : requests'[k] = requests[k]
      /\ requests'[Len(requests) + 1] = r
  BY AppendProperties, LenProperties DEF Typed, TypeOK, Request
<1>2. CASE r.id = i
  <2>1. Behind(Len(requests), i)'
    BY <1>1 DEF Behind
  <2>2. requests'[Len(requests')].id = i /\ requests'[Len(requests')].ticker = NoTicker
    BY <1>1, <1>2
  <2>3. Len(requests') \in 1 .. Len(requests')
    BY <1>1
  <2> QED
    BY <2>1, <2>2, <2>3 DEF Cancelled
<1>3. CASE r.id # i
  <2>1. ASSUME NEW k \in 0 .. Len(requests), Behind(k, i)
        PROVE  Behind(k, i)'
    BY <1>1, <1>3, <2>1 DEF Behind
  <2>2. CASE subs[i] = NoTicker /\ Behind(0, i)
    BY <1>1, <2>1, <2>2 DEF Cancelled
  <2>3. ASSUME NEW k \in 1 .. Len(requests),
               requests[k].id = i, requests[k].ticker = NoTicker, Behind(k, i)
        PROVE  Cancelled(i)'
    <3>1. Behind(k, i)' /\ requests'[k] = requests[k] /\ k \in 1 .. Len(requests')
      BY <1>1, <2>1, <2>3
    <3> QED
      BY <2>3, <3>1 DEF Cancelled
  <2> QED
    BY <1>3, <2>2, <2>3 DEF Cancelled
<1> QED
  BY <1>2, <1>3

LEMMA CancelledTail ==
  ASSUME Typed, NEW i \in Ids, requests # <<>>, requests' = Tail(requests),
         subs' = [subs EXCEPT ![Head(requests).id] = Head(requests).ticker],
         Cancelled(i)
  PROVE  Cancelled(i)'
<1>1. /\ requests \in Seq(Request) /\ Len(requests) \in Nat \ {0}
      /\ Len(requests') = Len(requests) - 1
      /\ \A k \in 1 .. Len(requests) - 1 : requests'[k] = requests[k + 1]
      /\ Head(requests) = requests[1] /\ requests[1] \in Request
  <2>1. requests \in Seq(Request)
    BY DEF Typed, TypeOK, Request
  <2>2. Len(requests) \in Nat \ {0}
    BY <2>1, EmptySeq
  <2> QED
    BY <2>1, <2>2, HeadTailProperties
<1>2. subs \in [Ids -> Tickers \cup {NoTicker}] /\ requests[1].id \in Ids
  BY <1>1 DEF Typed, TypeOK, Request
<1>3. CASE subs[i] = NoTicker /\ Behind(0, i)
  BY <1>1, <1>2, <1>3 DEF Cancelled, Behind
<1>4. ASSUME NEW k \in 1 .. Len(requests),
             requests[k].id = i, requests[k].ticker = NoTicker, Behind(k, i)
      PROVE  Cancelled(i)'
  <2>1. CASE k = 1
    <3>1. subs'[i] = NoTicker
      BY <1>1, <1>2, <1>4, <2>1
    <3>2. \A m \in 1 .. Len(requests') : requests'[m].id # i
      BY <1>1, <1>4, <2>1 DEF Behind
    <3> QED
      BY <3>1, <3>2 DEF Cancelled, Behind
  <2>2. CASE k # 1
    <3>1. k - 1 \in 1 .. Len(requests') /\ requests'[k - 1] = requests[k]
      BY <1>1, <2>2
    <3>2. \A m \in k .. Len(requests') : requests'[m].id # i
      <4> SUFFICES ASSUME NEW m \in k .. Len(requests')
                   PROVE  requests'[m].id # i
        OBVIOUS
      <4>1. m + 1 \in k + 1 .. Len(requests) /\ requests'[m] = requests[m + 1]
        BY <1>1
      <4> QED
        BY <1>4, <4>1 DEF Behind
    <3>3. Behind(k - 1, i)'
      BY <1>1, <3>2 DEF Behind
    <3> QED
      BY <1>4, <3>1, <3>3 DEF Cancelled
  <2> QED
    BY <2>1, <2>2
<1> QED
  BY <1>3, <1>4 DEF Cancelled

\* An id is only asked for while the query that will cancel it is under way.
LEMMA SubsStep ==
  ASSUME QuotesAssumption, Typed, SubsInv, [Next]_vars
  PROVE  SubsInv'
<1>1. /\ Len(list) \in 0 .. MaxList /\ MaxList \in Nat
      /\ \A i \in Used : TickerOf(i) \in Tickers /\ i \in Ids
      /\ index \in Nat /\ (pc \in {"ask", "cancel", "read"} => index < Len(list))
  BY ListFacts DEF Typed, TypeOK
<1>2. SUFFICES ASSUME NEW i \in Ids
               PROVE  Open(i)' \/ Cancelled(i)'
  BY DEF SubsInv
<1>3. Open(i) \/ Cancelled(i)
  BY DEF SubsInv
<1>4. ASSUME UNCHANGED <<requests, subs>>, Open(i) => Open(i)'
      PROVE  Open(i)' \/ Cancelled(i)'
  BY <1>3, <1>4 DEF Cancelled, Behind
<1> USE DEF program
<1>5. CASE Begin
  BY <1>4, <1>5 DEF Begin, Open
<1>6. CASE Clear \/ Unflag \/ Read
  BY <1>4, <1>6 DEF Clear, Unflag, Read, Goto, Open
<1>7. CASE Ask
  <2>1. [ticker |-> TickerOf(index), id |-> index] \in Request
    BY <1>1, <1>7 DEF Ask, Request, Used
  <2>2. CASE i = index
    BY <1>1, <1>2, <1>7, <2>2 DEF Ask, Turn, Open, Ids
  <2>3. CASE i # index /\ Cancelled(i)
    BY <1>7, <2>1, <2>3, CancelledAppend DEF Ask
  <2>4. CASE i # index /\ Open(i)
    BY <1>1, <1>2, <1>7, <2>4 DEF Ask, Turn, Open, Ids
  <2> QED
    BY <1>3, <2>2, <2>3, <2>4
<1>8. CASE WaitEnds
  BY <1>1, <1>2, <1>4, <1>8 DEF WaitEnds, Goto, Open, Ids
<1>9. CASE TimeOut
  BY <1>1, <1>2, <1>4, <1>9 DEF TimeOut, Open, Ids
<1>10. CASE Cancel
  <2>1. [ticker |-> NoTicker, id |-> index] \in Request
    BY <1>1, <1>10 DEF Cancel, Request, Used
  <2>2. CASE i = index \/ Cancelled(i)
    BY <1>10, <2>1, <2>2, CancelledAppend DEF Cancel
  <2>3. CASE i # index /\ Open(i)
    BY <1>1, <1>2, <1>10, <2>3 DEF Cancel, Turn, Open, Ids
  <2> QED
    BY <1>3, <2>2, <2>3
<1>11. CASE TwsRequest
  BY <1>3, <1>11, CancelledTail DEF TwsRequest, Open
<1>12. CASE TwsTick \/ Store \/ Count \/ UNCHANGED vars
  BY <1>4, <1>12 DEF TwsTick, Store, Count, vars, Open
<1> QED
  BY <1>5, <1>6, <1>7, <1>8, <1>9, <1>10, <1>11, <1>12 DEF Next, Program

-----------------------------------------------------------------------------
(* What a query returns.                                                   *)

Rest == DataAgree /\ StoringAgrees /\ AllCounted /\ MapRight

\* A request keeps what is under way right, if it is for the query's own ticker.
LEMMA AgreesRequest ==
  ASSUME Typed, Agrees, NEW r \in Request, requests' = Append(requests, r),
         r.id \in Used => r.ticker \in {NoTicker, TickerOf(r.id)},
         UNCHANGED <<list, subs, ticks>>
  PROVE  Agrees'
<1>1. requests \in Seq(Request)
  BY DEF Typed, TypeOK, Request
<1>2. Range(requests') = Range(requests) \cup {r}
  BY <1>1, RangeAppend
<1> QED
  BY <1>2 DEF Agrees, Used, TickerOf

\* The polls, requests and copies of the query leave its data right.
LEMMA CleanProgram ==
  ASSUME QuotesAssumption, Typed, Agrees, Rest,
         Unflag \/ Ask \/ WaitEnds \/ TimeOut \/ Cancel
  PROVE  Agrees' /\ Rest'
<1> USE DEF Rest, program
<1>1. /\ Len(list) \in 0 .. MaxList /\ MaxList \in Nat
      /\ \A i \in Used : TickerOf(i) \in Tickers /\ i \in Ids
      /\ index \in Nat /\ (pc \in {"ask", "cancel", "read"} => index < Len(list))
  BY ListFacts DEF Typed, TypeOK
<1>2. CASE Unflag
  <2>1. /\ pc' = "ask" /\ UNCHANGED <<list, tickData, requests, subs, ticks, storing>>
        /\ \A i \in Ids : counted'[i] = {}
    BY <1>2 DEF Unflag, Goto
  <2>2. Agrees' /\ DataAgree'
    BY <1>1, <2>1 DEF Agrees, DataAgree, Used, TickerOf
  <2>3. StoringAgrees' /\ AllCounted' /\ MapRight'
    BY <2>1 DEF StoringAgrees, AllCounted, MapRight, Copied, Used, TickerOf
  <2> QED
    BY <2>2, <2>3
<1>3. CASE Ask
  <2>1. [ticker |-> TickerOf(index), id |-> index] \in Request
    BY <1>1, <1>3 DEF Ask, Request, Used
  <2>2. /\ pc \in {"ask", "wait"} /\ pc' \in {"ask", "wait"}
        /\ UNCHANGED <<list, kind, timedOut, tickData, counted, subs, ticks, storing>>
    BY <1>3 DEF Ask, Turn
  <2>3. Agrees'
    BY <1>3, <2>1, <2>2, AgreesRequest DEF Ask
  <2>4. DataAgree' /\ StoringAgrees'
    BY <2>2 DEF DataAgree, StoringAgrees, Used, TickerOf
  <2>5. AllCounted' /\ MapRight'
    BY <2>2 DEF AllCounted, MapRight, Copied
  <2> QED
    BY <2>3, <2>4, <2>5
<1>4. CASE WaitEnds \/ TimeOut
  <2>1. /\ pc = "wait" /\ pc' = "cancel"
        /\ UNCHANGED <<list, kind, tickData, counted, requests, subs, ticks, storing>>
        /\ ~timedOut' => Ready
    BY <1>4 DEF WaitEnds, TimeOut, Goto, Typed, TypeOK
  <2>2. Agrees' /\ DataAgree' /\ StoringAgrees'
    BY <2>1 DEF Agrees, DataAgree, StoringAgrees, Used, TickerOf
  <2>3. AllCounted' /\ MapRight'
    BY <2>1 DEF AllCounted, Ready, Wanted, Used, MapRight, Copied
  <2> QED
    BY <2>2, <2>3
<1>5. CASE Cancel
  <2>1. [ticker |-> NoTicker, id |-> index] \in Request
    BY <1>1, <1>5 DEF Cancel, Request, Used
  <2>2. /\ pc = "cancel" /\ (pc' = "cancel" \/ (pc' = "read" /\ index' = 0))
        /\ UNCHANGED <<list, kind, timedOut, tickData, counted, subs, ticks, storing>>
    BY <1>5 DEF Cancel, Turn
  <2>3. Agrees'
    BY <1>5, <2>1, <2>2, AgreesRequest DEF Cancel
  <2>4. DataAgree' /\ StoringAgrees' /\ AllCounted'
    BY <2>2 DEF DataAgree, StoringAgrees, AllCounted, Wanted, Used, TickerOf
  <2>5. \A i \in Used' : ~Copied(i)'
    BY <1>1, <2>2 DEF Copied, Used
  <2> QED
    BY <2>3, <2>4, <2>5 DEF MapRight
<1> QED
  BY <1>2, <1>3, <1>4, <1>5

\* A copied ticker's data are complete: it may be copied over another copy of its own.
LEMMA CleanRead ==
  ASSUME QuotesAssumption, Typed, Agrees, Rest, Read
  PROVE  Agrees' /\ Rest'
<1> USE DEF Rest, program
<1>1. /\ Len(list) \in Nat
      /\ \A i \in Used : TickerOf(i) \in Tickers /\ i \in Ids
      /\ index \in Nat /\ index < Len(list) /\ index \in Used
  <2>1. /\ Len(list) \in 0 .. MaxList /\ MaxList \in Nat
        /\ \A i \in Used : TickerOf(i) \in Tickers /\ i \in Ids
    BY ListFacts DEF Typed, TypeOK
  <2>2. index \in 0 .. Len(list) /\ index < Len(list)
    BY DEF Typed, TypeOK, Read
  <2> QED
    BY <2>1, <2>2 DEF Used
<1>2. /\ pc = "read" /\ UNCHANGED <<list, kind, timedOut, tickData, counted, requests, subs,
                                     ticks, storing>>
      /\ \/ index + 1 < Len(list) /\ index' = index + 1 /\ pc' = "read"
         \/ index + 1 >= Len(list) /\ pc' = "idle"
  BY <1>1 DEF Read, Turn
<1>3. Agrees' /\ DataAgree' /\ StoringAgrees' /\ AllCounted'
  BY <1>2 DEF Agrees, DataAgree, StoringAgrees, AllCounted, Wanted, Used, TickerOf
<1>4. ASSUME NEW f \in Fields
      PROVE  /\ tickData[index][f] \in {NoTicker, TickerOf(index)}
             /\ ~timedOut /\ f \in Wanted(kind) => tickData[index][f] # NoTicker
  BY <1>1, <1>2 DEF DataAgree, AllCounted
<1>5. ASSUME NEW i \in Used, Copied(i)'
      PROVE  i = index \/ Copied(i)
  BY <1>1, <1>2, <1>5 DEF Copied, Used
<1>6. /\ DOMAIN quoteMap' = DOMAIN quoteMap \cup {TickerOf(index)}
      /\ \A t \in DOMAIN quoteMap' :
           quoteMap'[t] = IF t = TickerOf(index) THEN tickData[index] ELSE quoteMap[t]
  BY DEF Read
<1>7. ASSUME NEW i \in Used, Copied(i)'
      PROVE  /\ TickerOf(i) \in DOMAIN quoteMap'
             /\ \A f \in Fields :
                  /\ quoteMap'[TickerOf(i)][f] \in {TickerOf(i), NoTicker}
                  /\ ~timedOut /\ f \in Wanted(kind) => quoteMap'[TickerOf(i)][f] # NoTicker
  <2>1. CASE TickerOf(i) = TickerOf(index)
    BY <1>4, <1>6, <2>1
  <2>2. CASE TickerOf(i) # TickerOf(index)
    BY <1>5, <1>6, <1>7, <2>2 DEF MapRight
  <2> QED
    BY <2>1, <2>2
<1>8. MapRight'
  BY <1>2, <1>7 DEF MapRight, Used, TickerOf, Wanted
<1> QED
  BY <1>3, <1>8

\* TWS handles a request or sends a tick, or the reader stores or counts one.
LEMMA CleanOthers ==
  ASSUME QuotesAssumption, Typed, Agrees, Rest, TwsRequest \/ TwsTick \/ Store \/ Count
  PROVE  Agrees' /\ Rest'
<1> USE DEF Rest, program
<1>1. /\ requests \in Seq(Request) /\ ticks \in Seq(Tick)
      /\ subs \in [Ids -> Tickers \cup {NoTicker}] /\ counted \in [Ids -> SUBSET Fields]
      /\ tickData \in [Ids -> [Fields -> Tickers \cup {NoTicker}]]
      /\ \A i \in Used : TickerOf(i) \in Tickers /\ i \in Ids
      /\ UNCHANGED <<kind, list, pc, index, timedOut, clean, quoteMap>>
  BY ListFacts DEF Typed, TypeOK, Request, TwsRequest, TwsTick, Store, Count
<1>2. MapRight'
  BY <1>1 DEF MapRight, Copied, Used, TickerOf, Wanted
<1>3. CASE TwsRequest
  <2>1. /\ Head(requests) \in Request
        /\ Range(requests) = {Head(requests)} \cup Range(requests')
    BY <1>1, <1>3, RangeTail DEF TwsRequest
  <2>2. \A i \in Ids : subs'[i] = IF i = Head(requests).id THEN Head(requests).ticker ELSE subs[i]
    BY <1>1, <1>3, <2>1 DEF TwsRequest, Request
  <2>3. UNCHANGED <<tickData, counted, ticks, storing>>
    BY <1>3 DEF TwsRequest
  <2>4. Agrees'
    <3>1. \A i \in Used : subs'[i] \in {NoTicker, TickerOf(i)}
      BY <1>1, <2>1, <2>2 DEF Agrees
    <3>2. \A r \in Range(requests') : r.id \in Used => r.ticker \in {NoTicker, TickerOf(r.id)}
      BY <2>1 DEF Agrees
    <3> QED
      BY <1>1, <2>3, <3>1, <3>2 DEF Agrees, Used, TickerOf
  <2>5. DataAgree' /\ StoringAgrees' /\ AllCounted'
    BY <1>1, <2>3 DEF DataAgree, StoringAgrees, AllCounted, Wanted, Used, TickerOf
  <2> QED
    BY <1>2, <2>4, <2>5
<1>4. CASE TwsTick
  <2>1. PICK t \in Tick : ticks' = Append(ticks, t) /\ t.ticker = subs[t.id]
    <3>1. PICK i \in Ids, f \in Fields :
                 subs[i] # NoTicker
                 /\ ticks' = Append(ticks, [id |-> i, field |-> f, ticker |-> subs[i]])
      BY <1>4 DEF TwsTick
    <3>2. [id |-> i, field |-> f, ticker |-> subs[i]] \in Tick
      BY <1>1, <3>1 DEF Tick
    <3> QED
      BY <3>1, <3>2
  <2>2. Range(ticks') = Range(ticks) \cup {t}
    BY <1>1, <2>1, RangeAppend
  <2>3. UNCHANGED <<tickData, counted, requests, subs, storing>>
    BY <1>4 DEF TwsTick
  <2>4. t.ticker # NoTicker
    BY DEF Tick, QuotesAssumption
  <2>5. Agrees'
    BY <1>1, <2>1, <2>2, <2>3, <2>4 DEF Agrees, Used, TickerOf
  <2>6. DataAgree' /\ StoringAgrees' /\ AllCounted'
    BY <1>1, <2>3 DEF DataAgree, StoringAgrees, AllCounted, Wanted, Used, TickerOf
  <2> QED
    BY <1>2, <2>5, <2>6
<1>5. CASE Store
  <2> DEFINE t == Head(ticks)
  <2>1. t \in Tick /\ Range(ticks) = {t} \cup Range(ticks')
    BY <1>1, <1>5, RangeTail DEF Store
  <2>2. \A i \in Ids, f \in Fields :
          tickData'[i][f] = IF i = t.id /\ f = t.field THEN t.ticker ELSE tickData[i][f]
    BY <1>1, <1>5, <2>1 DEF Store, Tick
  <2>3. UNCHANGED <<counted, requests, subs>> /\ storing' = <<t>>
    BY <1>5 DEF Store
  <2>4. t.id \in Ids /\ t.field \in Fields /\ t.ticker \in Tickers
    BY <2>1 DEF Tick
  <2>5. t.id \in Used => t.ticker = TickerOf(t.id)
    BY <2>1 DEF Agrees
  <2> HIDE DEF t
  <2>6. Agrees'
    BY <1>1, <2>1, <2>3 DEF Agrees, Used, TickerOf
  <2>7. DataAgree'
    <3>1. \A i \in Used, f \in Fields : tickData'[i][f] \in {NoTicker, TickerOf(i)}
      BY <1>1, <2>2, <2>5 DEF DataAgree
    <3>2. ASSUME pc # "unflag", NEW i \in Used, NEW f \in counted[i]
          PROVE  tickData'[i][f] # NoTicker
      <4>1. i \in Ids /\ f \in Fields /\ tickData[i][f] # NoTicker
        BY <1>1, <3>2 DEF DataAgree
      <4> QED
        BY <2>2, <2>4, <4>1 DEF QuotesAssumption
    <3> QED
      BY <1>1, <2>3, <3>1, <3>2 DEF DataAgree, Used, TickerOf
  <2>8. StoringAgrees'
    BY <1>1, <2>2, <2>3, <2>4, <2>5 DEF StoringAgrees, Used, TickerOf
  <2>9. AllCounted'
    BY <1>1, <2>3 DEF AllCounted, Wanted, Used
  <2> QED
    BY <1>2, <2>6, <2>7, <2>8, <2>9
<1>6. CASE Count
  <2>1. /\ storing[1] \in Tick /\ storing # <<>> /\ storing' = <<>>
        /\ UNCHANGED <<tickData, requests, subs, ticks>>
    BY <1>6 DEF Count, Typed, TypeOK
  <2>2. \A i \in Ids :
          counted'[i] = IF i = storing[1].id THEN counted[i] \cup {storing[1].field}
                                              ELSE counted[i]
    BY <1>1, <1>6, <2>1 DEF Count, Tick
  <2>3. storing[1].id \in Used => tickData[storing[1].id][storing[1].field] # NoTicker
    BY <2>1 DEF StoringAgrees, Tick, QuotesAssumption
  <2>4. Agrees' /\ StoringAgrees'
    BY <1>1, <2>1 DEF Agrees, StoringAgrees, Used, TickerOf
  <2>5. DataAgree'
    <3>1. ASSUME pc # "unflag", NEW i \in Used, NEW f \in counted'[i]
          PROVE  tickData[i][f] # NoTicker
      <4>1. CASE f \in counted[i]
        BY <3>1, <4>1 DEF DataAgree
      <4>2. CASE f \notin counted[i]
        BY <1>1, <2>2, <2>3, <3>1, <4>2
      <4> QED
        BY <4>1, <4>2
    <3> QED
      BY <1>1, <2>1, <3>1 DEF DataAgree, Used, TickerOf
  <2>6. AllCounted'
    BY <1>1, <2>2 DEF AllCounted, Wanted, Used
  <2> QED
    BY <1>2, <2>4, <2>5, <2>6
<1> QED
  BY <1>3, <1>4, <1>5, <1>6

LEMMA CleanStep ==
  ASSUME QuotesAssumption, Typed, CleanInv, [Next]_vars
  PROVE  CleanInv'
<1> USE DEF program
<1>1. CASE Begin
  BY <1>1 DEF Begin, CleanInv
<1>2. CASE Clear
  <2>1. /\ pc' = "unflag" /\ list' = list /\ pc = "clear" /\ list # <<>>
        /\ clean' => Agrees /\ storing = <<>>
        /\ \A i \in Ids, f \in Fields : tickData'[i][f] = NoTicker
        /\ UNCHANGED <<counted, requests, subs, ticks, storing>>
    BY <1>2 DEF Clear, NoData, Typed
  <2>2. \A i \in Used : i \in Ids
    BY ListFacts DEF Typed, TypeOK
  <2>3. clean' => Agrees' /\ StoringAgrees'
    BY <2>1 DEF Agrees, StoringAgrees, Used, TickerOf
  <2>4. DataAgree' /\ AllCounted' /\ MapRight'
    BY <2>1, <2>2 DEF DataAgree, AllCounted, MapRight, Copied, Used, TickerOf
  <2> QED
    BY <2>1, <2>3, <2>4 DEF CleanInv
<1>3. CASE (Unflag \/ Ask \/ WaitEnds \/ TimeOut \/ Cancel \/ Read)
            \/ (TwsRequest \/ TwsTick \/ Store \/ Count)
  <2>1. clean' = clean /\ list' = list /\ (pc' = "clear" => pc = "clear")
    BY <1>3 DEF Unflag, Ask, WaitEnds, TimeOut, Cancel, Read, Goto, Turn, TwsRequest, TwsTick,
                Store, Count
  <2>2. ASSUME clean
        PROVE  Agrees' /\ Rest'
    BY <1>3, <2>2, CleanProgram, CleanRead, CleanOthers DEF CleanInv, Rest
  <2> QED
    BY <2>1, <2>2 DEF CleanInv, Rest
<1>4. CASE UNCHANGED vars
  BY <1>4 DEF vars, CleanInv, Agrees, DataAgree, StoringAgrees, AllCounted, MapRight, Copied,
              Used, TickerOf, Wanted
<1> QED
  BY <1>1, <1>2, <1>3, <1>4 DEF Next, Program

-----------------------------------------------------------------------------
(* The theorems.                                                           *)

LEMMA InitInv == QuotesAssumption /\ Init => Inv
<1> SUFFICES ASSUME QuotesAssumption, Init
             PROVE  Inv
  OBVIOUS
<1>1. Typed
  <2>1. list = <<>> /\ Len(list) = 0
    BY EmptySeq DEF Init
  <2>2. requests \in Seq(Request) /\ ticks \in Seq(Tick)
    BY EmptySeq DEF Init
  <2>3. \A t \in DOMAIN quoteMap : FALSE
    BY DEF Init
  <2>4. /\ tickData \in [Ids -> [Fields -> Tickers \cup {NoTicker}]]
        /\ counted \in [Ids -> SUBSET Fields] /\ subs \in [Ids -> Tickers \cup {NoTicker}]
    BY DEF Init, NoData
  <2>5. /\ kind \in Kinds /\ timedOut \in BOOLEAN /\ clean \in BOOLEAN /\ pc = "idle"
        /\ index \in 0 .. Len(list) /\ storing = <<>> /\ list \in Lists \cup {<<>>}
    <3>1. /\ kind = "quote" /\ timedOut = FALSE /\ clean = FALSE /\ pc = "idle"
          /\ index = 0 /\ storing = <<>> /\ list = <<>>
      BY Zenon DEF Init
    <3>2. kind \in Kinds /\ timedOut \in BOOLEAN /\ clean \in BOOLEAN
      BY <3>1 DEF Kinds
    <3>3. index \in 0 .. Len(list)
      BY <2>1, <3>1
    <3> QED
      BY <3>1, <3>2, <3>3
  <2>6. TypeOK
    BY <2>2, <2>3, <2>4, <2>5 DEF TypeOK, Request
  <2> QED
    BY <2>5, <2>6 DEF Typed
<1>2. SubsInv
  <2>1. Len(requests) = 0
    BY EmptySeq DEF Init
  <2> QED
    BY <2>1 DEF Init, SubsInv, Cancelled, Behind
<1>3. CleanInv
  BY DEF Init, CleanInv
<1> QED
  BY <1>1, <1>2, <1>3 DEF Inv

LEMMA Invariance == Spec => []Inv
<1>1. Init => Inv
  BY InitInv, QuotesAssumption
<1>2. Inv /\ [Next]_vars => Inv'
  BY TypedStep, SubsStep, CleanStep, QuotesAssumption DEF Inv
<1> QED
  BY <1>1, <1>2, PTL DEF Spec

\* The vectors tickData and n_quoteStatus are only written at ids they have, and the
\* loops of queryQuote and queryClose stay inside the list.
THEOREM TypeCorrect == Spec => []TypeOK
<1>1. Inv => TypeOK
  BY DEF Inv, Typed
<1> QED
  BY <1>1, Invariance, PTL

\* However the query ends, once TWS has handled its requests no id is subscribed to:
\* queryQuote and queryClose cancel each id behind what they asked for it.
THEOREM NothingStaysSubscribed == Spec => []NoSubscriptionStays
<1>1. Inv => NoSubscriptionStays
  <2> SUFFICES ASSUME Inv, pc = "idle", requests = <<>>, NEW i \in Ids
               PROVE  subs[i] = NoTicker
    BY DEF NoSubscriptionStays
  <2>1. Len(requests) = 0
    BY EmptySeq
  <2> QED
    BY <2>1 DEF Inv, SubsInv, Open, Cancelled
<1> QED
  BY <1>1, Invariance, PTL

\* A query that begins with nothing of another ticker under way for its ids returns
\* values of its tickers only, and all it waited for unless it gave up.
THEOREM QuotesAreRight == Spec => []QuotesAreOfTicker
<1>1. Inv => QuotesAreOfTicker
  BY DEF Inv, CleanInv, MapRight, Copied, QuotesAreOfTicker, Returned
<1> QED
  BY <1>1, Invariance, PTL
=============================================================================
