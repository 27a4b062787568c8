------------------------------- MODULE Quotes -------------------------------
(***************************************************************************)
(* queryQuote and queryClose: the program subscribes to the market data of *)
(* a list of tickers under the ids 0, 1, .., polls the counters of         *)
(* n_quoteStatus until every field it wants has come for every id, or      *)
(* gives up, cancels the subscriptions and copies tickData.  The reader    *)
(* thread stores a tick in tickData and counts it, without a lock, under   *)
(* the id the tick names.  The next query uses the same ids for other      *)
(* tickers, and ticks of the one before may still come.                    *)
(*                                                                         *)
(* Source: IBAPI.cpp, myEWrapper.cpp.  A step is a statement that reads or *)
(* writes what the threads share.  Of the bid, the ask and their sizes,    *)
(* which are stored, counted and waited for alike, one stands for all.     *)
(***************************************************************************)
EXTENDS Integers, Sequences, SequencesExt, FiniteSets

CONSTANTS Tickers,
          NoTicker, \* the value of what has not come, and of no subscription
          Lists,    \* the lists of tickers that are queried
          MaxList,  \* the longest; the vectors have 30 entries
          MaxTicks, \* bound: ticks under way
          MaxRequests \* bound: a query begins with no more requests under way

ASSUME QuotesAssumption ==
  /\ NoTicker \notin Tickers /\ IsFiniteSet(Tickers)
  /\ Lists \subseteq BoundedSeq(Tickers, MaxList) /\ <<>> \notin Lists
  /\ MaxList \in 1 .. 30 /\ MaxTicks \in Nat /\ MaxRequests \in Nat

Ids    == 0 .. MaxList - 1
Fields == {"ask", "close"}
Kinds  == {"quote", "close"}

\* The fields a query waits for.
Wanted(k) == IF k = "quote" THEN {"ask"} ELSE {"close"}

VARIABLES
  kind,     \* the query
  list,     \* its tickers
  pc,       \* its next statement
  index,    \* of the loop it is in
  timedOut, \* it has given up
  tickData, \* by id and field: the ticker whose value is stored
  counted,  \* by id: the fields with a counter above 0
  quoteMap, \* what it returns: by ticker and field
  requests, \* to TWS: [ticker, id], where NoTicker cancels
  subs,     \* by id: what TWS sends ticks for
  ticks,    \* under way to the reader: [id, field, ticker]
  storing,  \* <<the tick>> the reader has stored and not counted
  clean     \* see Clear

program == <<kind, list, pc, index, timedOut, clean>>
vars == <<program, tickData, counted, quoteMap, requests, subs, ticks, storing>>

NoData == [f \in Fields |-> NoTicker]
Tick   == [id : Ids, field : Fields, ticker : Tickers]

TypeOK ==
  /\ kind \in Kinds /\ list \in Lists \cup {<<>>}
  /\ pc \in {"idle", "clear", "unflag", "ask", "wait", "cancel", "read"}
  /\ timedOut \in BOOLEAN /\ clean \in BOOLEAN
  /\ index \in 0 .. Len(list) /\ (pc \in {"ask", "cancel", "read"} => index < Len(list))
  /\ tickData \in [Ids -> [Fields -> Tickers \cup {NoTicker}]]
  /\ counted \in [Ids -> SUBSET Fields]
  /\ \A t \in DOMAIN quoteMap : t \in Tickers /\ quoteMap[t] \in [Fields -> Tickers \cup {NoTicker}]
  /\ requests \in Seq([ticker : Tickers \cup {NoTicker}, id : Ids])
  /\ subs \in [Ids -> Tickers \cup {NoTicker}]
  /\ ticks \in Seq(Tick) /\ storing \in {<<>>} \cup {<<t>> : t \in Tick}

Init ==
  /\ kind = "quote" /\ list = <<>> /\ pc = "idle" /\ index = 0
  /\ timedOut = FALSE /\ clean = FALSE
  /\ tickData = [i \in Ids |-> NoData] /\ counted = [i \in Ids |-> {}]
  /\ quoteMap = [t \in {} |-> NoData]
  /\ requests = <<>> /\ subs = [i \in Ids |-> NoTicker] /\ ticks = <<>> /\ storing = <<>>

-----------------------------------------------------------------------------
(* The program's thread.                                                   *)

\* A query is called; quoteMap.clear().
Begin ==
  /\ pc = "idle" /\ Len(requests) <= MaxRequests
  /\ kind' \in Kinds /\ list' \in Lists
  /\ pc' = "clear" /\ index' = 0 /\ timedOut' = FALSE /\ clean' = FALSE
  /\ quoteMap' = [t \in {} |-> NoData]
  /\ UNCHANGED <<tickData, counted, requests, subs, ticks, storing>>

Goto(step) == pc' = step /\ index' = 0 /\ UNCHANGED <<kind, list, timedOut, clean>>

\* Mutant: one turn too many.
TurnTooFar(behind) ==
  /\ IF index < Len(list) THEN index' = index + 1 /\ UNCHANGED pc
                          ELSE index' = 0 /\ pc' = behind
  /\ UNCHANGED <<kind, list, timedOut, clean>>

\* The next turn of a loop over the list, or what comes behind it.
Turn(behind) ==
  /\ IF index + 1 < Len(list) THEN index' = index + 1 /\ UNCHANGED pc
                              ELSE index' = 0 /\ pc' = behind
  /\ UNCHANGED <<kind, list, timedOut, clean>>

\* The ticker the query has under an id.
TickerOf(i) == list[i + 1]
Used == 0 .. Len(list) - 1

\* What is under way or still subscribed to from before is for the tickers that this
\* query uses the ids for too.
Agrees ==
  /\ \A i \in Used : subs[i] \in {NoTicker, TickerOf(i)}
  /\ \A t \in Range(ticks) : t.id \in Used => t.ticker = TickerOf(t.id)
  /\ \A r \in Range(requests) : r.id \in Used => r.ticker \in {NoTicker, TickerOf(r.id)}

\* init_tickData resets tickData; clean says that nothing from before can disturb
\* this query,
Clear ==
  /\ pc = "clear"
  /\ tickData' = [i \in Ids |-> NoData]
  /\ pc' = "unflag" /\ index' = 0 /\ clean' = (Agrees /\ storing = <<>>)
  /\ UNCHANGED <<kind, list, timedOut, counted, quoteMap, requests, subs, ticks, storing>>

\* and n_quoteStatus.
Unflag ==
  /\ pc = "unflag"
  /\ counted' = [i \in Ids |-> {}]
  /\ Goto("ask")
  /\ UNCHANGED <<tickData, quoteMap, requests, subs, ticks, storing>>

\* reqMktData(i, ..).
Ask ==
  /\ pc = "ask"
  /\ requests' = Append(requests, [ticker |-> TickerOf(index), id |-> index])
  /\ Turn("wait")
  /\ UNCHANGED <<tickData, counted, quoteMap, subs, ticks, storing>>

\* Mutant: the last ticker alone decides.
ReadyForLast == Wanted(kind) \subseteq counted[Len(list) - 1]

\* Every wanted field has been counted for every ticker.  (The counters only grow
\* while the program looks at them one by one.)
Ready == \A i \in Used : Wanted(kind) \subseteq counted[i]

WaitEnds ==
  /\ pc = "wait" /\ Ready
  /\ Goto("cancel")
  /\ UNCHANGED <<tickData, counted, quoteMap, requests, subs, ticks, storing>>

\* The last poll has found something missing.
TimeOut ==
  /\ pc = "wait" /\ ~Ready
  /\ timedOut' = TRUE
  /\ pc' = "cancel" /\ index' = 0
  /\ UNCHANGED <<kind, list, clean, tickData, counted, quoteMap, requests, subs, ticks, storing>>

\* Mutant: only what has been answered is cancelled.
CancelAnswered ==
  /\ pc = "cancel"
  /\ requests' = IF counted[index] = {} THEN requests
                 ELSE Append(requests, [ticker |-> NoTicker, id |-> index])
  /\ Turn("read")
  /\ UNCHANGED <<tickData, counted, quoteMap, subs, ticks, storing>>

\* cancelMktData(i), whether the query has given up or not.
Cancel ==
  /\ pc = "cancel"
  /\ requests' = Append(requests, [ticker |-> NoTicker, id |-> index])
  /\ Turn("read")
  /\ UNCHANGED <<tickData, counted, quoteMap, subs, ticks, storing>>

\* quoteMap[tickerList[i]] = EW.tickData[i]; behind the loop the map is returned.
Read ==
  /\ pc = "read"
  /\ quoteMap' = [t \in DOMAIN quoteMap \cup {TickerOf(index)} |->
                    IF t = TickerOf(index) THEN tickData[index] ELSE quoteMap[t]]
  /\ Turn("idle")
  /\ UNCHANGED <<tickData, counted, requests, subs, ticks, storing>>

Program == Clear \/ Unflag \/ Ask \/ WaitEnds \/ TimeOut \/ Cancel \/ Read

-----------------------------------------------------------------------------
(* TWS and the reader thread.                                              *)

\* TWS handles a request.
TwsRequest ==
  /\ requests # <<>>
  /\ subs' = [subs EXCEPT ![Head(requests).id] = Head(requests).ticker]
  /\ requests' = Tail(requests)
  /\ UNCHANGED <<program, tickData, counted, quoteMap, ticks, storing>>

\* It sends a tick of a ticker subscribed to.
TwsTick ==
  /\ Len(ticks) < MaxTicks
  /\ \E i \in Ids, f \in Fields :
       /\ subs[i] # NoTicker
       /\ ticks' = Append(ticks, [id |-> i, field |-> f, ticker |-> subs[i]])
  /\ UNCHANGED <<program, tickData, counted, quoteMap, requests, subs, storing>>

\* tickPrice, tickSize: the value is stored,
Store ==
  /\ storing = <<>> /\ ticks # <<>>
  /\ LET t == Head(ticks)
     IN /\ tickData' = [tickData EXCEPT ![t.id][t.field] = t.ticker]
        /\ storing' = <<t>>
  /\ ticks' = Tail(ticks)
  /\ UNCHANGED <<program, counted, quoteMap, requests, subs>>

\* then counted.
Count ==
  /\ storing # <<>>
  /\ counted' = [counted EXCEPT ![storing[1].id] = @ \cup {storing[1].field}]
  /\ storing' = <<>>
  /\ UNCHANGED <<program, tickData, quoteMap, requests, subs, ticks>>

Next == Begin \/ Program \/ TwsRequest \/ TwsTick \/ Store \/ Count

Spec == Init /\ [][Next]_vars

-----------------------------------------------------------------------------
(* Properties.                                                             *)

Returned == pc = "idle" /\ list # <<>>

\* What a query returns for a ticker are values of that ticker, and all the values it
\* waited for unless it gave up; if, when it began, nothing was under way for another
\* ticker under one of its ids and no tick was half stored.
QuotesAreOfTicker ==
  Returned /\ clean =>
    \A i \in Used, f \in Fields :
      /\ quoteMap[TickerOf(i)][f] \in {TickerOf(i), NoTicker}
      /\ ~timedOut /\ f \in Wanted(kind) => quoteMap[TickerOf(i)][f] # NoTicker

\* No subscription outlasts its query, once TWS has handled the requests.
NoSubscriptionStays ==
  pc = "idle" /\ requests = <<>> => \A i \in Ids : subs[i] = NoTicker
=============================================================================
