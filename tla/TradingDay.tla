----------------------------- MODULE TradingDay -----------------------------
(***************************************************************************)
(* The programs that Main.cpp puts together from the calls of IBAPI.  Its  *)
(* macros and comments select one; those with a * are in comments at       *)
(* present, and closeAll is offered by IBAPI alone.                        *)
(*   signals* the orders ly and lt are sized from the rows of a file,      *)
(*            rounded, hedged and split over auction and day;              *)
(*   an       adjustments of the positions before and after a day;         *)
(*   trades   the orders of a file go to the opening auction, the program  *)
(*            polls the open orders until there are none, and closes the   *)
(*            positions in their tickers;                                  *)
(*   close*   all stocks are closed;                                       *)
(*   closeAll all positions are.                                           *)
(* TWS fills or cancels orders meanwhile.  queryOrd and queryPos may give  *)
(* up, and what they had asked for then comes with the next answer: this   *)
(* is what QueryReply shows of them.                                       *)
(*                                                                         *)
(* Source: Main.cpp, IBAPI.cpp.                                            *)
(***************************************************************************)
EXTENDS OrderArithmetic

CONSTANTS
  SignalFiles, \* the files of signals: sequences of rows
  AnFiles,     \* the files of announcements
  TradeFiles,  \* the files of trades
  Powers,      \* answers to queryBuyingPower: anything if the query gave up
  Budget,      \* multiplier * 10000, of each list
  MaxPer,      \* maxPer of each list
  LOOPer,
  MinTicks,    \* answers to queryMinTick: cents
  Closes,      \* answers to queryClose: 0 if none came
  Holdings,    \* what may be held at the start: functions on tickers \X types
  Empty,       \* sets of positions that TWS may list although nothing is held
  MaxPolls     \* 45 in Main.cpp

Lists == {"ly", "lt"}
Files == SignalFiles \cup AnFiles \cup TradeFiles

\* The rows of the three kinds of files.
Signals == [ticker : STRING, score : Int, price : Nat \ {0}, lmtPrice : Nat \ {0},
            dmv : Nat, spx : Nat, rut : Nat]
Announcements == [ticker : STRING, day2er : Int, lmtPrice : Nat \ {0}]
Trades == [ticker : STRING, qty : Int, lmtPrice : Nat]

\* A file has one row for a ticker.  Whatever an announcement is about can be held as
\* a stock.
ASSUME TradingDayAssumption ==
  /\ Powers \subseteq Int /\ LOOPer \in Nat /\ MinTicks \subseteq Nat /\ Closes \subseteq Nat
  /\ Budget \in [Lists -> Nat] /\ MaxPer \in [Lists -> Nat]
  /\ MaxPolls \in Nat
  /\ SignalFiles \subseteq Seq(Signals)
  /\ AnFiles \subseteq Seq(Announcements)
  /\ TradeFiles \subseteq Seq(Trades)
  /\ \A f \in Files : \A i, j \in DOMAIN f : f[i].ticker = f[j].ticker => i = j
  /\ \A h \in Holdings :
       /\ IsFiniteSet(DOMAIN h) /\ DOMAIN h \subseteq STRING \X STRING
       /\ \A k \in DOMAIN h : h[k] \in Int
       /\ \A f \in AnFiles : \A i \in DOMAIN f : <<f[i].ticker, "STK">> \in DOMAIN h

VARIABLES
  job,     \* the program
  pc,      \* what it does next
  csv,     \* the rows of its file
  sizing,  \* the call of genOrder: [list, power, stock, exposure, branch, residue]
  ord,     \* the lists of orders: "ly", "lt", "loo", "vwap", "hedge", "close"
  held,    \* the positions in the account
  shown,   \* those that TWS lists although nothing is held
  before,  \* those when the program began
  open,    \* orders that TWS has not filled or cancelled
  polls,   \* calls of queryOrd
  late,    \* positions of an answer that was given up
  gaveUp   \* a query, or the wait for the open orders, has given up

vars == <<job, pc, csv, sizing, ord, held, shown, before, open, polls, late, gaveUp>>
account == <<held, shown, before, open>>
queries == <<polls, late, gaveUp>>

NoSizing == [list |-> "ly", power |-> 0, stock |-> 0,
             exposure |-> [spx |-> 0, rut |-> 0], branch |-> "none", residue |-> FALSE]

TypeOK ==
  /\ job \in {"signals", "an", "trades", "close", "closeAll"}
  /\ pc \in {"size", "remove", "undefined", "sized", "round", "hedge", "split", "send", "poll",
             "positions", "close", "sent", "closing", "end"}
  /\ csv \in Files \cup {<<>>}
  /\ sizing.list \in Lists /\ sizing.power \in Powers \cup {0}
  /\ sizing.branch \in {"none", "whole", "factor", "remove"} /\ sizing.residue \in BOOLEAN
  /\ DOMAIN ord \subseteq Lists \cup {"loo", "vwap", "hedge", "close"}
  /\ job = "signals" /\ pc \in {"round", "hedge", "split"} => Lists \subseteq DOMAIN ord
  /\ \A l \in DOMAIN ord : \A i \in DOMAIN ord[l] : ord[l][i].qty \in Int
  /\ DOMAIN held = DOMAIN before /\ shown \subseteq DOMAIN held /\ \A k \in DOMAIN held : held[k] \in Int
  /\ polls \in 0 .. MaxPolls /\ gaveUp \in BOOLEAN

Init ==
  /\ \/ job = "signals" /\ pc = "size" /\ csv \in SignalFiles
     \/ job = "an"      /\ pc = "size" /\ csv \in AnFiles
     \/ job = "trades"  /\ pc = "size" /\ csv \in TradeFiles
     \/ job \in {"close", "closeAll"} /\ pc = "close" /\ csv = <<>>
  /\ held \in Holdings /\ before = held
  /\ \E keys \in Empty : shown = keys \cap DOMAIN held
  /\ job = "signals" =>                           \* it does not look at them
       shown = {} /\ \A k \in DOMAIN held : held[k] = 0
  /\ sizing = NoSizing
  /\ ord = [l \in {} |-> <<>>]
  /\ open = <<>> /\ polls = 0 /\ late = <<>> /\ gaveUp = FALSE

With(list, orders) == [l \in DOMAIN ord \cup {list} |-> IF l = list THEN orders ELSE ord[l]]

-----------------------------------------------------------------------------
(* genOrder, called for ly and then for lt.                                *)

\* tradeValue > buyingPower, and factor < 0.67.
TooMuch(value, power) == value > power
FarTooMuch(value, power) == 100 * power < 67 * value

\* The rows are sorted, sized and, if they are worth more than the buying power,
\* scaled by the ratio of the two or by 0.67.  The running values are doubles: what
\* is left of rounding them may make their sum count as more than what it is equal to.
GenOrder ==
  /\ job = "signals" /\ pc = "size"
  /\ \E power \in Powers, sorted \in Sortings(csv), residue \in BOOLEAN :
       LET list   == sizing.list
           rows   == Traded(sorted, Budget[list], MaxPer[list])
           orders == SizedOrders(rows, Budget[list], MaxPer[list])
           value  == SizedValue(rows, Budget[list], MaxPer[list])
           branch == IF ~TooMuch(value, power) THEN "whole"
                     ELSE IF FarTooMuch(value, power) THEN "remove" ELSE "factor"
           result == CASE branch = "whole"  -> orders
                       [] branch = "factor" -> Scaled(orders, power, value)
                       [] branch = "remove" -> Scaled(orders, 67, 100)
       IN /\ residue => branch = "remove" /\ StockValue(result) # 0
          /\ ord' = With(list, result)
          /\ sizing' = [list |-> list, power |-> power, branch |-> branch, residue |-> residue,
                        stock |-> StockValue(result), exposure |-> OrderHedgeCal(result)]
          /\ pc' = IF branch = "remove" THEN "remove" ELSE "sized"
  /\ UNCHANGED <<job, csv, account, queries>>

\* updateTradeValue > 0.9 * buyingPower.
StillTooMuch ==
  LET value == TradeValue(sizing.stock, sizing.exposure)
  IN 10 * value > 9 * sizing.power \/ (10 * value = 9 * sizing.power /\ sizing.residue)

\* Mutant: the exposure of the removed order stays.
RemoveLastKeepingExposure ==
  /\ pc = "remove" /\ StillTooMuch /\ ord[sizing.list] # <<>>
  /\ LET orders == ord[sizing.list]
         o      == Last(orders)
     IN /\ sizing' = [sizing EXCEPT !.stock = @ - o.price * Magnitude(o.qty)]
        /\ ord' = With(sizing.list, Front(orders))
  /\ UNCHANGED <<job, pc, csv, account, queries>>

\* The order with the lowest score is taken off the list and off the running values,
\* whose residue may come and go unless it is an order for no shares.
RemoveLast ==
  /\ pc = "remove" /\ StillTooMuch /\ ord[sizing.list] # <<>>
  /\ \E residue \in BOOLEAN :
       LET orders == ord[sizing.list]
           o      == Last(orders)
       IN /\ o.qty = 0 => residue = sizing.residue
          /\ sizing' = [sizing EXCEPT
               !.stock        = @ - o.price * Magnitude(o.qty),
               !.exposure.spx = @ - o.price * o.qty * o.spx,
               !.exposure.rut = @ - o.price * o.qty * o.rut,
               !.residue      = residue]
          /\ ord' = With(sizing.list, Front(orders))
  /\ UNCHANGED <<job, pc, csv, account, queries>>

\* back() and pop_back() of an empty vector: what follows is undefined.
RemoveFromNone ==
  /\ pc = "remove" /\ StillTooMuch /\ ord[sizing.list] = <<>>
  /\ pc' = "undefined"
  /\ UNCHANGED <<job, csv, sizing, ord, account, queries>>

RemovedEnough ==
  /\ pc = "remove" /\ ~StillTooMuch
  /\ pc' = "sized"
  /\ UNCHANGED <<job, csv, sizing, ord, account, queries>>

\* Mutant: genOrder is called once.
GenOrderReturnsOnce ==
  /\ pc = "sized"
  /\ sizing' = NoSizing /\ pc' = "round"
  /\ UNCHANGED <<job, csv, ord, account, queries>>

GenOrderReturns ==
  /\ pc = "sized"
  /\ IF sizing.list = "ly"
       THEN sizing' = [NoSizing EXCEPT !.list = "lt"] /\ pc' = "size"
       ELSE sizing' = NoSizing /\ pc' = "round"
  /\ UNCHANGED <<job, csv, ord, account, queries>>

-----------------------------------------------------------------------------
(* truncLmtPrice, genHedgeOrder and splitLOOVWAPOrders.                    *)

Round ==
  /\ pc = "round"
  /\ \E tick \in [TickersOf(csv) -> MinTicks] :
       ord' = [l \in DOMAIN ord |-> TruncLmtPrice(ord[l], MapSeq(LAMBDA o : tick[o.ticker], ord[l]))]
  /\ pc' = IF job = "signals" THEN "hedge" ELSE "send"
  /\ UNCHANGED <<job, csv, sizing, account, queries>>

\* The hedge of ly, at the closes of the two funds.
GenHedgeOrder ==
  /\ pc = "hedge"
  /\ \E spyClose, iwmClose \in Closes :
       LET exposure == OrderHedgeCal(ord["ly"])
           prices   == HedgePrices(spyClose, iwmClose)
       IN ord' = With("hedge",
            <<[ticker |-> "SPY", price |-> prices.spy, qty |-> HedgeQty(exposure.spx, prices.spy)],
              [ticker |-> "IWM", price |-> prices.iwm, qty |-> HedgeQty(exposure.rut, prices.iwm)]>>)
  /\ pc' = "split"
  /\ UNCHANGED <<job, csv, sizing, account, queries>>

SplitLOOVWAPOrders ==
  /\ pc = "split"
  /\ LET rqlMap == RqlMap(ord["ly"], LOOPer)
     IN ord' = [l \in DOMAIN ord \cup {"loo", "vwap"} |->
                  CASE l = "loo"  -> LOOOrders(ord["lt"], rqlMap)
                    [] l = "vwap" -> VWAPOrders(ord["lt"], rqlMap)
                    [] OTHER      -> ord[l]]
  /\ pc' = "sent"
  /\ UNCHANGED <<job, csv, sizing, account, queries>>

-----------------------------------------------------------------------------
(* The account.                                                            *)

\* The shares of a ticker that a list of orders buys.
Bought(ticker, orders) == Total(LAMBDA o : IF o.ticker = ticker THEN o.qty ELSE 0, orders)

\* All orders are for stocks.
After(orders) ==
  [k \in DOMAIN held |-> IF k[2] = "STK" THEN held[k] + Bought(k[1], orders) ELSE held[k]]

\* What TWS answers to reqPositions: what is held, and positions of 0.
Positions ==
  MapSeq(LAMBDA k : [ticker |-> k[1], secType |-> k[2], qty |-> held[k]],
         SetToSeq({k \in DOMAIN held : held[k] # 0 \/ k \in shown}))

\* queryPos: the whole answer, or a part of it if the query gives up; the rest comes
\* later, and in front of the next answer, if not before the list is cleared.
WholeAnswer == [got |-> Positions, late |-> <<>>, gaveUp |-> gaveUp]
PartAnswer(from, to) ==
  LET stream == late \o Positions
  IN [got |-> SubSeq(stream, from, to), late |-> SubSeq(stream, to + 1, Len(stream)),
      gaveUp |-> TRUE]
Answers ==
  (IF late = <<>> THEN {WholeAnswer} ELSE {})
    \cup {PartAnswer(from, to) : from \in 1 .. Len(late) + 1, to \in 0 .. Len(late \o Positions)}

QueryPos(answer) ==
  /\ answer \in Answers
  /\ late' = answer.late /\ gaveUp' = answer.gaveUp
  /\ UNCHANGED polls

-----------------------------------------------------------------------------
(* The orders of the other programs.                                       *)

GenAN ==
  /\ job = "an" /\ pc = "size"
  /\ \E answer \in Answers :
       QueryPos(answer) /\ ord' = With("lt", GenANOrder(csv, answer.got))
  /\ pc' = "sent"
  /\ UNCHANGED <<job, csv, sizing, account>>

\* Without orders the program stops.
GenTrade ==
  /\ job = "trades" /\ pc = "size"
  /\ ord' = With("lt", GenTradeOrder(csv))
  /\ pc' = IF csv = <<>> THEN "end" ELSE "round"
  /\ UNCHANGED <<job, csv, sizing, account, queries>>

\* sendLOOOrder.
SendOpening ==
  /\ pc = "send"
  /\ open' = ord["lt"]
  /\ pc' = "poll"
  /\ UNCHANGED <<job, csv, sizing, ord, held, shown, before, queries>>

\* TWS fills an order or cancels it.
TwsOrder ==
  /\ \E i \in DOMAIN open :
       /\ open' = RemoveAt(open, i)
       /\ held' = After(<<open[i]>>) \/ UNCHANGED held
  /\ UNCHANGED <<job, pc, csv, sizing, ord, shown, before, queries>>

\* Mutant: the loop ends whatever is open.
PollOnce ==
  /\ pc = "poll"
  /\ pc' = "positions"
  /\ UNCHANGED <<job, csv, sizing, ord, account, queries>>

\* The loop over queryOrd: it ends when the map is empty, as it also is when the
\* query gives up, or after its rounds.
Poll ==
  /\ pc = "poll"
  /\ \/ open = <<>> /\ pc' = "positions" /\ UNCHANGED <<polls, gaveUp>>
     \/ open # <<>> /\ polls < MaxPolls /\ polls' = polls + 1 /\ UNCHANGED <<pc, gaveUp>>
     \/ open # <<>> /\ polls < MaxPolls /\ pc' = "positions" /\ gaveUp' = TRUE /\ UNCHANGED polls
     \/ polls = MaxPolls /\ pc' = "close" /\ gaveUp' = TRUE /\ UNCHANGED polls
  /\ UNCHANGED <<job, csv, sizing, ord, account, late>>

\* queryPos, only to print how many positions there are.
LookAtPositions ==
  /\ pc = "positions"
  /\ \E answer \in Answers : QueryPos(answer)
  /\ pc' = "close"
  /\ UNCHANGED <<job, csv, sizing, ord, account>>

\* closePartVWAP of the orders of the day; closeAllStockAP or closeAllStockVWAP;
\* closeAllPos.
ClosePositions ==
  /\ pc = "close"
  /\ \E answer \in Answers :
       /\ QueryPos(answer)
       /\ ord' = With("close", CASE job = "close"    -> CloseAllStock(answer.got)
                                 [] job = "closeAll" -> CloseAllPos(answer.got)
                                 [] job = "trades"   -> ClosePart(ord["lt"], answer.got))
  /\ pc' = "closing"
  /\ UNCHANGED <<job, csv, sizing, account>>

\* TWS fills the closing orders.
TwsClosed ==
  /\ pc = "closing"
  /\ held' = After(ord["close"])
  /\ pc' = "end"
  /\ UNCHANGED <<job, csv, sizing, ord, shown, before, open, queries>>

Next ==
  \/ GenOrder \/ RemoveLast \/ RemoveFromNone \/ RemovedEnough \/ GenOrderReturns
  \/ Round \/ GenHedgeOrder \/ SplitLOOVWAPOrders
  \/ GenAN \/ GenTrade \/ SendOpening \/ Poll \/ LookAtPositions \/ ClosePositions
  \/ TwsOrder \/ TwsClosed

Spec == Init /\ [][Next]_vars

-----------------------------------------------------------------------------
(* Properties.                                                             *)

\* While there is any buying power, the loop that takes orders off the list ends before
\* back() of an empty list: its running values are those of the list but for a residue.
\* (A power of 0 is not enough: a residue is more.  Nor is that of a query that gave up.)
RemovalFindsOrder ==
  pc = "remove" /\ StillTooMuch /\ sizing.power > 0 => ord[sizing.list] # <<>>

\* The rows whose limit price is not above the price their stock is valued at, and
\* whose weights, added, do not exceed 1: rounding down then cannot raise the value.
Moderate == \A i \in DOMAIN csv : csv[i].lmtPrice <= csv[i].price /\ csv[i].spx + csv[i].rut <= 1

\* The orders and their hedges cost no more than the buying power, although scaling
\* rounds every order on its own and may undo what one hedges of another; after the
\* removal of orders, no more than nine tenths, whatever the rows.
WithinBuyingPower ==
  pc = "sized" =>
    LET orders == ord[sizing.list]
        value  == TradeValue(StockValue(orders), OrderHedgeCal(orders))
    IN /\ sizing.branch = "remove" => 10 * value <= 9 * sizing.power
       /\ Moderate => value <= sizing.power

\* A rounded limit price is no worse than that of the file by more than the rounding
\* to a cent, and less than a tick away from it.
RoundedForTrader ==
  pc \in {"hedge", "send"} =>
    \A l \in DOMAIN ord : \A i \in DOMAIN ord[l] : \A j \in DOMAIN csv :
      csv[j].ticker = ord[l][i].ticker =>
        LET gain == Direction(ord[l][i].qty) * (csv[j].lmtPrice - ord[l][i].price)
        IN \E tick \in MinTicks :
             ord[l][i].qty # 0 => -(Cent \div 2) <= gain /\ gain < Cent * tick + Cent \div 2

\* The hedge leaves less than a round lot of each index exposed, and does not turn
\* the exposure around.
HedgeLeavesLittle ==
  pc = "split" =>
    LET exposure == OrderHedgeCal(ord["ly"])
        Left(e, o) == Direction(e) * (e + o.qty * o.price)
    IN /\ Left(exposure.spx, ord["hedge"][1]) \in 0 .. 100 * ord["hedge"][1].price - 1
       /\ Left(exposure.rut, ord["hedge"][2]) \in 0 .. 100 * ord["hedge"][2].price - 1

\* The auction's part and the day's part of every order of lt add up to it.
SplitAddsUp ==
  job = "signals" /\ pc = "sent" =>
    \A t \in TickersOf(csv) :
      Bought(t, ord["loo"]) + Bought(t, ord["vwap"]) = Bought(t, ord["lt"])

\* The orders of ly and lt for one ticker take no more from the auction than the
\* volume allows, up to the rounding to tens, and the auction's part of an order of lt
\* is on its side and no larger; unless scaling has left ly without shares, whose
\* direction is then lost.
AuctionWithinVolume ==
  job = "signals" /\ pc = "sent" =>
    \A ly \in Range(ord["ly"]), lt \in Range(ord["lt"]), loo \in Range(ord["loo"]) :
      ly.ticker = loo.ticker /\ lt.ticker = loo.ticker /\ ly.qty # 0 =>
        /\ loo.qty * lt.qty >= 0 /\ Magnitude(loo.qty) <= Magnitude(lt.qty)
        /\ 10000 * Magnitude(ly.qty + loo.qty) <= LOOPer * ly.dmv + 5 * 10000

\* Only stocks are held in these tickers.
OnlyStocks(tickers) == \A k \in DOMAIN before : k[1] \in tickers /\ k[2] # "STK" => before[k] = 0

\* genANOrder finds the stocks: TWS lists nothing else in the tickers of the file.
SeesStocks ==
  job = "an" /\ pc = "sent" /\ ~gaveUp /\ OnlyStocks(TickersOf(csv))
    /\ \A k \in shown : k[1] \in TickersOf(csv) => k[2] = "STK"

\* Filled adjustments leave a stock flat from two days before the announcement on; in
\* the weeks before, they buy it up to within 100 shares of its 20000 dollars, and no
\* further.  (A position that is beyond them from the start is left to the property
\* after this one.)
AdjustedToTarget ==
  SeesStocks =>
    \A i \in DOMAIN csv :
      LET row    == csv[i]
          k      == <<row.ticker, "STK">>
          target == (20000 * Dollar) \div row.lmtPrice
      IN /\ row.day2er >= -2 => After(ord["lt"])[k] = 0
         /\ row.day2er \in -20 .. -7 =>
              /\ After(ord["lt"])[k] > target - 100 - 10
              /\ before[k] <= target => After(ord["lt"])[k] <= target

\* The comment of genANOrder on these weeks: "max ($20000 for each stock)".  The 100 shares
\* that no order is worth, and the rounding to tens, are granted.
WithinMaxPerStock ==
  SeesStocks =>
    \A i \in DOMAIN csv :
      csv[i].day2er \in -20 .. -7 =>
        After(ord["lt"])[<<csv[i].ticker, "STK">>] < (20000 * Dollar) \div csv[i].lmtPrice + 100 + 10

\* The tickers whose positions the program closes.
Closing == IF job = "trades" THEN TickersOf(csv) ELSE {k[1] : k \in DOMAIN held}

\* If nothing has given up, the day ends without a stock in the tickers of its file,
\* however many of the opening orders were filled, and closeAllStock and closeAllPos
\* leave no stock; other positions stay.  Only closeAllStock may be used where other
\* than stocks are held.
FlatAtEnd ==
  pc = "end" /\ ~gaveUp /\ (job = "close" \/ OnlyStocks(Closing)) =>
    \A k \in DOMAIN held :
      held[k] = IF k[2] = "STK" /\ k[1] \in Closing THEN 0 ELSE before[k]
=============================================================================
