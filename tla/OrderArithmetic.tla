-------------------------- MODULE OrderArithmetic ---------------------------
(***************************************************************************)
(* How IBAPI computes its orders: from the rows of a file (genOrder,       *)
(* genTradeOrder, genANOrder), from the positions held (closePartAP and    *)
(* its like), the price on the tick of the exchange, the hedge and the     *)
(* split of an order over the auction and the day.                         *)
(*                                                                         *)
(* Source: IBAPI.cpp.  Prices and values are in tenths of a cent, so that  *)
(* the rounding of a price to cents is a step of its own.  Percentages of  *)
(* the daily volume are in 1/10000.  The weights nnlsSPX and nnlsRUT are   *)
(* whole numbers.  Divisions are those of the code: of non-negative        *)
(* numbers, towards zero.                                                  *)
(***************************************************************************)
EXTENDS Integers, Sequences, SequencesExt, FiniteSets

Dollar == 1000
Cent   == 10

Magnitude(x) == IF x < 0 THEN -x ELSE x      \* abs
Direction(x) == IF x > 0 THEN 1 ELSE -1      \* share > 0 ? 1 : -1
Lower(a, b)  == IF a < b THEN a ELSE b       \* std::min
Tens(x)      == 10 * (x \div 10)             \* trunc(x / 10) * 10

MapSeq(Of(_), s) == [i \in DOMAIN s |-> Of(s[i])]

\* The sum that a loop over a vector of numbers leaves.
SumOf(v) ==
  LET sum[n \in 0 .. Len(v)] == IF n = 0 THEN 0 ELSE sum[n - 1] + v[n]
  IN sum[Len(v)]

\* The sum of Of(x) over the elements of a vector.
Total(Of(_), s) == SumOf(MapSeq(Of, s))

\* The elements at the indices in K, as a loop pushes them back.
Chosen(s, K) ==
  LET upTo[n \in 0 .. Len(s)] ==
        IF n = 0 THEN <<>> ELSE IF n \in K THEN Append(upTo[n - 1], s[n]) ELSE upTo[n - 1]
  IN upTo[Len(s)]

\* The elements that pass a test.
Where(Test(_), s) == Chosen(s, {i \in DOMAIN s : Test(s[i])})

TickersOf(s) == {s[i].ticker : i \in DOMAIN s}

-----------------------------------------------------------------------------
(* Prices.                                                                 *)

\* Mutant: the two directions are swapped.
RoundNumSwapped(share, num, minTick) ==
  IF minTick <= 1 THEN num
  ELSE LET inum == (num + Cent \div 2) \div Cent
           fac  == inum \div minTick
       IN Cent * (IF inum % minTick = 0 THEN inum
                  ELSE IF share < 0 THEN fac * minTick ELSE (fac + 1) * minTick)

\* The limit price of an order for `share` shares, with minTick in cents: rounded to
\* a cent, then up to the tick for a sale, down for a purchase.  A tick of a cent, or
\* none (the query timed out), leaves the price.
RoundNum(share, num, minTick) ==
  IF minTick <= 1 THEN num
  ELSE LET inum == (num + Cent \div 2) \div Cent
           fac  == inum \div minTick
       IN Cent * (IF inum % minTick = 0 THEN inum
                  ELSE IF share < 0 THEN (fac + 1) * minTick ELSE fac * minTick)

\* The orders with their prices rounded; minTick[i] answers the query for order i.
TruncLmtPrice(orders, minTick) ==
  [i \in DOMAIN orders |->
     [orders[i] EXCEPT !.price = RoundNum(orders[i].qty, orders[i].price, minTick[i])]]

-----------------------------------------------------------------------------
(* The value of a list of orders.                                          *)

StockValue(orders) == Total(LAMBDA o : o.price * Magnitude(o.qty), orders)

\* orderHedgeCal: the exposure to the two indices.
OrderHedgeCal(orders) ==
  [spx |-> Total(LAMBDA o : o.qty * o.price * o.spx, orders),
   rut |-> Total(LAMBDA o : o.qty * o.price * o.rut, orders)]

\* What the stocks and the hedges cost.
TradeValue(stock, exposure) ==
  stock + Magnitude(exposure.spx) + Magnitude(exposure.rut)

-----------------------------------------------------------------------------
(* genOrder.                                                               *)

\* The shares for a row: none for a weak score, else the lower of a budget and a
\* share of the daily volume, in tens.
Shares(row, budget, maxPer) ==
  IF Magnitude(row.score) < 30 THEN 0
  ELSE Direction(row.score)
         * 10 * Lower(budget \div (10 * row.price), (maxPer * row.dmv) \div 100000)

\* The orders of std::sort by |score|, which leaves open the order of equals.
Sortings(csv) ==
  LET n == Len(csv)
      Descending(s) ==
        \A i \in 1 .. n - 1 : Magnitude(s[i].score) >= Magnitude(s[i + 1].score)
      Orders == Injection(1 .. n, 1 .. n)
  IN {s \in {[i \in 1 .. n |-> csv[p[i]]] : p \in Orders} : Descending(s)}

\* The rows that give an order: nothing below 3 dollars is traded.
Traded(csv, budget, maxPer) ==
  Where(LAMBDA row : Shares(row, budget, maxPer) # 0 /\ row.price >= 3 * Dollar, csv)

SizedOrders(rows, budget, maxPer) ==
  MapSeq(LAMBDA row : [ticker |-> row.ticker, price |-> row.lmtPrice,
                       qty |-> Shares(row, budget, maxPer),
                       spx |-> row.spx, rut |-> row.rut, dmv |-> row.dmv], rows)

\* The stocks are valued at the price of the row, the exposure at the limit price.
SizedValue(rows, budget, maxPer) ==
  TradeValue(Total(LAMBDA row : row.price * Magnitude(Shares(row, budget, maxPer)), rows),
             OrderHedgeCal(SizedOrders(rows, budget, maxPer)))

\* Mutant: rounded up to tens.
ScaledUp(orders, num, den) ==
  MapSeq(LAMBDA o : [o EXCEPT !.qty =
           Direction(@) * Tens((Magnitude(@) * num) \div den + 9)], orders)

\* The quantities times num / den, in tens; they may become zero.
Scaled(orders, num, den) ==
  MapSeq(LAMBDA o : [o EXCEPT !.qty =
           Direction(@) * Tens((Magnitude(@) * num) \div den)], orders)

-----------------------------------------------------------------------------
(* genHedgeOrder.                                                          *)

\* Mutant: the price is taken for the price of a round lot.
HedgeQtyByOne(exposure, close) ==
  -Direction(exposure) * 100 * (Magnitude(exposure) \div close)

\* -int(trunc(exposure / close / 100) * 100): round lots against the exposure.
HedgeQty(exposure, close) ==
  -Direction(exposure) * 100 * (Magnitude(exposure) \div (100 * close))

\* A close that did not come makes both prices their defaults.
HedgePrices(spyClose, iwmClose) ==
  IF spyClose <= 0 \/ iwmClose <= 0
    THEN [spy |-> 247 * Dollar, iwm |-> 142 * Dollar]
    ELSE [spy |-> spyClose, iwm |-> iwmClose]

-----------------------------------------------------------------------------
(* splitLOOVWAPOrders.                                                     *)

\* Mutant: the shares of ly are not taken off.
RestForLOOIgnoringLy(o, looPer) ==
  LET rest == looPer * o.dmv
  IN IF rest > 10 * 10000
       THEN Direction(o.qty) * 10 * ((rest + 5 * 10000) \div (10 * 10000)) ELSE 0

\* What the volume allows the auction beside an order of ly, rounded to tens, in the
\* direction of that order; 0 if it is 10 or less.
RestForLOO(o, looPer) ==
  LET rest == looPer * o.dmv - 10000 * Magnitude(o.qty)
  IN IF rest > 10 * 10000
       THEN Direction(o.qty) * 10 * ((rest + 5 * 10000) \div (10 * 10000)) ELSE 0

\* rqlMap: the later of two orders for a ticker counts.
RqlMap(ly, looPer) ==
  LET InMap == {i \in DOMAIN ly : RestForLOO(ly[i], looPer) # 0}
      Latest(t) == CHOOSE i \in InMap : ly[i].ticker = t
                     /\ \A j \in InMap : ly[j].ticker = t => j <= i
  IN [t \in {ly[i].ticker : i \in InMap} |-> RestForLOO(ly[Latest(t)], looPer)]

\* The part of an order of lt that goes to the auction.
LOOQty(o, rqlMap) ==
  IF Magnitude(rqlMap[o.ticker]) > Magnitude(o.qty) THEN o.qty ELSE rqlMap[o.ticker]

\* Only the tickers of the map have a LOO order, and a smaller VWAP order, which may
\* be one for no shares.
LOOOrders(lt, rqlMap) ==
  MapSeq(LAMBDA o : [o EXCEPT !.qty = LOOQty(o, rqlMap)],
         Where(LAMBDA o : o.ticker \in DOMAIN rqlMap, lt))

\* Mutant: the order keeps its quantity.
VWAPOrdersWhole(lt, rqlMap) == lt

VWAPOrders(lt, rqlMap) ==
  MapSeq(LAMBDA o : IF o.ticker \in DOMAIN rqlMap
                      THEN [o EXCEPT !.qty = @ - LOOQty(o, rqlMap)] ELSE o, lt)

-----------------------------------------------------------------------------
(* Orders from positions: sequences of [ticker, secType, qty].             *)

\* Mutant: the position is not looked at.
AnAdjustmentBlind(row, qty, isHeld) ==
  IF row.day2er > -21 /\ row.day2er <= -7
    THEN 10 * ((20000 * Dollar) \div (10 * row.lmtPrice)) ELSE 0

\* genANOrder: the shares for a row whose ticker has a position, or has none.  From
\* the 20th to the 7th day before, up to 20000 dollars, if that is 100 shares or
\* more to buy; from 2 days before, to nothing.  (abs(adjShare >= 100) is
\* adjShare >= 100.)
AnAdjustment(row, qty, isHeld) ==
  LET target == 10 * ((20000 * Dollar) \div (10 * row.lmtPrice))
  IN CASE row.day2er > -21 /\ row.day2er <= -7 ->
            IF ~isHeld THEN target ELSE IF target - qty >= 100 THEN target - qty ELSE 0
       [] row.day2er >= -2 -> -qty
       [] OTHER -> 0

\* The quantity of the first position with a ticker.
Position(ticker, positions) ==
  LET Found == {i \in DOMAIN positions : positions[i].ticker = ticker}
  IN IF Found = {} THEN 0
     ELSE positions[CHOOSE i \in Found : \A j \in Found : i <= j].qty

\* A ticker without a position gets its order even for no shares.
GenANOrder(csv, positions) ==
  LET Held(row) == row.ticker \in TickersOf(positions)
      Qty(row)  == AnAdjustment(row, Position(row.ticker, positions), Held(row))
      Buying(row) == row.day2er > -21 /\ row.day2er <= -7
      Ordered(row) == Qty(row) # 0 \/ (Buying(row) /\ ~Held(row))
  IN MapSeq(LAMBDA row : [ticker |-> row.ticker, price |-> row.lmtPrice, qty |-> Qty(row)],
            Where(Ordered, csv))

\* genTradeOrder: one order a row.
GenTradeOrder(csv) ==
  MapSeq(LAMBDA row : [ticker |-> row.ticker, price |-> row.lmtPrice, qty |-> row.qty], csv)

Close(p) == [ticker |-> p.ticker, qty |-> -p.qty]

\* closePartAP, closePartVWAP: positions whose ticker is in the list, of whatever type.
ClosePart(list, positions) ==
  MapSeq(Close, Where(LAMBDA p : p.qty # 0 /\ p.ticker \in TickersOf(list), positions))

\* closeAllStockAP, closeAllStockVWAP.
CloseAllStock(positions) ==
  MapSeq(Close, Where(LAMBDA p : p.qty # 0 /\ p.secType = "STK", positions))

\* closeAllPos, whose limit prices come from queryQuote.
CloseAllPos(positions) == MapSeq(Close, Where(LAMBDA p : p.qty # 0, positions))
=============================================================================
