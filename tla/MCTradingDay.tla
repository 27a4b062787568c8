---------------------------- MODULE MCTradingDay ----------------------------
(* Instance of TradingDay.  Prices are of a few dollars and volumes and buying  *)
(* powers as small, so that every branch of genOrder is taken.                  *)
EXTENDS TradingDay

Row(t, score, price, lmt, dmv, spx, rut) ==
  [ticker |-> t, score |-> score, price |-> price, lmtPrice |-> lmt, dmv |-> dmv,
   spx |-> spx, rut |-> rut]

\* Strong and weak, long and short, cheap, thinly traded, hedging each other, valued
\* below their limit price, heavily weighted.
SignalRows(t) ==
  {Row(t, 60, 4000, 3993, 200000, 1, 0), Row(t, -60, 4000, 4000, 200000, 1, 0),
   Row(t, 45, 5000, 4987, 100000, 0, 1), Row(t, -31, 3000, 2999, 100000, 0, 0),
   Row(t, 29, 4000, 4000, 200000, 1, 0), Row(t, 70, 2990, 2990, 200000, 1, 0),
   Row(t, 40, 3000, 3300, 30000, 1, 1), Row(t, -40, 7000, 7000, 20000, 1, 0)}

MCSignalFiles ==
  {<<>>} \cup {<<a>> : a \in SignalRows("A")}
    \cup {<<a, b>> : a \in SignalRows("A"), b \in SignalRows("B")}
    \cup {<<a, b, c>> : a \in SignalRows("A"), b \in SignalRows("B"), c \in SignalRows("C")}

AnRow(t, day, lmt) == [ticker |-> t, day2er |-> day, lmtPrice |-> lmt]
MCAnFiles ==
  {<<AnRow("A", a, p), AnRow("B", b, 150000)>> :
     a \in {-21, -20, -7, -6, -3, -2, 1}, b \in {-20, -2}, p \in {99990, 31000, 250000}}

TradeRow(t, qty, lmt) == [ticker |-> t, qty |-> qty, lmtPrice |-> lmt]
MCTradeFiles ==
  {<<>>} \cup {<<TradeRow("A", a, 10024), TradeRow("B", b, 20031)>> : a \in {100, -60}, b \in {50, -50}}

MCPowers   == {-5000, 0, 200000, 330000, 480000, 2000000}
MCBudget   == [l \in {"ly", "lt"} |-> IF l = "ly" THEN 200000 ELSE 400000]
MCMaxPer   == [l \in {"ly", "lt"} |-> IF l = "ly" THEN 5 ELSE 20]
MCMinTicks == {0, 5}
MCCloses   == {0, 2000}

\* Nothing; stocks; an option on a stock; a position that an adjustment may leave.
NoneHeld == [k \in {"A", "B"} \X {"STK", "OPT"} |-> 0]
MCHoldings ==
  {NoneHeld, [NoneHeld EXCEPT ![<<"A", "STK">>] = 100, ![<<"B", "STK">>] = -30],
   [NoneHeld EXCEPT ![<<"A", "STK">>] = 20, ![<<"B", "OPT">>] = 3],
   [NoneHeld EXCEPT ![<<"A", "STK">>] = 900, ![<<"B", "STK">>] = 130]}
MCEmpty == {{}, {<<"A", "STK">>, <<"B", "OPT">>}}
=============================================================================
