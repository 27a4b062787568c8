------------------------------ MODULE Requests ------------------------------
(***************************************************************************)
(* The requests of EClientSocketBase: what each of them refuses, and the   *)
(* message it builds for the TWS it is connected to.                       *)
(*                                                                         *)
(* A message is a sequence of fields.  TWS is told neither its length nor  *)
(* which fields it has: the server version, the version of the message and *)
(* the fields before are all it has to know which field comes next.  Here  *)
(* a field is <<name, value>>.  The program sets one argument (an          *)
(* attribute of the Contract or the Order, or a parameter of the call)     *)
(* after the other and calls a request; 0 stands for the default of        *)
(* Contract(), Order(), "" and the empty list, a list is its length.       *)
(***************************************************************************)
EXTENDS Integers, Sequences, SequencesExt, FiniteSetsExt

CONSTANTS Servers,    \* the versions of TWS (below 38 the client disconnects)
          MaxSet      \* bound: arguments set, secType apart

ASSUME RequestsAssumption ==
  /\ \A v \in Servers : v \in Nat /\ v >= 38
  /\ MaxSet \in Nat

VARIABLES
  use,        \* bound: the arguments this program sets
  connected,  \* m_connected
  server,     \* m_serverVersion
  extraAuth,  \* m_extraAuth
  arg,        \* the arguments the program has set, and their values
  outcome,    \* of the last call: "none" since an argument was set, "sent", or an error
  sent        \* the last message sent on this connection

vars == <<use, connected, server, extraAuth, arg, outcome, sent>>

-----------------------------------------------------------------------------
(* Arguments.  Those that no test of the code reads and that are always    *)
(* sent are left at 0.                                                     *)

ContractArgs == {"conId", "tradingClass", "secIdType", "secId", "underComp",
                 "secType", "comboLegs", "legExemptCode"}

DeltaNeutralArgs == {"deltaNeutralConId", "deltaNeutralSettlingFirm",
  "deltaNeutralClearingAccount", "deltaNeutralClearingIntent", "deltaNeutralOpenClose",
  "deltaNeutralShortSale", "deltaNeutralShortSaleSlot", "deltaNeutralDesignatedLocation"}

ScaleArgs == {"scalePriceAdjustValue", "scalePriceAdjustInterval", "scaleProfitOffset",
  "scaleAutoReset", "scaleInitPosition", "scaleInitFillQty", "scaleRandomPercent"}

OrderArgs == DeltaNeutralArgs \cup ScaleArgs \cup
 {"lmtPrice", "auxPrice", "exemptCode", "orderComboLegs", "legPrice",
  "smartComboRoutingParams", "deltaNeutralOrderType", "trailingPercent",
  "scaleSubsLevelSize", "scalePriceIncrement", "scaleTable", "activeStartTime",
  "activeStopTime", "hedgeType", "hedgeParam", "optOutSmartRouting", "clearingAccount",
  "clearingIntent", "notHeld", "algoStrategy", "algoParams", "algoId", "orderMiscOptions"}

PlaceOrderArgs == ContractArgs \cup OrderArgs

\* `options` is the last parameter of the calls that take a list of them.
Args == PlaceOrderArgs \cup {"options"}

\* Lists have one or two items; 2 is a scalePriceIncrement that is not positive;
\* of the prices 1 is the price 0, which is not the unset one.
Zero == 1
Values(a) ==
  IF a \in {"comboLegs", "orderComboLegs", "algoParams", "scalePriceIncrement",
            "lmtPrice", "auxPrice"}
    THEN 1 .. 2 ELSE {1}

Nothing == [is |-> "none", id |-> "no id"]
Sent    == [is |-> "sent", id |-> "no id"]

Has(a)   == a \in DOMAIN arg
Value(a) == IF Has(a) THEN arg[a] ELSE 0
Bag    == Has("secType")     \* Compare(contract.secType, "BAG") == 0
Scaled == Value("scalePriceIncrement") = 1

TypeOK ==
  /\ use \subseteq Args
  /\ connected \in BOOLEAN /\ extraAuth \in BOOLEAN
  /\ server \in Servers \cup {0}
  /\ connected <=> server # 0
  /\ DOMAIN arg \subseteq use
  /\ \A a \in DOMAIN arg : arg[a] \in Values(a)
  /\ outcome \in [is : {"none", "sent", "NOT_CONNECTED", "UPDATE_TWS"},
                 id : {"own id", "no id", "numIds"}]
  /\ \A i \in DOMAIN sent : Len(sent[i]) = 2
  /\ outcome = Sent => connected /\ sent # <<>>

-----------------------------------------------------------------------------
(* Fields.                                                                 *)

Field(n)   == <<n, Value(n)>>
Fields(ns) == [i \in DOMAIN ns |-> Field(ns[i])]
Flag(n)    == <<n, IF Has(n) THEN 1 ELSE 0>>

\* Fields in a row that are sent whatever they hold, and that no test reads: in a
\* message the first stands for all of them.
Always(ns) == IF ns = <<>> THEN <<>> ELSE << <<Head(ns), 0>> >>

Older(v) == server < v
Since(v, fields) == IF Older(v) THEN <<>> ELSE fields
If(c, fields)    == IF c THEN fields ELSE <<>>

\* The length of a list and the fields of each item.
Counted(list, item) == <<Field(list)>> \o FlattenSeq([i \in 1 .. Value(list) |-> item])

\* A price that is not set is sent to a TWS older than v as 0, and else as "".
Price(n, v) == <<n, IF Older(v) /\ ~Has(n) THEN Zero ELSE Value(n)>>

Header(id, version) == << <<"message", id>>, <<"VERSION", version>> >>

\* The contract fields of most requests, with conId in front from version v on.
Contract(v, exchanges) ==
  Since(v, Fields(<<"conId">>))
    \o Always(<<"symbol">>) \o Fields(<<"secType">>)
    \o Always(<<"expiry", "strike", "right", "multiplier">>)
    \o Always(exchanges) \o Always(<<"currency", "localSymbol">>)
    \o Since(68, Fields(<<"tradingClass">>))

Exchange  == <<"exchange">>
Exchanges == <<"exchange", "primaryExchange">>

Legs == If(Bag, Counted("comboLegs",
                        Always(<<"legConId", "ratio", "legAction", "legExchange">>)))

UnderComp ==
  Since(40, <<Flag("underComp")>>
            \o If(Has("underComp"), Always(<<"underConId", "underDelta", "underPrice">>)))

Options == Since(70, Fields(<<"options">>))

-----------------------------------------------------------------------------
(* Calls.                                                                  *)

\* The bound on the inputs: a request is called by programs that set what it reads.
Reads(as) == use = as

\* One call: NOT_CONNECTED with the id `nc`; UPDATE_TWS with the id of the first of
\* the refusals <<holds, id>>; or the message.
Call(nc, refusals, msg) ==
  LET refused == {i \in DOMAIN refusals : refusals[i][1]} IN
  /\ UNCHANGED <<use, connected, server, extraAuth, arg>>
  /\ \/ /\ ~connected
        /\ outcome' = [is |-> "NOT_CONNECTED", id |-> nc]
        /\ UNCHANGED sent
     \/ /\ connected /\ refused # {}
        /\ outcome' = [is |-> "UPDATE_TWS", id |-> refusals[Min(refused)][2]]
        /\ UNCHANGED sent
     \/ /\ connected /\ refused = {}
        /\ outcome' = Sent
        /\ sent' = msg

\* The calls that send their parameters alone, to a TWS that is not older than v.
Plain(nc, v, id, version, names) ==
  /\ Reads({})
  /\ Call(nc, << <<Older(v), "no id">> >>, Header(id, version) \o Always(names))

\* Those that every TWS knows and that have an id, or no id, of their own.
PlainWithId(id, version, names) == Plain("own id", 0, id, version, names)
PlainNoId(id, version, names)   == Plain("no id", 0, id, version, names)

-----------------------------------------------------------------------------
(* Market data.                                                            *)

ReqMktData ==
  /\ Reads({"conId", "tradingClass", "underComp", "secType", "comboLegs", "options"})
  /\ Call("own id",
       << <<Older(40) /\ Has("underComp"), "own id">>,
          <<Older(47) /\ Has("conId"), "own id">>,
          <<Older(68) /\ Has("tradingClass"), "own id">> >>,
       Header("REQ_MKT_DATA", 11) \o Always(<<"tickerId">>)
         \o Contract(47, Exchanges) \o Legs \o UnderComp
         \o Always(<<"genericTicks", "snapshot">>) \o Options)

CancelMktData == PlainWithId("CANCEL_MKT_DATA", 2, <<"tickerId">>)

\* Mutant: the test of conId is forgotten.
OldContractNoId == Older(68) /\ Has("tradingClass")

\* conId and tradingClass came with the same version for these.
OldContract == Older(68) /\ (Has("conId") \/ Has("tradingClass"))

ReqMktDepth ==
  /\ Reads({"conId", "tradingClass", "options"})
  /\ Call("own id", << <<OldContract, "own id">> >>,
       Header("REQ_MKT_DEPTH", 5) \o Always(<<"tickerId">>)
         \o Contract(68, Exchange) \o Always(<<"numRows">>) \o Options)

CancelMktDepth == PlainWithId("CANCEL_MKT_DEPTH", 1, <<"tickerId">>)

ReqHistoricalData ==
  /\ Reads({"conId", "tradingClass", "secType", "comboLegs", "options"})
  /\ Call("own id", << <<OldContract, "own id">> >>,
       Header("REQ_HISTORICAL_DATA", 6) \o Always(<<"tickerId">>)
         \o Contract(68, Exchanges)
         \o Always(<<"includeExpired", "endDateTime", "barSizeSetting", "durationStr",
                     "useRTH", "whatToShow", "formatDate">>)
         \o Legs \o Options)

CancelHistoricalData == PlainWithId("CANCEL_HISTORICAL_DATA", 1, <<"tickerId">>)

ReqRealTimeBars ==
  /\ Reads({"conId", "tradingClass", "options"})
  /\ Call("own id", << <<OldContract, "own id">> >>,
       Header("REQ_REAL_TIME_BARS", 3) \o Always(<<"tickerId">>)
         \o Contract(68, Exchanges) \o Always(<<"barSize", "whatToShow", "useRTH">>)
         \o Options)

CancelRealTimeBars == PlainWithId("CANCEL_REAL_TIME_BARS", 1, <<"tickerId">>)

ReqScannerParameters == PlainNoId("REQ_SCANNER_PARAMETERS", 1, <<>>)

ReqScannerSubscription ==
  /\ Reads({"options"})
  /\ Call("own id", <<>>,
       Header("REQ_SCANNER_SUBSCRIPTION", 4) \o Always(<<"tickerId">>)
         \o Always(<<"numberOfRows", "instrument", "locationCode", "scanCode", "abovePrice",
                     "belowPrice", "aboveVolume", "marketCapAbove", "marketCapBelow",
                     "moodyRatingAbove", "moodyRatingBelow", "spRatingAbove",
                     "spRatingBelow", "maturityDateAbove", "maturityDateBelow",
                     "couponRateAbove", "couponRateBelow", "excludeConvertible",
                     "averageOptionVolumeAbove", "scannerSettingPairs",
                     "stockTypeFilter">>)
         \o Options)

CancelScannerSubscription == PlainWithId("CANCEL_SCANNER_SUBSCRIPTION", 1, <<"tickerId">>)

ReqFundamentalData ==
  /\ Reads({"conId"})
  /\ Call("own id",
       << <<Older(40), "no id">>, <<Older(68) /\ Has("conId"), "own id">> >>,
       Header("REQ_FUNDAMENTAL_DATA", 2) \o Always(<<"reqId">>)
         \o Since(68, Fields(<<"conId">>))
         \o Always(<<"symbol", "secType", "exchange", "primaryExchange", "currency",
                     "localSymbol", "reportType">>))

CancelFundamentalData == Plain("own id", 40, "CANCEL_FUNDAMENTAL_DATA", 1, <<"reqId">>)

\* The two option calculations, from version v on.
Calculate(v, id, given) ==
  /\ Reads({"conId", "tradingClass"})
  /\ Call("no id",
       << <<Older(v), "own id">>, <<Older(68) /\ Has("tradingClass"), "own id">> >>,
       Header(id, 2) \o Always(<<"reqId">>) \o Contract(0, Exchanges)
         \o Always(<<given, "underPrice">>))

\* And their cancellations.
CancelCalculation(id) ==
  /\ Reads({})
  /\ Call("no id", << <<Older(50), "own id">> >>, Header(id, 1) \o Always(<<"reqId">>))

CalculateImpliedVolatility == Calculate(49, "REQ_CALC_IMPLIED_VOLAT", "optionPrice")
CancelCalculateImpliedVolatility == CancelCalculation("CANCEL_CALC_IMPLIED_VOLAT")
CalculateOptionPrice == Calculate(50, "REQ_CALC_OPTION_PRICE", "volatility")
CancelCalculateOptionPrice == CancelCalculation("CANCEL_CALC_OPTION_PRICE")

ReqContractDetails ==
  /\ Reads({"conId", "tradingClass", "secIdType", "secId"})
  /\ Call("no id",
       << <<Older(45) /\ (Has("secIdType") \/ Has("secId")), "own id">>,
          <<Older(68) /\ Has("tradingClass"), "own id">> >>,
       Header("REQ_CONTRACT_DATA", 7) \o Since(40, Always(<<"reqId">>))
         \o Contract(0, Exchange) \o Always(<<"includeExpired">>)
         \o Since(45, Fields(<<"secIdType", "secId">>)))

ReqMarketDataType == Plain("no id", 55, "REQ_MARKET_DATA_TYPE", 1, <<"marketDataType">>)

-----------------------------------------------------------------------------
(* Orders.                                                                 *)

\* What placeOrder refuses, in the order of the tests; all with the order id.
OrderRefused ==
  \/ Older(40) /\ (Has("underComp") \/ Has("scaleSubsLevelSize"))
  \/ Older(41) /\ Has("algoStrategy")
  \/ Older(44) /\ Has("notHeld")
  \/ Older(45) /\ (Has("secIdType") \/ Has("secId"))
  \/ Older(46) /\ Has("conId")
  \/ Older(52) /\ (Has("exemptCode") \/ (Has("comboLegs") /\ Has("legExemptCode")))
  \/ Older(54) /\ Has("hedgeType")
  \/ Older(56) /\ Has("optOutSmartRouting")
  \/ Older(58) /\ \E a \in {"deltaNeutralConId", "deltaNeutralSettlingFirm",
                           "deltaNeutralClearingAccount", "deltaNeutralClearingIntent"} :
                      Has(a)
  \/ Older(66) /\ \E a \in {"deltaNeutralOpenClose", "deltaNeutralShortSale",
                  "deltaNeutralShortSaleSlot", "deltaNeutralDesignatedLocation"} : Has(a)
  \/ Older(60) /\ Scaled /\ \E a \in ScaleArgs : Has(a)
  \/ Older(61) /\ Bag /\ Has("orderComboLegs") /\ Has("legPrice")
  \/ Older(62) /\ Has("trailingPercent")
  \/ Older(68) /\ Has("tradingClass")
  \/ Older(69) /\ \E a \in {"scaleTable", "activeStartTime", "activeStopTime"} : Has(a)
  \/ Older(71) /\ Has("algoId")

OrderContract ==
  Contract(46, Exchanges) \o Since(45, Fields(<<"secIdType", "secId">>))

MainOrder ==
  Always(<<"action", "totalQuantity", "orderType">>)
    \o <<Price("lmtPrice", 61), Price("auxPrice", 62)>>
    \o Always(<<"tif", "ocaGroup", "account", "openClose", "origin", "orderRef", "transmit",
                "parentId", "blockOrder", "sweepToFill", "displaySize", "triggerMethod",
                "outsideRth", "hidden">>)

OrderLegs ==
  If(Bag, Counted("comboLegs",
                  Always(<<"legConId", "ratio", "legAction", "legExchange", "legOpenClose",
                           "legShortSaleSlot", "legDesignatedLocation">>)
                    \o Since(51, Fields(<<"legExemptCode">>)))
            \o Since(61, Counted("orderComboLegs", Fields(<<"legPrice">>)))
            \o Since(57, Counted("smartComboRoutingParams", Always(<<"tag", "value">>))))

InstitutionalOrder ==
  Always(<<"sharesAllocation", "discretionaryAmt", "goodAfterTime", "goodTillDate",
           "faGroup", "faMethod", "faPercentage", "faProfile",
           "shortSaleSlot", "designatedLocation">>)
    \o Since(51, Fields(<<"exemptCode">>))
    \o Always(<<"ocaType", "rule80A", "settlingFirm", "allOrNone", "minQty",
                "percentOffset", "eTradeOnly", "firmQuoteOnly", "nbboPriceCap",
                "auctionStrategy", "startingPrice", "stockRefPrice", "delta",
                "stockRangeLower", "stockRangeUpper", "overridePercentageConstraints">>)

VolatilityOrder ==
  Always(<<"volatility", "volatilityType">>)
    \o Fields(<<"deltaNeutralOrderType">>) \o Always(<<"deltaNeutralAuxPrice">>)
    \o If(Has("deltaNeutralOrderType"),
         Since(58, Fields(<<"deltaNeutralConId", "deltaNeutralSettlingFirm",
                            "deltaNeutralClearingAccount",
                            "deltaNeutralClearingIntent">>))
         \o Since(66, Fields(<<"deltaNeutralOpenClose", "deltaNeutralShortSale",
                               "deltaNeutralShortSaleSlot",
                               "deltaNeutralDesignatedLocation">>)))
    \o Always(<<"continuousUpdate", "referencePriceType", "trailStopPrice">>)
    \o Since(62, Fields(<<"trailingPercent">>))

ScaleOrder ==
  (IF Older(40) THEN Always(<<"scaleNumComponents", "scaleInitLevelSize">>)
                ELSE Always(<<"scaleInitLevelSize">>) \o Fields(<<"scaleSubsLevelSize">>))
    \o Fields(<<"scalePriceIncrement">>)
    \o Since(60, If(Scaled,
         Fields(<<"scalePriceAdjustValue", "scalePriceAdjustInterval", "scaleProfitOffset",
                  "scaleAutoReset", "scaleInitPosition", "scaleInitFillQty",
                  "scaleRandomPercent">>)))
    \o Since(69, Fields(<<"scaleTable", "activeStartTime", "activeStopTime">>))

\* Mutant: the parameter is sent if there is one.
HedgeOrderIfSet ==
  Since(54, Fields(<<"hedgeType">>) \o If(Has("hedgeParam"), Fields(<<"hedgeParam">>)))

HedgeOrder ==
  Since(54, Fields(<<"hedgeType">>) \o If(Has("hedgeType"), Fields(<<"hedgeParam">>)))

AlgoOrder ==
  Since(41, Fields(<<"algoStrategy">>)
            \o If(Has("algoStrategy"), Counted("algoParams", Always(<<"tag", "value">>))))
    \o Since(71, Fields(<<"algoId">>))

PlaceOrder ==
  /\ Reads(PlaceOrderArgs)
  /\ Call("own id", << <<OrderRefused, "own id">> >>,
       Header("PLACE_ORDER", IF Older(44) THEN 27 ELSE 43) \o Always(<<"id">>)
         \o OrderContract \o MainOrder \o OrderLegs \o InstitutionalOrder
         \o VolatilityOrder \o ScaleOrder \o HedgeOrder
         \o Since(56, Fields(<<"optOutSmartRouting">>))
         \o Since(39, Fields(<<"clearingAccount", "clearingIntent">>))
         \o Since(44, Fields(<<"notHeld">>))
         \o UnderComp \o AlgoOrder \o Always(<<"whatIf">>)
         \o Since(70, Fields(<<"orderMiscOptions">>)))

CancelOrder == PlainWithId("CANCEL_ORDER", 1, <<"id">>)

ReqOpenOrders     == PlainNoId("REQ_OPEN_ORDERS", 1, <<>>)
ReqAutoOpenOrders == PlainNoId("REQ_AUTO_OPEN_ORDERS", 1, <<"bAutoBind">>)
ReqAllOpenOrders  == PlainNoId("REQ_ALL_OPEN_ORDERS", 1, <<>>)

ReqExecutions ==
  /\ Reads({})
  /\ Call("no id", <<>>,
       Header("REQ_EXECUTIONS", 3) \o Since(42, Always(<<"reqId">>))
         \o Always(<<"clientId", "acctCode", "time", "symbol", "secType", "exchange",
                     "side">>))

\* The number of ids is given for the id of the error.
ReqIds == Plain("numIds", 0, "REQ_IDS", 1, <<"numIds">>)

ExerciseOptions ==
  /\ Reads({"conId", "tradingClass"})
  /\ Call("no id", << <<OldContract, "own id">> >>,
       Header("EXERCISE_OPTIONS", 2) \o Always(<<"tickerId">>) \o Contract(68, Exchange)
         \o Always(<<"exerciseAction", "exerciseQuantity", "account", "override">>))

ReqGlobalCancel == Plain("no id", 53, "REQ_GLOBAL_CANCEL", 1, <<>>)

-----------------------------------------------------------------------------
(* Accounts, advisors, news, time and linking.                             *)

ReqAccountUpdates   == PlainNoId("REQ_ACCT_DATA", 2, <<"subscribe", "acctCode">>)
ReqNewsBulletins    == PlainNoId("REQ_NEWS_BULLETINS", 1, <<"allMsgs">>)
CancelNewsBulletins == PlainNoId("CANCEL_NEWS_BULLETINS", 1, <<>>)
SetServerLogLevel   == PlainNoId("SET_SERVER_LOGLEVEL", 1, <<"logLevel">>)
ReqManagedAccts     == PlainNoId("REQ_MANAGED_ACCTS", 1, <<>>)
RequestFA           == PlainNoId("REQ_FA", 1, <<"faDataType">>)
ReplaceFA           == PlainNoId("REPLACE_FA", 1, <<"faDataType", "cxml">>)
ReqCurrentTime      == PlainNoId("REQ_CURRENT_TIME", 1, <<>>)
StartApi            == PlainNoId("START_API", 1, <<"clientId">>)

ReqPositions    == Plain("no id", 67, "REQ_POSITIONS", 1, <<>>)
CancelPositions == Plain("no id", 67, "CANCEL_POSITIONS", 1, <<>>)
ReqAccountSummary ==
  Plain("no id", 67, "REQ_ACCOUNT_SUMMARY", 1, <<"reqId", "groupName", "tags">>)
CancelAccountSummary == Plain("no id", 67, "CANCEL_ACCOUNT_SUMMARY", 1, <<"reqId">>)

VerifyRequest ==
  /\ Reads({})
  /\ Call("no id", << <<Older(70), "no id">>, <<~extraAuth, "no id">> >>,
       Header("VERIFY_REQUEST", 1) \o Always(<<"apiName", "apiVersion">>))

VerifyMessage      == Plain("no id", 70, "VERIFY_MESSAGE", 1, <<"apiData">>)
QueryDisplayGroups == Plain("no id", 70, "QUERY_DISPLAY_GROUPS", 1, <<"reqId">>)
SubscribeToGroupEvents ==
  Plain("no id", 70, "SUBSCRIBE_TO_GROUP_EVENTS", 1, <<"reqId", "groupId">>)
UpdateDisplayGroup ==
  Plain("no id", 70, "UPDATE_DISPLAY_GROUP", 1, <<"reqId", "contractInfo">>)
UnsubscribeFromGroupEvents ==
  Plain("no id", 70, "UNSUBSCRIBE_FROM_GROUP_EVENTS", 1, <<"reqId">>)

-----------------------------------------------------------------------------
(* The program and the connection.                                         *)

\* What the requests read (see Reads).
ArgSets ==
  {{}, {"options"}, {"conId"}, {"conId", "tradingClass"},
   {"conId", "tradingClass", "options"}, {"conId", "tradingClass", "secIdType", "secId"},
   {"conId", "tradingClass", "secType", "comboLegs", "options"},
   {"conId", "tradingClass", "underComp", "secType", "comboLegs", "options"},
   PlaceOrderArgs}

Init ==
  /\ use \in ArgSets
  /\ connected = FALSE /\ server = 0 /\ extraAuth = FALSE
  /\ arg = <<>>
  /\ outcome = Nothing /\ sent = <<>>

SetArg(a) ==
  /\ connected
  /\ ~Has(a)
  /\ a = "secType" \/ Cardinality(DOMAIN arg \ {"secType"}) < MaxSet
  /\ \E x \in Values(a) : arg' = arg @@ (a :> x)
  /\ outcome' = Nothing
  /\ UNCHANGED <<use, connected, server, extraAuth, sent>>

\* eConnect up to the acknowledgement of a TWS of version v.
Connect(v) ==
  /\ ~connected
  /\ connected' = TRUE /\ server' = v
  /\ extraAuth' \in BOOLEAN /\ (use # {} => ~extraAuth')   \* one Plain request reads it
  /\ outcome' = Nothing /\ sent' = <<>>
  /\ UNCHANGED <<use, arg>>

\* Mutant: m_serverVersion is not reset.
DisconnectKeepingVersion ==
  /\ connected
  /\ connected' = FALSE /\ extraAuth' = FALSE
  /\ outcome' = Nothing /\ sent' = <<>>
  /\ UNCHANGED <<use, arg, server>>

\* eDisconnectBase, by whoever disconnects.
Disconnect ==
  /\ connected
  /\ connected' = FALSE /\ server' = 0 /\ extraAuth' = FALSE
  /\ outcome' = Nothing /\ sent' = <<>>
  /\ UNCHANGED <<use, arg>>

MarketDataCall ==
  \/ ReqMktData \/ CancelMktData \/ ReqMktDepth \/ CancelMktDepth
  \/ ReqHistoricalData \/ CancelHistoricalData \/ ReqRealTimeBars \/ CancelRealTimeBars
  \/ ReqScannerParameters \/ ReqScannerSubscription \/ CancelScannerSubscription
  \/ ReqFundamentalData \/ CancelFundamentalData
  \/ CalculateImpliedVolatility \/ CancelCalculateImpliedVolatility
  \/ CalculateOptionPrice \/ CancelCalculateOptionPrice
  \/ ReqContractDetails \/ ReqMarketDataType

OrderCall ==
  \/ PlaceOrder \/ CancelOrder \/ ReqOpenOrders \/ ReqAutoOpenOrders \/ ReqAllOpenOrders
  \/ ReqExecutions \/ ReqIds \/ ExerciseOptions \/ ReqGlobalCancel

OtherCall ==
  \/ ReqAccountUpdates \/ ReqNewsBulletins \/ CancelNewsBulletins \/ SetServerLogLevel
  \/ ReqManagedAccts \/ RequestFA \/ ReplaceFA \/ ReqCurrentTime \/ StartApi
  \/ ReqPositions \/ CancelPositions \/ ReqAccountSummary \/ CancelAccountSummary
  \/ VerifyRequest \/ VerifyMessage \/ QueryDisplayGroups \/ SubscribeToGroupEvents
  \/ UpdateDisplayGroup \/ UnsubscribeFromGroupEvents

Next ==
  \/ \E a \in use : SetArg(a)
  \/ \E v \in Servers : Connect(v)
  \/ Disconnect
  \/ MarketDataCall \/ OrderCall \/ OtherCall

Spec == Init /\ [][Next]_vars

-----------------------------------------------------------------------------
(* Properties.                                                             *)

\* Two messages for one TWS say the same up to a field that both have and that
\* differs, or they are equal.
Distinguishable(m, n) ==
  LET differ == {i \in DOMAIN m \cap DOMAIN n : m[i] # n[i]}
  IN IF differ = {} THEN Len(m) = Len(n)
                    ELSE m[Min(differ)][1] = n[Min(differ)][1]

\* What TWS has read of a message tells which field comes next and whether there is
\* one: a message and the next one of the connection do not differ first in a field
\* that only one of them has.
Decodable == [][sent # <<>> /\ sent' \notin {<<>>, sent} => Distinguishable(sent, sent')]_vars

\* Arguments that the code leaves out without an error if TWS is older than they are.
Unguarded == {"smartComboRoutingParams", "clearingAccount", "clearingIntent",
              "orderMiscOptions", "options"}

\* An argument without the one that it completes means nothing.
Meant(a) ==
  CASE a \in DeltaNeutralArgs -> Has("deltaNeutralOrderType")
    [] a \in ScaleArgs        -> Scaled
    [] a = "legExemptCode"    -> Bag /\ Has("comboLegs")
    [] a = "legPrice"         -> Bag /\ Has("orderComboLegs")
    [] a = "orderComboLegs"   -> Bag /\ Has("legPrice")
    [] a = "comboLegs"        -> Bag
    [] a = "hedgeParam"       -> Has("hedgeType")
    [] a = "algoParams"       -> Has("algoStrategy")
    [] OTHER                  -> TRUE

\* A request that is not refused carries all that the program has set, but for the
\* arguments of Unguarded: what else an older TWS cannot take is an error, and not a
\* field that is missing from the order.
NothingDropped ==
  outcome = Sent =>
    \A a \in DOMAIN arg \ Unguarded : Meant(a) => <<a, arg[a]>> \in ToSet(sent)
==============================================================================
