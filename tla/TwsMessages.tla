---------------------------- MODULE TwsMessages ----------------------------
(***************************************************************************)
(* The messages of TWS as processMsg decodes them.  A message is the       *)
(* sequence of its fields, the first being the message id; a field is the  *)
(* number that steers the decoding (a version, a count, 0 for an empty     *)
(* string), as all that matters here is where a message ends.              *)
(*                                                                         *)
(* XxxEnd(f, ..) is the number of fields that the case of processMsg has   *)
(* decoded when it calls the EWrapper.  A field that is missing reads as 0 *)
(* and is counted, so the number exceeds Len(f) while f is incomplete.     *)
(*                                                                         *)
(* Source: processMsg in EClientSocketBaseImpl.h.                          *)
(***************************************************************************)
EXTENDS Integers, Sequences

SERVER_VERSION == 38              \* the oldest TWS accepted
MIN_SERVER_VER_SSHORTX_OLD == 51
MODEL_OPTION == 13

OPEN_ORDER == 5
PORTFOLIO_VALUE == 7
CONTRACT_DATA == 10
EXECUTION_DATA == 11
HISTORICAL_DATA == 17
BOND_CONTRACT_DATA == 18
SCANNER_DATA == 20
TICK_OPTION_COMPUTATION == 21
POSITION_DATA == 61

VariableIds == {OPEN_ORDER, PORTFOLIO_VALUE, CONTRACT_DATA, EXECUTION_DATA,
                HISTORICAL_DATA, BOND_CONTRACT_DATA, SCANNER_DATA,
                TICK_OPTION_COMPUTATION, POSITION_DATA}

-----------------------------------------------------------------------------
(* The messages that have no optional fields: <<id, number of fields>>.    *)

PriceAndSize ==
  {<<1, 7>>, \* TICK_PRICE
   <<2, 5>>} \* TICK_SIZE

OtherTicksAndOrders ==
  {<<45, 5>>,  \* TICK_GENERIC
   <<46, 5>>,  \* TICK_STRING
   <<47, 11>>, \* TICK_EFP
   <<3, 12>>,  \* ORDER_STATUS
   <<4, 5>>}   \* ERR_MSG

AccountValue == {<<6, 6>>}

AccountTimeAndNextId ==
  {<<8, 3>>, \* ACCT_UPDATE_TIME
   <<9, 3>>} \* NEXT_VALID_ID

DepthAndBulletins ==
  {<<12, 8>>, \* MARKET_DEPTH
   <<13, 9>>, \* MARKET_DEPTH_L2
   <<14, 6>>, \* NEWS_BULLETINS
   <<15, 3>>, \* MANAGED_ACCTS
   <<16, 4>>} \* RECEIVE_FA

DataAndEnds ==
  {<<19, 3>>,  \* SCANNER_PARAMETERS
   <<49, 3>>,  \* CURRENT_TIME
   <<50, 11>>, \* REAL_TIME_BARS
   <<51, 4>>,  \* FUNDAMENTAL_DATA
   <<52, 3>>,  \* CONTRACT_DATA_END
   <<53, 2>>,  \* OPEN_ORDER_END
   <<54, 3>>,  \* ACCT_DOWNLOAD_END
   <<55, 3>>,  \* EXECUTION_DATA_END
   <<56, 6>>}  \* DELTA_NEUTRAL_VALIDATION

SnapshotAndCommission ==
  {<<57, 3>>, \* TICK_SNAPSHOT_END
   <<58, 4>>, \* MARKET_DATA_TYPE
   <<59, 8>>} \* COMMISSION_REPORT

SummaryAndGroups ==
  {<<62, 2>>, \* POSITION_END
   <<63, 7>>, \* ACCOUNT_SUMMARY
   <<64, 3>>, \* ACCOUNT_SUMMARY_END
   <<65, 3>>, \* VERIFY_MESSAGE_API
   <<66, 4>>, \* VERIFY_COMPLETED
   <<67, 4>>, \* DISPLAY_GROUP_LIST
   <<68, 4>>} \* DISPLAY_GROUP_UPDATED

FixedLength ==
  LET rows == PriceAndSize \cup OtherTicksAndOrders \cup AccountValue
                \cup AccountTimeAndNextId \cup DepthAndBulletins \cup DataAndEnds
                \cup SnapshotAndCommission \cup SummaryAndGroups
  IN  [id \in {row[1] : row \in rows} |-> (CHOOSE row \in rows : row[1] = id)[2]]

KnownIds == VariableIds \cup DOMAIN FixedLength

-----------------------------------------------------------------------------
(* How a field decides about the fields that follow.                       *)

Field(f, n) == IF n \in DOMAIN f THEN f[n] ELSE 0

\* k fields that are there from version `since` on.
Since(since, version, k) == IF version >= since THEN k ELSE 0

\* After p fields: a count and as many elements of k fields.
List(f, p, k) == p + 1 + (IF Field(f, p + 1) > 0 THEN k * Field(f, p + 1) ELSE 0)

\* After p fields: a field, and k more unless it is empty.
Optional(f, p, k) == p + 1 + (IF Field(f, p + 1) # 0 THEN k ELSE 0)

Version(f) == Field(f, 2)

-----------------------------------------------------------------------------
TickOptionEnd(f) ==
  LET v == Version(f)
  IN  6 + (IF v >= 6 \/ Field(f, 4) = MODEL_OPTION THEN 2 ELSE 0) + Since(6, v, 4)

\* OPEN_ORDER up to the prices of a delta neutral order.
OpenOrderHead(f, server) ==
  LET v == Version(f)
  IN  59 + Since(32, v, 2)
        + (IF server = MIN_SERVER_VER_SSHORTX_OLD \/ v >= 23 THEN 1 ELSE 0)

\* The delta neutral order, the combination legs and the routing parameters.
OpenOrderLegs(f, server) ==
  LET v       == Version(f)
      head    == OpenOrderHead(f, server)
      neutral == IF Field(f, head + 1) # 0 THEN Since(27, v, 4) + Since(31, v, 4) ELSE 0
      prices  == head + 2 + neutral + 6 + Since(30, v, 1)
      legs    == IF v >= 29 THEN List(f, List(f, prices, 8), 1) ELSE prices
  IN  IF v >= 26 THEN List(f, legs, 2) ELSE legs

\* Scale, hedge, clearing, algorithm and the order state.
OpenOrderEnd(f, server) ==
  LET v      == Version(f)
      levels == OpenOrderLegs(f, server) + 2
      scale  == levels + 1 + (IF Field(f, levels + 1) > 0 THEN Since(28, v, 7) ELSE 0)
      hedge  == IF v >= 24 THEN Optional(f, scale, 1) ELSE scale
      held   == hedge + Since(25, v, 1) + 2 + Since(22, v, 1)
      under  == IF v >= 20 THEN Optional(f, held, 3) ELSE held
      algo   == IF v < 21 THEN under
                ELSE IF Field(f, under + 1) # 0 THEN List(f, under + 1, 2)
                ELSE under + 1
  IN  algo + 10

PortfolioEnd(f, server) ==
  LET v == Version(f)
  IN  17 + Since(7, v, 2) + Since(8, v, 1) + (IF v = 6 /\ server = 39 THEN 1 ELSE 0)

ContractEnd(f) ==
  LET v    == Version(f)
      last == 18 + Since(3, v, 1) + Since(4, v, 1) + Since(5, v, 2) + Since(6, v, 7)
                 + Since(8, v, 2)
  IN  IF v >= 7 THEN List(f, last, 2) ELSE last

BondEnd(f) ==
  LET v    == Version(f)
      last == 27 + Since(3, v, 1) + Since(4, v, 1) + Since(6, v, 2)
  IN  IF v >= 5 THEN List(f, last, 2) ELSE last

ExecutionEnd(f) ==
  LET v == Version(f)
  IN  22 + Since(7, v, 1) + Since(9, v, 1) + Since(10, v, 1) + Since(6, v, 2)
         + Since(8, v, 1) + Since(9, v, 2)

HistoricalEnd(f) == List(f, 5, 9)
ScannerEnd(f)    == List(f, 3, 16)
PositionEnd(f)   == LET v == Version(f) IN 14 + Since(2, v, 1) + Since(3, v, 1)

\* The fields decoded when processMsg returns, for the TWS version `server`.  Of a
\* message it does not know the id is decoded.
End(f, server) ==
  LET id == Field(f, 1)
  IN  CASE id = OPEN_ORDER              -> OpenOrderEnd(f, server)
        [] id = PORTFOLIO_VALUE         -> PortfolioEnd(f, server)
        [] id = CONTRACT_DATA           -> ContractEnd(f)
        [] id = BOND_CONTRACT_DATA      -> BondEnd(f)
        [] id = EXECUTION_DATA          -> ExecutionEnd(f)
        [] id = HISTORICAL_DATA         -> HistoricalEnd(f)
        [] id = SCANNER_DATA            -> ScannerEnd(f)
        [] id = TICK_OPTION_COMPUTATION -> TickOptionEnd(f)
        [] id = POSITION_DATA           -> PositionEnd(f)
        [] id \in DOMAIN FixedLength     -> FixedLength[id]
        [] OTHER                        -> 1

\* processConnectAck: the version of TWS and, from 20 on, its time.
AckEnd(f) == 1 + (IF Field(f, 1) >= 20 THEN 1 ELSE 0)
==============================================================================
