--------------------------- MODULE InBufferProofs ---------------------------
(***************************************************************************)
(* Theorems about InBuffer for any versions of TWS, any messages and any   *)
(* way recv() cuts the stream: the types, and that the messages are passed *)
(* on whole, in order, once, that none is lost and that none waits.  They  *)
(* rest on EndLocal: where a message ends does not depend on what follows. *)
(***************************************************************************)
EXTENDS InBuffer, SequenceFacts

\* What is still to be decoded,
Coming == Rest \o stream

\* the messages TWS has sent and the EWrapper has not got,
Unpassed == SubSeq(sent, Len(passed) + 1, Len(sent))

\* and the answer to the connection.
Ack == IF server = 0 THEN <<>> ELSE IF server >= 20 THEN <<server, 0>> ELSE <<server>>

SentInv ==
  /\ server < SERVER_VERSION => sent = <<>>
  /\ \A i \in 1 .. Len(sent) : sent[i] \in Messages(server)

\* What holds of the buffer between two calls of checkMessages.
IdleInv ==
  /\ ~decoding => pos = 0
  /\ ~fd => inBuf = <<>> /\ ~decoding /\ ~connected

\* Until TWS is accepted, its answer and all it has sent are still to be decoded; then,
\* what has not been passed on.
ComingInv ==
  /\ fd /\ ~connected => passed = <<>> /\ Coming = Ack \o FlattenSeq(sent)
  /\ connected => server = serverVersion /\ Coming = FlattenSeq(Unpassed)

Inv == TypeOK /\ SentInv /\ IdleInv /\ ComingInv /\ PassedInOrderOnce /\ NothingWaits

-----------------------------------------------------------------------------
(* Where a message ends.                                                   *)

\* The first n fields of f are the first n fields of g.
Agree(f, g, n) == \A i \in 1 .. n : Field(f, i) = Field(g, i)

LEMMA FieldIsInt ==
  ASSUME NEW f \in Seq(Int), NEW n \in Int
  PROVE  Field(f, n) \in Int
<1>1. DOMAIN f = 1 .. Len(f) /\ \A i \in 1 .. Len(f) : f[i] \in Int
  BY LenProperties, ElementOfSeq
<1> QED
  BY <1>1 DEF Field

LEMMA ListFacts ==
  ASSUME NEW f \in Seq(Int), NEW p \in Nat, NEW k \in Nat
  PROVE  List(f, p, k) \in Nat /\ p + 1 <= List(f, p, k)
<1>1. Field(f, p + 1) \in Int
  BY FieldIsInt
<1> DEFINE x == Field(f, p + 1)
<1> HIDE DEF x
<1>2. x > 0 => k * x \in Nat
  BY <1>1 DEF x
<1> QED
  BY <1>1, <1>2 DEF List, x

LEMMA OptionalFacts ==
  ASSUME NEW f \in Seq(Int), NEW p \in Nat, NEW k \in Nat
  PROVE  Optional(f, p, k) \in Nat /\ p + 1 <= Optional(f, p, k)
<1> QED
  BY DEF Optional

\* A list, or an optional part, that ends within the fields that agree ends at the same
\* place.
LEMMA ListLocal ==
  ASSUME NEW f \in Seq(Int), NEW g \in Seq(Int), NEW n \in Nat, Agree(f, g, n),
         NEW p \in Nat, NEW k \in Nat, List(f, p, k) <= n
  PROVE  List(g, p, k) = List(f, p, k)
<1>1. List(f, p, k) \in Nat /\ p + 1 <= List(f, p, k)
  BY ListFacts
<1>2. p + 1 \in 1 .. n
  BY <1>1
<1> QED
  BY <1>2 DEF Agree, List

LEMMA OptionalLocal ==
  ASSUME NEW f \in Seq(Int), NEW g \in Seq(Int), NEW n \in Nat, Agree(f, g, n),
         NEW p \in Nat, NEW k \in Nat, Optional(f, p, k) <= n
  PROVE  Optional(g, p, k) = Optional(f, p, k)
<1>1. Optional(f, p, k) \in Nat /\ p + 1 <= Optional(f, p, k)
  BY OptionalFacts
<1>2. p + 1 \in 1 .. n
  BY <1>1
<1> QED
  BY <1>2 DEF Agree, Optional

LEMMA SimpleLocal ==
  ASSUME NEW f \in Seq(Int), NEW g \in Seq(Int), NEW n \in Nat, Agree(f, g, n), NEW v
  PROVE  /\ HistoricalEnd(f) \in Nat /\ HistoricalEnd(f) > 1
         /\ HistoricalEnd(f) <= n => HistoricalEnd(g) = HistoricalEnd(f)
         /\ ScannerEnd(f) \in Nat /\ ScannerEnd(f) > 1
         /\ ScannerEnd(f) <= n => ScannerEnd(g) = ScannerEnd(f)
         /\ TickOptionEnd(f) \in Nat /\ TickOptionEnd(f) > 1
         /\ TickOptionEnd(f) <= n => TickOptionEnd(g) = TickOptionEnd(f)
         /\ PositionEnd(f) \in Nat /\ PositionEnd(f) > 1
         /\ PositionEnd(f) <= n => PositionEnd(g) = PositionEnd(f)
         /\ ExecutionEnd(f) \in Nat /\ ExecutionEnd(f) > 1
         /\ ExecutionEnd(f) <= n => ExecutionEnd(g) = ExecutionEnd(f)
         /\ PortfolioEnd(f, v) \in Nat /\ PortfolioEnd(f, v) > 1
         /\ PortfolioEnd(f, v) <= n => PortfolioEnd(g, v) = PortfolioEnd(f, v)
<1>1. HistoricalEnd(f) \in Nat /\ HistoricalEnd(f) > 1 /\ ScannerEnd(f) \in Nat /\ ScannerEnd(f) > 1
  <2>1. /\ List(f, 5, 9) \in Nat /\ 5 + 1 <= List(f, 5, 9)
        /\ List(f, 3, 16) \in Nat /\ 3 + 1 <= List(f, 3, 16)
    BY ListFacts
  <2> QED
    BY <2>1 DEF HistoricalEnd, ScannerEnd
<1>2. /\ HistoricalEnd(f) <= n => HistoricalEnd(g) = HistoricalEnd(f)
      /\ ScannerEnd(f) <= n => ScannerEnd(g) = ScannerEnd(f)
  BY ListLocal DEF HistoricalEnd, ScannerEnd
<1>3. 2 <= n => Version(g) = Version(f)
  BY DEF Agree, Version
<1>4. 4 <= n => Field(g, 4) = Field(f, 4)
  BY DEF Agree
<1>5. TickOptionEnd(f) \in Nat /\ TickOptionEnd(f) > 5
  BY DEF Since, TickOptionEnd
<1>6. TickOptionEnd(f) <= n => TickOptionEnd(g) = TickOptionEnd(f)
  BY <1>3, <1>4, <1>5 DEF TickOptionEnd
<1>7. PositionEnd(f) \in Nat /\ PositionEnd(f) > 5
  BY DEF Since, PositionEnd
<1>8. PositionEnd(f) <= n => PositionEnd(g) = PositionEnd(f)
  BY <1>3, <1>7 DEF PositionEnd
<1>9. ExecutionEnd(f) \in Nat /\ ExecutionEnd(f) > 5
  BY DEF Since, ExecutionEnd
<1>10. ExecutionEnd(f) <= n => ExecutionEnd(g) = ExecutionEnd(f)
  BY <1>3, <1>9 DEF ExecutionEnd
<1>11. PortfolioEnd(f, v) \in Nat /\ PortfolioEnd(f, v) > 5
  BY DEF Since, PortfolioEnd
<1>12. PortfolioEnd(f, v) <= n => PortfolioEnd(g, v) = PortfolioEnd(f, v)
  BY <1>3, <1>11 DEF PortfolioEnd
<1> QED
  BY <1>1, <1>2, <1>5, <1>6, <1>7, <1>8, <1>9, <1>10, <1>11, <1>12

LEMMA ContractLocal ==
  ASSUME NEW f \in Seq(Int), NEW g \in Seq(Int), NEW n \in Nat, Agree(f, g, n)
  PROVE  /\ ContractEnd(f) \in Nat /\ ContractEnd(f) > 1
         /\ ContractEnd(f) <= n => ContractEnd(g) = ContractEnd(f)
         /\ BondEnd(f) \in Nat /\ BondEnd(f) > 1
         /\ BondEnd(f) <= n => BondEnd(g) = BondEnd(f)
<1> DEFINE ContractLast(v) == 18 + Since(3, v, 1) + Since(4, v, 1) + Since(5, v, 2) + Since(6, v, 7)
                         + Since(8, v, 2)
           BondLast(v) == 27 + Since(3, v, 1) + Since(4, v, 1) + Since(6, v, 2)
<1>1. 2 <= n => Version(g) = Version(f)
  BY DEF Agree, Version
<1>2. \A v : ContractLast(v) \in Nat /\ ContractLast(v) > 5 /\ BondLast(v) \in Nat /\ BondLast(v) > 5
  BY DEF Since
<1>3. \A h : /\ ContractEnd(h) = IF Version(h) >= 7 THEN List(h, ContractLast(Version(h)), 2)
                                   ELSE ContractLast(Version(h))
             /\ BondEnd(h) = IF Version(h) >= 5 THEN List(h, BondLast(Version(h)), 2)
                               ELSE BondLast(Version(h))
  BY DEF ContractEnd, BondEnd
<1> HIDE DEF ContractLast, BondLast
<1> DEFINE last == ContractLast(Version(f))
           bond == BondLast(Version(f))
<1>4. last \in Nat /\ last > 5 /\ bond \in Nat /\ bond > 5
  BY <1>2
<1> HIDE DEF last, bond
<1>5. /\ List(f, last, 2) \in Nat /\ last + 1 <= List(f, last, 2)
      /\ List(f, bond, 2) \in Nat /\ bond + 1 <= List(f, bond, 2)
  BY <1>4, ListFacts
<1>6. /\ ContractEnd(f) = IF Version(f) >= 7 THEN List(f, last, 2) ELSE last
      /\ BondEnd(f) = IF Version(f) >= 5 THEN List(f, bond, 2) ELSE bond
  BY <1>3 DEF last, bond
<1>7. /\ ContractEnd(f) \in Nat /\ ContractEnd(f) > 5
      /\ BondEnd(f) \in Nat /\ BondEnd(f) > 5
  BY <1>4, <1>5, <1>6
<1>8. ASSUME ContractEnd(f) <= n
      PROVE  ContractEnd(g) = ContractEnd(f)
  <2>1. Version(g) = Version(f)
    BY <1>1, <1>7, <1>8
  <2>2. CASE Version(f) >= 7
    <3>1. List(f, last, 2) <= n
      BY <1>6, <1>8, <2>2
    <3>2. List(g, last, 2) = List(f, last, 2)
      BY <1>4, <3>1, ListLocal
    <3> QED
      BY <1>3, <1>6, <2>1, <2>2, <3>2 DEF last
  <2> QED
    BY <1>3, <1>6, <2>1, <2>2 DEF last
<1>9. ASSUME BondEnd(f) <= n
      PROVE  BondEnd(g) = BondEnd(f)
  <2>1. Version(g) = Version(f)
    BY <1>1, <1>7, <1>9
  <2>2. CASE Version(f) >= 5
    <3>1. List(f, bond, 2) <= n
      BY <1>6, <1>9, <2>2
    <3>2. List(g, bond, 2) = List(f, bond, 2)
      BY <1>4, <3>1, ListLocal
    <3> QED
      BY <1>3, <1>6, <2>1, <2>2, <3>2 DEF bond
  <2> QED
    BY <1>3, <1>6, <2>1, <2>2 DEF bond
<1> QED
  BY <1>7, <1>8, <1>9

LEMMA LegsLocal ==
  ASSUME NEW f \in Seq(Int), NEW g \in Seq(Int), NEW n \in Nat, Agree(f, g, n), NEW tws
  PROVE  /\ OpenOrderLegs(f, tws) \in Nat /\ OpenOrderLegs(f, tws) > 5
         /\ OpenOrderLegs(f, tws) <= n =>
              /\ Version(g) = Version(f)
              /\ OpenOrderLegs(g, tws) = OpenOrderLegs(f, tws)
<1> DEFINE H(v) == 59 + Since(32, v, 2) + (IF tws = MIN_SERVER_VER_SSHORTX_OLD \/ v >= 23 THEN 1 ELSE 0)
           P(v, h, x) == h + 2 + (IF x # 0 THEN Since(27, v, 4) + Since(31, v, 4) ELSE 0)
                           + 6 + Since(30, v, 1)
<1>1. \A v : H(v) \in Nat /\ H(v) > 5
  BY DEF Since
<1>2. \A v, x : \A h \in Nat : P(v, h, x) \in Nat /\ P(v, h, x) > h + 5
  BY DEF Since
<1> DEFINE Of(s) == P(Version(s), H(Version(s)), Field(s, H(Version(s)) + 1))
           Legs(s, p) == IF Version(s) >= 29 THEN List(s, List(s, p, 8), 1) ELSE p
<1>3. \A s : OpenOrderLegs(s, tws) =
               IF Version(s) >= 26 THEN List(s, Legs(s, Of(s)), 2) ELSE Legs(s, Of(s))
  BY DEF OpenOrderLegs, OpenOrderHead
<1> DEFINE head   == H(Version(f))
           prices == Of(f)
           first  == List(f, prices, 8)
           second == List(f, first, 1)
           legs   == Legs(f, prices)
<1> HIDE DEF H, P
<1>4. head \in Nat /\ head > 5 /\ prices \in Nat /\ prices > head + 5
  <2>1. head \in Nat /\ head > 5
    BY <1>1
  <2> HIDE DEF head
  <2>2. prices = P(Version(f), head, Field(f, head + 1))
    BY DEF head
  <2> HIDE DEF prices
  <2> QED
    BY <1>2, <2>1, <2>2
<1> HIDE DEF Legs
<1>5. first \in Nat /\ first > prices
  <2> HIDE DEF prices
  <2>1. List(f, prices, 8) \in Nat /\ prices + 1 <= List(f, prices, 8)
    BY <1>4, ListFacts
  <2> QED
    BY <1>4, <2>1
<1>6. second \in Nat /\ second > first
  <2> HIDE DEF first
  <2>1. List(f, first, 1) \in Nat /\ first + 1 <= List(f, first, 1)
    BY <1>5, ListFacts
  <2> QED
    BY <1>5, <2>1
<1>7. legs = IF Version(f) >= 29 THEN second ELSE prices
  <2> HIDE DEF prices
  <2> QED
    BY DEF Legs
<1> HIDE DEF first, second, legs
<1> HIDE DEF prices, Of
<1>8. legs \in Nat /\ legs >= prices
  BY <1>4, <1>5, <1>6, <1>7
<1>9. List(f, legs, 2) \in Nat /\ List(f, legs, 2) > legs
  <2>1. List(f, legs, 2) \in Nat /\ legs + 1 <= List(f, legs, 2)
    BY <1>8, ListFacts
  <2> QED
    BY <1>8, <2>1
<1>10. OpenOrderLegs(f, tws) = IF Version(f) >= 26 THEN List(f, legs, 2) ELSE legs
  <2>1. OpenOrderLegs(f, tws) =
          IF Version(f) >= 26 THEN List(f, Legs(f, Of(f)), 2) ELSE Legs(f, Of(f))
    BY <1>3
  <2> QED
    BY <2>1 DEF legs, prices
<1>11. OpenOrderLegs(f, tws) \in Nat /\ OpenOrderLegs(f, tws) >= legs
  BY <1>8, <1>9, <1>10
<1>12. OpenOrderLegs(f, tws) > 5
  BY <1>4, <1>8, <1>11
<1>13. ASSUME OpenOrderLegs(f, tws) <= n
       PROVE  /\ Version(g) = Version(f)
              /\ OpenOrderLegs(g, tws) = OpenOrderLegs(f, tws)
  <2>1. Version(g) = Version(f)
    BY <1>11, <1>12, <1>13 DEF Agree, Version
  <2>2. Of(g) = prices
    <3>1. head + 1 \in 1 .. n
      BY <1>4, <1>8, <1>11, <1>13
    <3>2. Field(g, head + 1) = Field(f, head + 1)
      BY <3>1 DEF Agree
    <3> QED
      BY <2>1, <3>2 DEF Of, prices
  <2>3. Legs(g, prices) = legs
    <3>1. CASE Version(f) >= 29
      <4>1. legs = second /\ first <= n /\ second <= n
        BY <1>5, <1>6, <1>7, <1>11, <1>13, <3>1
      <4>2. List(g, prices, 8) = first
        BY <1>4, <4>1, ListLocal DEF first
      <4>3. List(g, first, 1) = second
        BY <1>5, <4>1, ListLocal DEF second
      <4> QED
        BY <2>1, <3>1, <4>1, <4>2, <4>3 DEF Legs
    <3>2. CASE ~(Version(f) >= 29)
      BY <1>7, <2>1, <3>2 DEF Legs
    <3> QED
      BY <3>1, <3>2
  <2>4. CASE Version(f) >= 26
    <3>1. List(f, legs, 2) <= n
      BY <1>10, <1>13, <2>4
    <3>2. List(g, legs, 2) = List(f, legs, 2)
      BY <1>8, <3>1, ListLocal
    <3> QED
      BY <1>3, <1>10, <2>1, <2>2, <2>3, <2>4, <3>2
  <2>5. CASE ~(Version(f) >= 26)
    <3> QED
      BY <1>3, <1>10, <2>1, <2>2, <2>3, <2>5
  <2> QED
    BY <2>1, <2>4, <2>5
<1> QED
  BY <1>11, <1>12, <1>13

LEMMA OpenOrderLocal ==
  ASSUME NEW f \in Seq(Int), NEW g \in Seq(Int), NEW n \in Nat, Agree(f, g, n), NEW tws
  PROVE  /\ OpenOrderEnd(f, tws) \in Nat /\ OpenOrderEnd(f, tws) > 5
         /\ OpenOrderEnd(f, tws) <= n => OpenOrderEnd(g, tws) = OpenOrderEnd(f, tws)
<1> DEFINE Scale(v, l, x) == l + 1 + (IF x > 0 THEN Since(28, v, 7) ELSE 0)
           Held(v, h) == h + Since(25, v, 1) + 2 + Since(22, v, 1)
<1>1. \A v, x : \A l \in Nat : /\ Scale(v, l, x) \in Nat /\ Scale(v, l, x) > l
                              /\ Held(v, l) \in Nat /\ Held(v, l) > l
  BY DEF Since
<1> DEFINE Levels(s)   == OpenOrderLegs(s, tws) + 2
           ScaleOf(s)  == Scale(Version(s), Levels(s), Field(s, Levels(s) + 1))
           Hedge(s, p) == IF Version(s) >= 24 THEN Optional(s, p, 1) ELSE p
           Under(s, p) == IF Version(s) >= 20 THEN Optional(s, p, 3) ELSE p
           Algo(s, p)  == IF Version(s) < 21 THEN p
                          ELSE IF Field(s, p + 1) # 0 THEN List(s, p + 1, 2)
                          ELSE p + 1
<1>2. \A s : OpenOrderEnd(s, tws) =
               Algo(s, Under(s, Held(Version(s), Hedge(s, ScaleOf(s))))) + 10
  BY DEF OpenOrderEnd
<1> HIDE DEF Scale, Held
<1> DEFINE levels == Levels(f)
           scale  == ScaleOf(f)
           hedge  == Hedge(f, scale)
           held   == Held(Version(f), hedge)
           under  == Under(f, held)
           algo   == Algo(f, under)
<1>3. levels \in Nat /\ levels > 5 /\ levels = OpenOrderLegs(f, tws) + 2
  <2>1. OpenOrderLegs(f, tws) \in Nat /\ OpenOrderLegs(f, tws) > 5
    BY LegsLocal
  <2> QED
    BY <2>1
<1>4. scale = Scale(Version(f), levels, Field(f, levels + 1))
  OBVIOUS
<1> HIDE DEF levels, Levels
<1>5. scale \in Nat /\ scale > levels
  <2> HIDE DEF scale
  <2> QED
    BY <1>1, <1>3, <1>4
<1> HIDE DEF scale, ScaleOf
<1>6. hedge \in Nat /\ hedge >= scale /\ (Version(f) >= 24 => hedge = Optional(f, scale, 1))
  <2>1. Optional(f, scale, 1) \in Nat /\ scale + 1 <= Optional(f, scale, 1)
    BY <1>5, OptionalFacts
  <2> QED
    BY <1>5, <2>1
<1> HIDE DEF hedge, Hedge
<1>7. held \in Nat /\ held > hedge
  BY <1>1, <1>6
<1> HIDE DEF held
<1>8. under \in Nat /\ under >= held /\ (Version(f) >= 20 => under = Optional(f, held, 3))
  <2>1. Optional(f, held, 3) \in Nat /\ held + 1 <= Optional(f, held, 3)
    BY <1>7, OptionalFacts
  <2> QED
    BY <1>7, <2>1
<1> HIDE DEF under, Under
<1>9. /\ algo \in Nat /\ algo >= under
      /\ ~(Version(f) < 21) => algo >= under + 1
      /\ ~(Version(f) < 21) /\ Field(f, under + 1) # 0 => algo = List(f, under + 1, 2)
  <2>1. under + 1 \in Nat
    BY <1>8
  <2>2. List(f, under + 1, 2) \in Nat /\ (under + 1) + 1 <= List(f, under + 1, 2)
    BY <2>1, ListFacts
  <2> QED
    BY <1>8, <2>1, <2>2
<1> HIDE DEF algo, Algo
<1>10. OpenOrderEnd(f, tws) = algo + 10
  <2>1. OpenOrderEnd(f, tws) =
          Algo(f, Under(f, Held(Version(f), Hedge(f, ScaleOf(f))))) + 10
    BY <1>2
  <2> QED
    BY <2>1 DEF algo, under, held, hedge, scale
<1>11. OpenOrderEnd(f, tws) \in Nat /\ OpenOrderEnd(f, tws) > 5
  BY <1>3, <1>5, <1>6, <1>7, <1>8, <1>9, <1>10
<1>12. ASSUME OpenOrderEnd(f, tws) <= n
       PROVE  OpenOrderEnd(g, tws) = OpenOrderEnd(f, tws)
  <2>1. /\ algo <= n /\ under <= n /\ held <= n /\ hedge <= n /\ scale <= n
        /\ levels + 1 \in 1 .. n /\ OpenOrderLegs(f, tws) <= n
    <3>1. OpenOrderLegs(f, tws) \in Nat
      BY LegsLocal
    <3> QED
      BY <3>1, <1>3, <1>5, <1>6, <1>7, <1>8, <1>9, <1>10, <1>12
  <2>2. Version(g) = Version(f) /\ OpenOrderLegs(g, tws) = OpenOrderLegs(f, tws)
    BY <2>1, LegsLocal
  <2>3. Levels(g) = levels
    BY <2>2 DEF Levels, levels
  <2>4. Field(g, levels + 1) = Field(f, levels + 1)
    BY <2>1 DEF Agree
  <2>5. ScaleOf(g) = scale
    BY <1>4, <2>2, <2>3, <2>4 DEF ScaleOf
  <2>6. Hedge(g, scale) = hedge
    <3>1. CASE Version(f) >= 24
      <4>1. Optional(f, scale, 1) <= n
        BY <1>6, <2>1, <3>1
      <4>2. Optional(g, scale, 1) = Optional(f, scale, 1)
        BY <1>5, <4>1, OptionalLocal
      <4> QED
        BY <1>6, <2>2, <3>1, <4>2 DEF Hedge
    <3> QED
      BY <2>2, <3>1 DEF Hedge, hedge
  <2>7. Under(g, held) = under
    <3>1. CASE Version(f) >= 20
      <4>1. Optional(f, held, 3) <= n
        BY <1>8, <2>1, <3>1
      <4>2. Optional(g, held, 3) = Optional(f, held, 3)
        BY <1>7, <4>1, OptionalLocal
      <4> QED
        BY <1>8, <2>2, <3>1, <4>2 DEF Under
    <3> QED
      BY <2>2, <3>1 DEF Under, under
  <2>8. Algo(g, under) = algo
    <3>1. CASE ~(Version(f) < 21)
      <4>1. under + 1 \in 1 .. n
        BY <1>8, <1>9, <2>1, <3>1
      <4>2. Field(g, under + 1) = Field(f, under + 1)
        BY <4>1 DEF Agree
      <4>3. CASE Field(f, under + 1) # 0
        <5>1. List(f, under + 1, 2) <= n /\ under + 1 \in Nat
          BY <1>9, <2>1, <3>1, <4>1, <4>3
        <5>2. List(g, under + 1, 2) = List(f, under + 1, 2)
          BY <5>1, ListLocal
        <5> QED
          BY <2>2, <4>2, <5>2 DEF Algo, algo
      <4> QED
        BY <2>2, <4>2, <4>3 DEF Algo, algo
    <3> QED
      BY <2>2, <3>1 DEF Algo, algo
  <2>9. OpenOrderEnd(g, tws) =
          Algo(g, Under(g, Held(Version(g), Hedge(g, ScaleOf(g))))) + 10
    BY <1>2
  <2> QED
    BY <1>10, <2>2, <2>5, <2>6, <2>7, <2>8, <2>9 DEF held
<1> QED
  BY <1>11, <1>12

\* The messages of fixed length have more than one field.
LEMMA FixedLengths ==
  \A i \in DOMAIN FixedLength : FixedLength[i] \in Nat /\ FixedLength[i] > 1
<1> DEFINE Long(rows) == \A row \in rows : row[2] \in Nat /\ row[2] > 1
           rows == PriceAndSize \cup OtherTicksAndOrders \cup AccountValue
                     \cup AccountTimeAndNextId \cup DepthAndBulletins \cup DataAndEnds
                     \cup SnapshotAndCommission \cup SummaryAndGroups
<1>1. Long(PriceAndSize) /\ Long(OtherTicksAndOrders)
  BY DEF PriceAndSize, OtherTicksAndOrders
<1>2. Long(AccountValue) /\ Long(AccountTimeAndNextId) /\ Long(DepthAndBulletins)
  BY DEF AccountValue, AccountTimeAndNextId, DepthAndBulletins
<1>3. Long(DataAndEnds)
  BY DEF DataAndEnds
<1>4. Long(SnapshotAndCommission) /\ Long(SummaryAndGroups)
  BY DEF SnapshotAndCommission, SummaryAndGroups
<1>5. Long(rows)
  BY <1>1, <1>2, <1>3, <1>4
<1>6. FixedLength =
        [id \in {row[1] : row \in rows} |-> (CHOOSE row \in rows : row[1] = id)[2]]
  BY DEF FixedLength
<1> HIDE DEF rows
<1>7. ASSUME NEW i \in DOMAIN FixedLength
      PROVE  FixedLength[i] \in Nat /\ FixedLength[i] > 1
  <2>1. \E row \in rows : row[1] = i
    BY <1>6
  <2> DEFINE row == CHOOSE row \in rows : row[1] = i
  <2>2. row \in rows /\ FixedLength[i] = row[2]
    BY <1>6, <2>1
  <2> HIDE DEF row
  <2> QED
    BY <1>5, <2>2
<1> QED
  BY <1>7

LEMMA EndOfSameId ==
  ASSUME NEW f \in Seq(Int), NEW g \in Seq(Int), NEW n \in Nat, Agree(f, g, n), NEW tws,
         Field(g, 1) = Field(f, 1)
  PROVE  /\ End(f, tws) \in Nat /\ End(f, tws) > 0
         /\ End(f, tws) <= n => End(g, tws) = End(f, tws)
<1> DEFINE Local(e, d) == e \in Nat /\ e > 0 /\ (e <= n => d = e)
           id == Field(f, 1)
<1>1. Field(g, 1) = id
  OBVIOUS
<1>2. /\ Local(HistoricalEnd(f), HistoricalEnd(g)) /\ Local(ScannerEnd(f), ScannerEnd(g))
      /\ Local(TickOptionEnd(f), TickOptionEnd(g)) /\ Local(PositionEnd(f), PositionEnd(g))
      /\ Local(ExecutionEnd(f), ExecutionEnd(g))
      /\ Local(PortfolioEnd(f, tws), PortfolioEnd(g, tws))
  BY SimpleLocal
<1>3. Local(ContractEnd(f), ContractEnd(g)) /\ Local(BondEnd(f), BondEnd(g))
  BY ContractLocal
<1>4. Local(OpenOrderEnd(f, tws), OpenOrderEnd(g, tws))
  BY OpenOrderLocal
<1>5. \A i \in DOMAIN FixedLength : Local(FixedLength[i], FixedLength[i])
  BY FixedLengths
<1>6. Local(1, 1)
  OBVIOUS
<1>7. Local(End(f, tws), End(g, tws))
  <2> HIDE DEF Local
  <2> QED
    BY <1>1, <1>2, <1>3, <1>4, <1>5, <1>6 DEF End
<1> QED
  BY <1>7

\* Where a message ends (processMsg and the decoders it calls) depends on its own fields
\* alone: whatever has the same first n fields, and End within them, ends it there too.
THEOREM EndLocal ==
  ASSUME NEW f \in Seq(Int), NEW g \in Seq(Int), NEW n \in Nat, Agree(f, g, n), NEW tws
  PROVE  /\ End(f, tws) \in Nat /\ End(f, tws) > 0
         /\ End(f, tws) <= n => End(g, tws) = End(f, tws)
<1>1. Agree(f, f, n)
  BY DEF Agree
<1>2. End(f, tws) \in Nat /\ End(f, tws) > 0
  BY <1>1, EndOfSameId
<1>3. ASSUME End(f, tws) <= n
      PROVE  End(g, tws) = End(f, tws)
  <2>1. 1 \in 1 .. n
    BY <1>2, <1>3
  <2>2. Field(g, 1) = Field(f, 1)
    BY <2>1 DEF Agree
  <2> QED
    BY <1>3, <2>2, EndOfSameId
<1> QED
  BY <1>2, <1>3

\* If what has been received, r, and what has not, t, are a message m and what follows it,
\* w, and r is long enough, then m is at the front of r and w is the rest.
LEMMA FieldsMatch ==
  ASSUME NEW r \in Seq(Int), NEW t \in Seq(Int), NEW m \in Seq(Int), NEW w \in Seq(Int),
         r \o t = m \o w, NEW n \in 1 .. Len(r), n = Len(m)
  PROVE  /\ SubSeq(r, 1, n) = m
         /\ SubSeq(r, n + 1, Len(r)) \o t = w
<1>1. SubSeq(r, n + 1, Len(r)) \o t = SubSeq(r \o t, n + 1, Len(r \o t))
  BY DropFromFirst
<1>2. SubSeq(r, 1, n) = SubSeq(r \o t, 1, n)
  <2>1. n \in 0 .. Len(r)
    BY LenProperties
  <2> QED
    BY <2>1, TakeFromFirst
<1>3. /\ m = SubSeq(m \o w, 1, n)
      /\ w = SubSeq(m \o w, n + 1, Len(m \o w))
  BY SplitConcat
<1> QED
  BY <1>1, <1>2, <1>3

\* It is the same in what has been received as in all that comes, and the message itself
\* shows it.
LEMMA EndOfFirst ==
  ASSUME NEW r \in Seq(Int), NEW t \in Seq(Int), NEW m \in Seq(Int), NEW w \in Seq(Int),
         r \o t = m \o w, NEW tws, End(m, tws) = Len(m), End(r, tws) <= Len(r)
  PROVE  End(r, tws) = Len(m) /\ Len(m) \in 1 .. Len(r)
<1>1. Len(r) \in Nat /\ Len(m) \in Nat /\ Len(t) \in Nat /\ Len(w) \in Nat
  BY LenProperties
<1>2. /\ r \o t \in Seq(Int)
      /\ DOMAIN (r \o t) = 1 .. Len(r) + Len(t) /\ DOMAIN (m \o w) = 1 .. Len(m) + Len(w)
      /\ DOMAIN r = 1 .. Len(r) /\ DOMAIN m = 1 .. Len(m)
      /\ \A i \in 1 .. Len(r) + Len(t) : (r \o t)[i] = IF i <= Len(r) THEN r[i] ELSE t[i - Len(r)]
      /\ \A i \in 1 .. Len(m) + Len(w) : (m \o w)[i] = IF i <= Len(m) THEN m[i] ELSE w[i - Len(m)]
  BY ConcatProperties, LenProperties
<1> DEFINE all == r \o t
<1>3. Agree(r, all, Len(r))
  <2> SUFFICES ASSUME NEW i \in 1 .. Len(r)
               PROVE  Field(r, i) = Field(all, i)
    BY DEF Agree
  <2>1. i \in 1 .. Len(r) + Len(t) /\ i <= Len(r)
    BY <1>1
  <2>2. all[i] = r[i]
    BY <1>2, <2>1
  <2> QED
    BY <1>2, <2>1, <2>2 DEF Field
<1>4. Agree(m, all, Len(m))
  <2>1. all = m \o w
    OBVIOUS
  <2> HIDE DEF all
  <2> SUFFICES ASSUME NEW i \in 1 .. Len(m)
               PROVE  Field(m, i) = Field(all, i)
    BY DEF Agree
  <2>2. i \in 1 .. Len(m) + Len(w) /\ i <= Len(m)
    BY <1>1
  <2>3. (m \o w)[i] = m[i]
    BY <1>2, <2>2
  <2> QED
    BY <1>2, <2>1, <2>2, <2>3 DEF Field
<1> HIDE DEF all
<1>5. all \in Seq(Int)
  BY <1>2 DEF all
<1>6. End(r, tws) \in Nat /\ End(r, tws) > 0 /\ End(all, tws) = End(r, tws)
  BY <1>1, <1>3, <1>5, EndLocal
<1>7. End(m, tws) <= Len(m)
  BY <1>1
<1>8. End(all, tws) = End(m, tws)
  BY <1>1, <1>4, <1>5, <1>7, EndLocal
<1> QED
  BY <1>1, <1>6, <1>8

-----------------------------------------------------------------------------
(* The buffer.                                                             *)

LEMMA RestFacts ==
  ASSUME TypeOK
  PROVE  /\ Rest \in Seq(Int) /\ Len(Rest) = Len(inBuf) - pos /\ Len(inBuf) \in Nat
         /\ pos \in Nat /\ Coming \in Seq(Int)
         /\ decoding => Len(Rest) > 0
<1>1. inBuf \in Seq(Int) /\ pos \in 0 .. Len(inBuf) /\ stream \in Seq(Int)
  BY DEF TypeOK
<1>2. Rest \in Seq(Int) /\ Len(Rest) = Len(inBuf) - pos /\ Len(inBuf) \in Nat
  BY <1>1, Drop, LenProperties DEF Rest
<1>3. Coming \in Seq(Int)
  BY <1>1, <1>2, ConcatProperties DEF Coming
<1>4. decoding => pos < Len(inBuf)
  BY DEF TypeOK
<1> QED
  BY <1>1, <1>2, <1>3, <1>4

\* The fields of the buffer have their types behind a step, and it is read from its
\* start when checkMessages returns.
BufferOK ==
  /\ decoding \in BOOLEAN /\ inBuf \in Seq(Int) /\ pos \in 0 .. Len(inBuf)
  /\ decoding => pos < Len(inBuf)
  /\ ~decoding => pos = 0

LEMMA ReturnOK ==
  ASSUME inBuf' \in Seq(Int), pos' = 0, decoding' = FALSE
  PROVE  BufferOK'
<1>1. decoding' \in BOOLEAN /\ ~decoding'
  OBVIOUS
<1>2. Len(inBuf') \in Nat
  BY LenProperties
<1>3. pos' \in 0 .. Len(inBuf')
  BY <1>2
<1> QED
  BY <1>1, <1>3 DEF BufferOK

LEMMA KeepRest ==
  ASSUME TypeOK, Cleanup(pos)
  PROVE  BufferOK' /\ ~decoding' /\ inBuf' = Rest /\ Rest' = Rest
<1>1. Rest \in Seq(Int) /\ Len(Rest) \in Nat
  BY RestFacts, LenProperties
<1>2. inBuf' = Rest /\ pos' = 0 /\ decoding' = FALSE
  BY DEF Cleanup, Rest
<1>3. Rest' = SubSeq(Rest, 1, Len(Rest))
  <2>1. Rest' = SubSeq(inBuf', pos' + 1, Len(inBuf'))
    BY DEF Rest
  <2>2. Rest' = SubSeq(Rest, 0 + 1, Len(Rest))
    BY <1>2, <2>1
  <2> QED
    BY <2>2
<1>4. Rest' = Rest
  BY <1>1, <1>3, SubSeqFull
<1> QED
  BY <1>1, <1>2, <1>4, ReturnOK

LEMMA ConsumeFacts ==
  ASSUME TypeOK, decoding, NEW n \in 1 .. Len(Rest), Consume(n)
  PROVE  /\ BufferOK' /\ Rest' = SubSeq(Rest, n + 1, Len(Rest))
         /\ ~decoding' => inBuf' = <<>>
<1>1. /\ Rest \in Seq(Int) /\ Len(Rest) = Len(inBuf) - pos /\ Len(inBuf) \in Nat
      /\ pos \in Nat /\ inBuf \in Seq(Int)
  BY RestFacts DEF TypeOK
<1>2. SubSeq(Rest, n + 1, Len(Rest)) = SubSeq(inBuf, (pos + n) + 1, Len(inBuf))
  <2>1. pos \in 0 .. Len(inBuf) /\ n \in 0 .. Len(inBuf) - pos
    BY <1>1
  <2> QED
    BY <1>1, <2>1, DropTwice DEF Rest
<1>3. CASE pos + n >= Len(inBuf)
  <2>1. /\ inBuf' = SubSeq(inBuf, (pos + n) + 1, Len(inBuf)) /\ pos' = 0 /\ decoding' = FALSE
    BY <1>3 DEF Consume, Cleanup
  <2>2. inBuf' = <<>>
    <3>1. (pos + n) + 1 \in Int /\ Len(inBuf) \in Int /\ Len(inBuf) < (pos + n) + 1
      BY <1>1, <1>3
    <3> QED
      BY <2>1, <3>1, SubSeqEmpty
  <2>3. Rest' = <<>>
    <3>1. Rest' = SubSeq(inBuf', pos' + 1, Len(inBuf'))
      BY DEF Rest
    <3>2. Rest' = SubSeq(<<>>, 0 + 1, Len(<<>>)) /\ Len(<<>>) = 0
      BY <2>1, <2>2, <3>1, EmptySeq
    <3>3. Len(<<>>) < 0 + 1 /\ 0 + 1 \in Int /\ Len(<<>>) \in Int
      BY <3>2
    <3> QED
      BY <3>2, <3>3, SubSeqEmpty
  <2>4. inBuf' \in Seq(Int) /\ Len(inBuf') = 0
    BY <2>2, EmptySeq
  <2>5. SubSeq(Rest, n + 1, Len(Rest)) = <<>>
    BY <1>2, <2>1, <2>2
  <2>6. BufferOK'
    BY <2>1, <2>4, ReturnOK
  <2> QED
    BY <2>2, <2>3, <2>5, <2>6
<1>4. CASE ~(pos + n >= Len(inBuf))
  <2>1. pos' = pos + n /\ inBuf' = inBuf /\ decoding' = decoding
    BY <1>4 DEF Consume
  <2>2. Rest' = SubSeq(inBuf, (pos + n) + 1, Len(inBuf))
    BY <2>1 DEF Rest
  <2>3. BufferOK'
    BY <1>1, <1>4, <2>1 DEF BufferOK
  <2> QED
    BY <1>2, <2>1, <2>2, <2>3
<1> QED
  BY <1>3, <1>4

LEMMA DisconnectFacts ==
  ASSUME Disconnect
  PROVE  BufferOK' /\ IdleInv' /\ ~connected' /\ ~fd' /\ serverVersion' = 0
<1>1. inBuf' = <<>> /\ pos' = 0 /\ decoding' = FALSE
  BY DEF Disconnect
<1>2. inBuf' \in Seq(Int)
  BY <1>1, EmptySeq
<1>3. BufferOK'
  BY <1>1, <1>2, ReturnOK
<1> QED
  BY <1>1, <1>3 DEF Disconnect, IdleInv

-----------------------------------------------------------------------------
(* What comes.                                                             *)

LEMMA FieldsRegroup ==
  ASSUME NEW r \in Seq(Int), NEW t \in Seq(Int), NEW m \in Seq(Int)
  PROVE  (r \o t) \o m = r \o (t \o m)
<1> DEFINE S == Int
<1>1. r \in Seq(S) /\ t \in Seq(S) /\ m \in Seq(S)
  OBVIOUS
<1> HIDE DEF S
<1> QED
  BY <1>1, ConcatAssociative

LEMMA SentFacts ==
  ASSUME InBufferAssumption, TypeOK, SentInv
  PROVE  /\ sent \in Seq(Seq(Int)) /\ passed \in Seq(Seq(Int))
         /\ FlattenSeq(sent) \in Seq(Int)
         /\ sent # <<>> => server \in ServerVersions
         /\ \A i \in 1 .. Len(sent) : End(sent[i], server) = Len(sent[i])
         /\ Ack \in Seq(Int)
         /\ server = 0 => Ack = <<>> /\ sent = <<>>
         /\ server # 0 => Len(Ack) > 0 /\ Ack[1] = server
         /\ server >= SERVER_VERSION => Len(Ack) = 2
<1>1. /\ sent \in Seq(Seq(Int)) /\ passed \in Seq(Seq(Int))
      /\ server \in ServerVersions \cup {0} /\ ServerVersions \subseteq Nat \ {0}
  BY DEF TypeOK, InBufferAssumption
<1>2. server = 0 => sent = <<>>
  BY DEF SentInv, SERVER_VERSION
<1>3. sent # <<>> => server \in ServerVersions
  BY <1>1, <1>2
<1>4. ASSUME NEW i \in 1 .. Len(sent)
      PROVE  End(sent[i], server) = Len(sent[i])
  <2>1. sent # <<>>
    BY EmptySeq
  <2> QED
    BY <1>3, <2>1 DEF SentInv, InBufferAssumption
<1>5. FlattenSeq(sent) \in Seq(Int)
  BY <1>1, FlattenType
<1>6. /\ Ack \in Seq(Int)
      /\ server = 0 => Ack = <<>>
      /\ server # 0 => Len(Ack) > 0 /\ Ack[1] = server
      /\ server >= SERVER_VERSION => Len(Ack) = 2
  <2>1. server \in Nat
    BY <1>1
  <2>2. CASE server = 0
    BY <2>2 DEF Ack, SERVER_VERSION
  <2>3. CASE server # 0 /\ server >= 20
    <3>1. Ack = <<server, 0>>
      BY <2>3 DEF Ack
    <3> QED
      BY <2>1, <2>3, <3>1
  <2>4. CASE server # 0 /\ ~(server >= 20)
    <3>1. Ack = <<server>>
      BY <2>4 DEF Ack
    <3> QED
      BY <2>1, <2>4, <3>1 DEF SERVER_VERSION
  <2> QED
    BY <2>2, <2>3, <2>4
<1> QED
  BY <1>1, <1>2, <1>3, <1>4, <1>5, <1>6

LEMMA UnpassedFacts ==
  ASSUME InBufferAssumption, Inv
  PROVE  /\ Len(passed) \in 0 .. Len(sent) /\ Unpassed \in Seq(Seq(Int))
         /\ Len(Unpassed) = Len(sent) - Len(passed)
         /\ FlattenSeq(Unpassed) \in Seq(Int)
<1>1. sent \in Seq(Seq(Int)) /\ passed \in Seq(Seq(Int))
  BY DEF Inv, TypeOK
<1>2. Len(passed) \in 0 .. Len(sent)
  BY <1>1, LenProperties DEF Inv, PassedInOrderOnce, IsPrefix
<1>3. Unpassed \in Seq(Seq(Int)) /\ Len(Unpassed) = Len(sent) - Len(passed)
  BY <1>1, <1>2, Drop DEF Unpassed
<1> QED
  BY <1>2, <1>3, FlattenType

\* The message that is decoded is the next one that TWS has sent, and when its end is
\* found it is whole.
LEMMA NextMessage ==
  ASSUME InBufferAssumption, Inv, decoding, connected,
         End(Rest, serverVersion) <= Len(Rest)
  PROVE  LET n == End(Rest, serverVersion) IN
         /\ n \in 1 .. Len(Rest) /\ Len(passed) + 1 \in 1 .. Len(sent)
         /\ SubSeq(Rest, 1, n) = sent[Len(passed) + 1]
         /\ SubSeq(Rest, n + 1, Len(Rest)) \o stream
              = FlattenSeq(SubSeq(sent, (Len(passed) + 1) + 1, Len(sent)))
<1>1. /\ Rest \in Seq(Int) /\ Len(Rest) \in Nat /\ Len(Rest) > 0
      /\ stream \in Seq(Int) /\ Len(stream) \in Nat
      /\ Len(Coming) = Len(Rest) + Len(stream)
  BY RestFacts, LenProperties, ConcatProperties DEF Inv, TypeOK, Coming
<1>2. /\ Len(passed) \in 0 .. Len(sent) /\ Unpassed \in Seq(Seq(Int))
      /\ Len(Unpassed) = Len(sent) - Len(passed)
      /\ sent \in Seq(Seq(Int)) /\ Len(sent) \in Nat
  BY UnpassedFacts, LenProperties DEF Inv, TypeOK
<1>3. server = serverVersion /\ Coming = FlattenSeq(Unpassed)
  BY DEF Inv, ComingInv
<1>4. Unpassed # <<>>
  <2> SUFFICES ASSUME Unpassed = <<>> PROVE FALSE
    OBVIOUS
  <2>1. FlattenSeq(Unpassed) = <<>>
    BY <1>2, FlattenType
  <2>2. Len(Coming) = 0
    BY <1>3, <2>1, EmptySeq
  <2>3. Len(Rest) + Len(stream) = 0
    BY <1>1, <2>2
  <2>4. Len(Rest) + Len(stream) > 0
    BY <1>1
  <2> QED
    BY <2>3, <2>4
<1>5. Len(passed) + 1 \in 1 .. Len(sent)
  <2>1. Len(Unpassed) # 0
    BY <1>2, <1>4, EmptySeq
  <2> QED
    BY <1>2, <2>1
<1> DEFINE m == sent[Len(passed) + 1]
           w == FlattenSeq(SubSeq(sent, (Len(passed) + 1) + 1, Len(sent)))
           n == End(Rest, serverVersion)
<1>6. Head(Unpassed) = m /\ Tail(Unpassed) = SubSeq(sent, (Len(passed) + 1) + 1, Len(sent))
  <2> DEFINE k == Len(passed) + 1
  <2>1. Unpassed = SubSeq(sent, k, Len(sent))
    BY DEF Unpassed
  <2>2. k \in 1 .. Len(sent)
    BY <1>5
  <2> HIDE DEF k
  <2>3. Len(sent) \in k .. Len(sent)
    BY <1>2, <2>2
  <2>4. /\ Head(SubSeq(sent, k, Len(sent))) = sent[k]
        /\ Tail(SubSeq(sent, k, Len(sent))) = SubSeq(sent, k + 1, Len(sent))
    BY <1>2, <2>2, <2>3, HeadTailOfSubSeq
  <2> QED
    BY <2>1, <2>4 DEF k
<1>7. m \in Seq(Int) /\ w \in Seq(Int) /\ Coming = m \o w
  <2>1. /\ Tail(Unpassed) \in Seq(Seq(Int)) /\ Head(Unpassed) \in Seq(Int)
        /\ FlattenSeq(Unpassed) = Head(Unpassed) \o FlattenSeq(Tail(Unpassed))
    BY <1>2, <1>4, FlattenFirst
  <2>2. FlattenSeq(Tail(Unpassed)) \in Seq(Int)
    BY <2>1, FlattenType
  <2> QED
    BY <1>3, <1>6, <2>1, <2>2
<1>8. End(m, serverVersion) = Len(m)
  BY <1>3, <1>5, SentFacts DEF Inv
<1> HIDE DEF m, w
<1>9. Rest \o stream = m \o w
  BY <1>7 DEF Coming
<1>10. /\ n \in 1 .. Len(Rest) /\ SubSeq(Rest, 1, n) = m
       /\ SubSeq(Rest, n + 1, Len(Rest)) \o stream = w
  <2>1. Rest \in Seq(Int) /\ stream \in Seq(Int) /\ m \in Seq(Int) /\ w \in Seq(Int)
    BY <1>1, <1>7
  <2>2. n = Len(m) /\ Len(m) \in 1 .. Len(Rest)
    BY <1>1, <1>7, <1>8, <1>9, EndOfFirst
  <2>3. PICK r \in Seq(Int), t \in Seq(Int), x \in Seq(Int), y \in Seq(Int), k \in Nat :
          r = Rest /\ t = stream /\ x = m /\ y = w /\ k = n
    BY <1>1, <2>1, <2>2
  <2>4. r \o t = x \o y /\ k = Len(x) /\ k \in 1 .. Len(r)
    BY <1>9, <2>2, <2>3
  <2>5. SubSeq(r, 1, k) = x /\ SubSeq(r, k + 1, Len(r)) \o t = y
    BY ONLY <2>4, FieldsMatch
  <2> QED
    BY <2>2, <2>3, <2>5
<1> QED
  BY <1>5, <1>10 DEF n, m, w

-----------------------------------------------------------------------------
(* The steps.                                                              *)

LEMMA NothingIsPrefix == IsPrefix(<<>>, <<>>)
<1>1. Len(<<>>) = 0
  BY EmptySeq
<1>2. SubSeq(<<>>, 1, 0) = <<>>
  BY SubSeqEmpty
<1> QED
  BY <1>1, <1>2 DEF IsPrefix

LEMMA Initially ==
  ASSUME InBufferAssumption, Init
  PROVE  Inv
<1>1. inBuf = <<>> /\ pos = 0 /\ <<>> \in Seq(Int) /\ <<>> \in Seq(Seq(Int)) /\ Len(<<>>) = 0
  BY EmptySeq DEF Init
<1>2. TypeOK
  <2>1. fd \in BOOLEAN /\ connected \in BOOLEAN /\ decoding \in BOOLEAN
    BY DEF Init
  <2>2. ~connected /\ ~decoding
    BY DEF Init
  <2>3. pos \in 0 .. Len(inBuf)
    BY <1>1
  <2>4. /\ inBuf \in Seq(Int) /\ stream \in Seq(Int)
        /\ sent \in Seq(Seq(Int)) /\ passed \in Seq(Seq(Int))
    BY <1>1 DEF Init
  <2>5. serverVersion \in ServerVersions \cup {0} /\ server \in ServerVersions \cup {0}
    BY DEF Init
  <2> QED
    BY <2>1, <2>2, <2>3, <2>4, <2>5 DEF TypeOK
<1>3. SentInv /\ IdleInv /\ ComingInv
  BY <1>1 DEF Init, SentInv, IdleInv, ComingInv
<1>4. PassedInOrderOnce
  <2>1. IsPrefix(<<>>, <<>>)
    BY NothingIsPrefix
  <2> QED
    BY <2>1 DEF Init, PassedInOrderOnce
<1>5. NothingWaits
  BY DEF Init, NothingWaits
<1> QED
  BY <1>2, <1>3, <1>4, <1>5 DEF Inv

\* eConnect finds an empty buffer.
LEMMA ConnectStep ==
  ASSUME InBufferAssumption, Inv, Connect
  PROVE  Inv'
<1>1. /\ fd' = TRUE /\ connected' = FALSE /\ decoding' = FALSE
      /\ inBuf' = <<>> /\ pos' = 0 /\ stream' = <<>> /\ server' = 0
      /\ sent' = <<>> /\ passed' = <<>> /\ serverVersion' = serverVersion
  BY DEF Inv, IdleInv, Connect, buffer, TypeOK
<1>2. <<>> \in Seq(Int) /\ <<>> \in Seq(Seq(Int)) /\ Len(<<>>) = 0
  BY EmptySeq
<1>3. TypeOK'
  <2>1. fd' \in BOOLEAN /\ connected' \in BOOLEAN /\ decoding' \in BOOLEAN
    BY <1>1
  <2>2. ~connected' /\ ~decoding'
    BY <1>1
  <2>3. pos' \in 0 .. Len(inBuf')
    BY <1>1, <1>2
  <2>4. /\ inBuf' \in Seq(Int) /\ stream' \in Seq(Int)
        /\ sent' \in Seq(Seq(Int)) /\ passed' \in Seq(Seq(Int))
    BY <1>1, <1>2
  <2>5. serverVersion' \in ServerVersions \cup {0} /\ server' \in ServerVersions \cup {0}
    BY <1>1 DEF Inv, TypeOK
  <2> QED
    BY <2>1, <2>2, <2>3, <2>4, <2>5 DEF TypeOK
<1>4. SentInv' /\ IdleInv'
  BY <1>1, <1>2 DEF SentInv, IdleInv
<1>5. Coming' = <<>>
  <2>1. Rest' = SubSeq(<<>>, 0 + 1, Len(<<>>))
    BY <1>1 DEF Rest
  <2>2. Rest' = <<>>
    BY <1>2, <2>1, SubSeqEmpty
  <2> QED
    BY <1>1, <1>2, <2>2, ConcatEmptySeq DEF Coming
<1>6. Ack' \o FlattenSeq(sent') = <<>>
  <2>1. Ack' = <<>> /\ FlattenSeq(sent') = <<>>
    BY <1>1, <1>2, FlattenType DEF Ack
  <2> QED
    BY <1>2, <2>1, ConcatEmptySeq
<1>7. ComingInv'
  BY <1>1, <1>5, <1>6 DEF ComingInv
<1>8. PassedInOrderOnce' /\ NothingWaits'
  <2>1. IsPrefix(<<>>, <<>>)
    BY NothingIsPrefix
  <2>2. ~connected'
    BY <1>1
  <2> QED
    BY <1>1, <2>1, <2>2 DEF PassedInOrderOnce, NothingWaits
<1> QED
  BY <1>3, <1>4, <1>7, <1>8 DEF Inv

\* A disconnect leaves nothing in the buffer.
LEMMA DisconnectStep ==
  ASSUME InBufferAssumption, Inv, Disconnect, UNCHANGED <<stream, server, sent>>,
         passed' \in Seq(Seq(Int)), PassedInOrderOnce'
  PROVE  Inv'
<1>1. BufferOK' /\ IdleInv' /\ ~connected' /\ ~fd' /\ serverVersion' = 0
  BY DisconnectFacts
<1>2. fd' \in BOOLEAN /\ connected' \in BOOLEAN
  BY DEF Disconnect
<1>3. decoding' => fd'
  BY <1>1 DEF IdleInv
<1>4. TypeOK'
  BY <1>1, <1>2, <1>3 DEF Inv, TypeOK, BufferOK
<1>5. SentInv'
  BY DEF Inv, SentInv
<1>6. ComingInv' /\ NothingWaits'
  BY <1>1 DEF ComingInv, NothingWaits
<1> QED
  BY <1>1, <1>4, <1>5, <1>6 DEF Inv

\* What is received moves from one end of what comes to the other.
LEMMA ReceiveStep ==
  ASSUME InBufferAssumption, Inv, Receive
  PROVE  Inv'
<1>1. /\ stream \in Seq(Int) /\ inBuf \in Seq(Int) /\ pos = 0 /\ Len(inBuf) \in Nat
      /\ Len(stream) \in Nat
  BY LenProperties DEF Inv, TypeOK, IdleInv, Receive
<1>2. PICK n \in 1 .. Len(stream) :
        /\ inBuf' = inBuf \o SubSeq(stream, 1, n)
        /\ stream' = SubSeq(stream, n + 1, Len(stream))
  BY DEF Receive
<1>3. /\ SubSeq(stream, 1, n) \in Seq(Int) /\ stream' \in Seq(Int)
      /\ SubSeq(stream, 1, n) \o stream' = stream
      /\ Len(SubSeq(stream, 1, n)) = n
  <2>1. n \in 0 .. Len(stream)
    BY <1>1
  <2>2. /\ SubSeq(stream, 1, n) \in Seq(Int)
        /\ SubSeq(stream, n + 1, Len(stream)) \in Seq(Int)
        /\ SubSeq(stream, 1, n) \o SubSeq(stream, n + 1, Len(stream)) = stream
    BY <1>1, <2>1, SplitAt
  <2>3. \A i \in 1 .. n : stream[i] \in Int
    BY <1>1, ElementOfSeq
  <2>4. Len(SubSeq(stream, 1, n)) = IF 1 <= n THEN n - 1 + 1 ELSE 0
    BY <1>1, <2>3, SubSeqProperties
  <2> QED
    BY <1>2, <2>2, <2>4
<1> DEFINE front == SubSeq(stream, 1, n)
<1> HIDE DEF front
<1>4. inBuf' \in Seq(Int) /\ Len(inBuf') = Len(inBuf) + n /\ inBuf' \o stream' = inBuf \o stream
  <2>1. front \in Seq(Int) /\ front \o stream' = stream /\ Len(front) = n /\ inBuf' = inBuf \o front
    BY <1>2, <1>3 DEF front
  <2>2. inBuf \o front \in Seq(Int) /\ Len(inBuf \o front) = Len(inBuf) + Len(front)
    BY <1>1, <2>1, ConcatProperties
  <2>3. (inBuf \o front) \o stream' = inBuf \o (front \o stream')
    <3>1. inBuf \in Seq(Int) /\ front \in Seq(Int) /\ stream' \in Seq(Int)
      BY <1>1, <1>3, <2>1
    <3> QED
      BY ONLY <3>1, FieldsRegroup
  <2> QED
    BY <2>1, <2>2, <2>3
<1>5. /\ pos' = 0 /\ decoding' = TRUE /\ fd
      /\ UNCHANGED <<fd, connected, serverVersion, server, sent, passed>>
  BY DEF Receive
<1>6. pos' \in 0 .. Len(inBuf') /\ pos' < Len(inBuf')
  BY <1>1, <1>4, <1>5
<1>7. TypeOK'
  BY <1>3, <1>4, <1>5, <1>6 DEF Inv, TypeOK
<1>8. Coming' = Coming
  <2>1. Rest = inBuf
    <3>1. Rest = SubSeq(inBuf, 0 + 1, Len(inBuf))
      BY <1>1 DEF Rest
    <3> QED
      BY <1>1, <3>1, SubSeqFull
  <2>2. Rest' = inBuf'
    <3>1. Rest' = SubSeq(inBuf', 0 + 1, Len(inBuf'))
      BY <1>5 DEF Rest
    <3> QED
      BY <1>4, <3>1, SubSeqFull
  <2> QED
    BY <1>4, <2>1, <2>2 DEF Coming
<1>9. SentInv' /\ IdleInv'
  BY <1>5 DEF Inv, SentInv, IdleInv
<1>10. ComingInv'
  BY <1>5, <1>8 DEF Inv, ComingInv, Ack, Unpassed
<1>11. PassedInOrderOnce' /\ NothingWaits'
  BY <1>5 DEF Inv, PassedInOrderOnce, NothingWaits
<1> QED
  BY <1>7, <1>9, <1>10, <1>11 DEF Inv

\* While TWS is not accepted, the buffer begins with its answer.
LEMMA AnswerFirst ==
  ASSUME InBufferAssumption, Inv, decoding, ~connected
  PROVE  /\ fd /\ passed = <<>> /\ server \in ServerVersions /\ Field(Rest, 1) = server
         /\ server >= SERVER_VERSION /\ AckEnd(Rest) <= Len(Rest)
              => /\ AckEnd(Rest) = 2 /\ 2 \in 1 .. Len(Rest)
                 /\ SubSeq(Rest, 2 + 1, Len(Rest)) \o stream = FlattenSeq(sent)
<1> DEFINE flat == FlattenSeq(sent)
<1>1. fd /\ passed = <<>> /\ Coming = Ack \o flat /\ Coming = Rest \o stream
  BY DEF Inv, TypeOK, ComingInv, Coming
<1>2. /\ flat \in Seq(Int) /\ Ack \in Seq(Int) /\ server \in ServerVersions \cup {0}
      /\ ServerVersions \subseteq Nat \ {0}
      /\ server = 0 => Ack = <<>> /\ sent = <<>>
      /\ server # 0 => Len(Ack) > 0 /\ Ack[1] = server
      /\ server >= SERVER_VERSION => Len(Ack) = 2
  BY SentFacts DEF Inv, TypeOK, InBufferAssumption
<1>3. /\ Rest \in Seq(Int) /\ Len(Rest) \in Nat /\ Len(Rest) > 0
      /\ stream \in Seq(Int) /\ Len(stream) \in Nat
  BY RestFacts, LenProperties DEF Inv, TypeOK
<1>4. server # 0
  <2> SUFFICES ASSUME server = 0 PROVE FALSE
    OBVIOUS
  <2>1. Ack = <<>> /\ flat = <<>>
    BY <1>2, FlattenType, EmptySeq
  <2>2. Coming = <<>>
    BY <1>1, <1>2, <2>1, ConcatEmptySeq
  <2>3. Len(Rest \o stream) = Len(Rest) + Len(stream)
    BY <1>3, ConcatProperties
  <2>4. Len(Rest \o stream) = 0
    BY <1>1, <2>2, EmptySeq
  <2>5. Len(Rest) + Len(stream) = 0
    BY <2>3, <2>4
  <2>6. Len(Rest) + Len(stream) > 0
    BY <1>3
  <2> QED
    BY <2>5, <2>6
<1>5. Field(Rest, 1) = server
  <2>1. Rest[1] = Coming[1]
    <3>1. \A i \in 1 .. Len(Rest) + Len(stream) :
            (Rest \o stream)[i] = IF i <= Len(Rest) THEN Rest[i] ELSE stream[i - Len(Rest)]
      BY <1>3, ConcatProperties
    <3>2. 1 \in 1 .. Len(Rest) + Len(stream) /\ 1 <= Len(Rest)
      BY <1>3
    <3>3. (Rest \o stream)[1] = Rest[1]
      BY <3>1, <3>2
    <3> QED
      BY <1>1, <3>3
  <2>2. Ack[1] = Coming[1]
    <3>1. /\ \A i \in 1 .. Len(Ack) + Len(flat) :
               (Ack \o flat)[i] = IF i <= Len(Ack) THEN Ack[i] ELSE flat[i - Len(Ack)]
          /\ Len(Ack) \in Nat /\ Len(flat) \in Nat
      BY <1>2, ConcatProperties, LenProperties
    <3>2. 1 \in 1 .. Len(Ack) + Len(flat) /\ 1 <= Len(Ack)
      BY <1>2, <1>4, <3>1
    <3>3. (Ack \o flat)[1] = Ack[1]
      BY <3>1, <3>2
    <3> QED
      BY <1>1, <3>3
  <2>3. 1 \in DOMAIN Rest
    BY <1>3, LenProperties
  <2> QED
    BY <1>2, <1>4, <2>1, <2>2, <2>3 DEF Field
<1>6. ASSUME server >= SERVER_VERSION, AckEnd(Rest) <= Len(Rest)
      PROVE  /\ AckEnd(Rest) = 2 /\ 2 \in 1 .. Len(Rest)
             /\ SubSeq(Rest, 2 + 1, Len(Rest)) \o stream = flat
  <2>1. AckEnd(Rest) = 2
    BY <1>2, <1>5, <1>6 DEF AckEnd, SERVER_VERSION
  <2>2. 2 \in 1 .. Len(Rest)
    BY <1>3, <1>6, <2>1
  <2> HIDE DEF flat
  <2>3. PICK r \in Seq(Int), t \in Seq(Int), x \in Seq(Int), y \in Seq(Int), k \in Nat :
          r = Rest /\ t = stream /\ x = Ack /\ y = flat /\ k = 2
    BY <1>2, <1>3
  <2>4. r \o t = x \o y /\ k = Len(x) /\ k \in 1 .. Len(r)
    <3>1. r \o t = x \o y
      BY <1>1, <2>3
    <3>2. k = Len(x)
      BY <1>2, <1>6, <2>3
    <3>3. k \in 1 .. Len(r)
      BY <2>2, <2>3
    <3> QED
      BY <3>1, <3>2, <3>3
  <2>5. SubSeq(r, k + 1, Len(r)) \o t = y
    BY ONLY <2>4, FieldsMatch
  <2>6. SubSeq(Rest, 2 + 1, Len(Rest)) \o stream = flat
    BY <2>3, <2>5
  <2> QED
    BY <2>1, <2>2, <2>6
<1> QED
  BY <1>1, <1>2, <1>4, <1>5, <1>6

\* TWS is accepted: what it sent behind its answer is still to be decoded.
LEMMA AcceptStep ==
  ASSUME InBufferAssumption, Inv, ProcessConnectAck
  PROVE  Inv'
<1>1. /\ decoding /\ ~connected /\ AckEnd(Rest) <= Len(Rest)
      /\ Field(Rest, 1) >= SERVER_VERSION /\ UNCHANGED <<stream, server, sent, passed>>
  BY DEF ProcessConnectAck
<1>2. CASE Disconnect
  <2>1. passed' \in Seq(Seq(Int)) /\ PassedInOrderOnce'
    BY <1>1 DEF Inv, TypeOK, PassedInOrderOnce
  <2> QED
    BY <1>1, <1>2, <2>1, DisconnectStep
<1>3. CASE /\ connected' = TRUE /\ serverVersion' = Field(Rest, 1)
           /\ Consume(AckEnd(Rest)) /\ UNCHANGED fd
  <2>1. /\ fd /\ passed = <<>> /\ server \in ServerVersions /\ Field(Rest, 1) = server
        /\ AckEnd(Rest) = 2 /\ 2 \in 1 .. Len(Rest)
        /\ SubSeq(Rest, 2 + 1, Len(Rest)) \o stream = FlattenSeq(sent)
    BY <1>1, AnswerFirst
  <2>2. Consume(2)
    BY <1>3, <2>1
  <2>3. /\ BufferOK' /\ Rest' = SubSeq(Rest, 2 + 1, Len(Rest))
        /\ ~decoding' => inBuf' = <<>>
    <3>1. TypeOK
      BY DEF Inv
    <3> QED
      BY <1>1, <2>1, <2>2, <3>1, ConsumeFacts
  <2>4. fd' = TRUE /\ connected' = TRUE /\ serverVersion' = server /\ server' = server
    BY <1>1, <1>3, <2>1 DEF Inv, TypeOK
  <2>5. TypeOK'
    BY <1>1, <2>1, <2>3, <2>4 DEF Inv, TypeOK, BufferOK
  <2>6. SentInv' /\ IdleInv' /\ NothingWaits' /\ PassedInOrderOnce'
    BY <1>1, <2>3, <2>4 DEF Inv, SentInv, IdleInv, BufferOK, NothingWaits, PassedInOrderOnce
  <2>7. Unpassed' = sent
    <3>1. sent \in Seq(Seq(Int)) /\ Len(<<>>) = 0
      BY EmptySeq DEF Inv, TypeOK
    <3>2. Unpassed' = SubSeq(sent, 0 + 1, Len(sent))
      BY <1>1, <2>1, <3>1 DEF Unpassed
    <3> QED
      BY <3>1, <3>2, SubSeqFull
  <2>8. ComingInv'
    BY <1>1, <2>1, <2>3, <2>4, <2>7 DEF ComingInv, Coming
  <2> QED
    BY <2>5, <2>6, <2>8 DEF Inv
<1> QED
  BY <1>2, <1>3 DEF ProcessConnectAck

\* A step that ends checkMessages and leaves what is to be decoded in the buffer.
LEMMA KeepStep ==
  ASSUME InBufferAssumption, Inv, decoding, Cleanup(pos),
         UNCHANGED <<fd, connected, stream, server, sent, passed>>,
         serverVersion' \in ServerVersions \cup {0}, connected => serverVersion' = serverVersion,
         connected => End(Rest, serverVersion) > Len(Rest)
  PROVE  Inv'
<1>1. BufferOK' /\ ~decoding' /\ inBuf' = Rest /\ Rest' = Rest
  <2>1. TypeOK
    BY DEF Inv
  <2> QED
    BY <2>1, KeepRest
<1>2. fd /\ fd' = fd
  BY DEF Inv, TypeOK
<1>3. TypeOK'
  BY <1>1, <1>2 DEF Inv, TypeOK, BufferOK
<1>4. SentInv' /\ IdleInv' /\ PassedInOrderOnce'
  BY <1>1, <1>2 DEF Inv, SentInv, IdleInv, BufferOK, PassedInOrderOnce
<1>5. Coming' = Coming /\ Ack' = Ack /\ Unpassed' = Unpassed
  BY <1>1 DEF Coming, Ack, Unpassed
<1>6. ComingInv'
  BY <1>5 DEF Inv, ComingInv
<1>7. NothingWaits'
  BY <1>1 DEF NothingWaits
<1> QED
  BY <1>3, <1>4, <1>6, <1>7 DEF Inv

\* TWS is too old: its answer stays.
LEMMA RefuseStep ==
  ASSUME InBufferAssumption, Inv, RefuseServer
  PROVE  Inv'
<1>1. /\ decoding /\ ~connected /\ Cleanup(pos) /\ serverVersion' = Field(Rest, 1)
      /\ UNCHANGED <<fd, connected, stream, server, sent, passed>>
  BY DEF RefuseServer
<1>2. serverVersion' \in ServerVersions \cup {0}
  BY <1>1, AnswerFirst
<1> QED
  BY <1>1, <1>2, KeepStep

\* A message whose end has not come.
LEMMA IncompleteStep ==
  ASSUME InBufferAssumption, Inv, Incomplete
  PROVE  Inv'
<1>1. /\ decoding /\ Cleanup(pos)
      /\ UNCHANGED <<fd, connected, serverVersion, stream, server, sent, passed>>
      /\ connected => End(Rest, serverVersion) > Len(Rest)
  BY DEF Incomplete
<1>2. serverVersion' \in ServerVersions \cup {0}
  BY <1>1 DEF Inv, TypeOK
<1> QED
  BY <1>1, <1>2, KeepStep

\* A message is passed on: the next one.
LEMMA ProcessMsgStep ==
  ASSUME InBufferAssumption, Inv, ProcessMsg
  PROVE  Inv'
<1> DEFINE n == End(Rest, serverVersion)
           k == Len(passed) + 1
<1>1. /\ decoding /\ connected /\ n <= Len(Rest) /\ passed' = Append(passed, SubSeq(Rest, 1, n))
      /\ UNCHANGED <<stream, server, sent>>
  BY DEF ProcessMsg
<1>2. /\ n \in 1 .. Len(Rest) /\ k \in 1 .. Len(sent)
      /\ SubSeq(Rest, 1, n) = sent[k]
      /\ SubSeq(Rest, n + 1, Len(Rest)) \o stream = FlattenSeq(SubSeq(sent, k + 1, Len(sent)))
  BY <1>1, NextMessage
<1>3. sent \in Seq(Seq(Int)) /\ passed \in Seq(Seq(Int)) /\ IsPrefix(passed, sent)
  BY DEF Inv, TypeOK, PassedInOrderOnce
<1> DEFINE All == Seq(Int)
<1>4. sent \in Seq(All) /\ passed \in Seq(All)
  BY <1>3
<1> HIDE DEF All, n
<1>5. k = Len(passed) + 1
  OBVIOUS
<1> HIDE DEF k
<1>6. passed' = Append(passed, sent[k]) /\ sent[k] \in All
  BY <1>1, <1>2, <1>4, ElementOfSeq
<1>7. passed' \in Seq(All) /\ Len(passed') = Len(passed) + 1
  BY <1>4, <1>6, AppendProperties
<1>8. PassedInOrderOnce'
  <2>1. IsPrefix(Append(passed, sent[k]), sent)
    BY <1>2, <1>3, <1>4, <1>5, NextOfPrefix
  <2> QED
    BY <1>1, <1>6, <2>1 DEF PassedInOrderOnce
<1>9. passed' \in Seq(Seq(Int))
  BY <1>7 DEF All
<1>10. CASE Disconnect
  BY <1>1, <1>8, <1>9, <1>10, DisconnectStep
<1>11. CASE Consume(n) /\ UNCHANGED <<fd, connected, serverVersion>>
  <2>1. /\ BufferOK' /\ Rest' = SubSeq(Rest, n + 1, Len(Rest))
        /\ ~decoding' => inBuf' = <<>>
    <3>1. TypeOK
      BY DEF Inv
    <3> QED
      BY <1>1, <1>2, <1>11, <3>1, ConsumeFacts
  <2>2. fd /\ connected /\ fd' /\ connected' /\ server = serverVersion
    BY <1>1, <1>11 DEF Inv, TypeOK, ComingInv
  <2>3. TypeOK'
    BY <1>1, <1>9, <1>11, <2>1, <2>2 DEF Inv, TypeOK, BufferOK
  <2>4. SentInv' /\ IdleInv' /\ NothingWaits'
    BY <1>1, <1>11, <2>1, <2>2 DEF Inv, SentInv, IdleInv, BufferOK, NothingWaits
  <2>5. Unpassed' = SubSeq(sent, k + 1, Len(sent))
    <3>1. Len(passed') = k
      BY <1>5, <1>7
    <3> QED
      BY <1>1, <3>1 DEF Unpassed
  <2>6. Coming' = FlattenSeq(Unpassed')
    BY <1>1, <1>2, <2>1, <2>5 DEF Coming
  <2>7. ComingInv'
    BY <1>1, <1>11, <2>2, <2>6 DEF ComingInv
  <2> QED
    BY <1>8, <2>3, <2>4, <2>7 DEF Inv
<1> QED
  BY <1>10, <1>11 DEF ProcessMsg, n

\* TWS answers when nothing is on its way.
LEMMA TwsAnswerStep ==
  ASSUME InBufferAssumption, Inv, TwsAnswer
  PROVE  Inv'
<1>1. /\ fd /\ server = 0 /\ UNCHANGED <<fd, connected, serverVersion, buffer, sent, passed>>
      /\ inBuf' = inBuf /\ pos' = pos /\ decoding' = decoding
  BY DEF TwsAnswer, buffer
<1>2. PICK v \in ServerVersions : server' = v /\ stream' = IF v >= 20 THEN <<v, 0>> ELSE <<v>>
  BY DEF TwsAnswer
<1>3. v \in Nat \ {0} /\ sent = <<>>
  BY <1>1 DEF InBufferAssumption, Inv, SentInv, SERVER_VERSION
<1>4. ~connected
  BY <1>1 DEF Inv, TypeOK, ComingInv, SERVER_VERSION
<1>5. stream' = Ack'
  BY <1>2, <1>3 DEF Ack
<1>6. stream' \in Seq(Int)
  <2>1. CASE v >= 20
    <3>1. stream' = <<v, 0>>
      BY <1>2, <2>1
    <3> QED
      BY <1>3, <3>1
  <2>2. CASE ~(v >= 20)
    <3>1. stream' = <<v>>
      BY <1>2, <2>2
    <3> QED
      BY <1>3, <3>1
  <2> QED
    BY <2>1, <2>2
<1>7. Rest = <<>>
  <2>1. Ack = <<>> /\ FlattenSeq(sent) = <<>>
    <3>1. Ack = <<>>
      BY <1>1 DEF Ack
    <3>2. sent \in Seq(Seq(Int))
      BY DEF Inv, TypeOK
    <3> QED
      BY <1>3, <3>1, <3>2, FlattenType
  <2>2. Rest \o stream = <<>>
    <3>1. Rest \o stream = Ack \o FlattenSeq(sent)
      BY <1>1, <1>4 DEF Inv, ComingInv, Coming
    <3>2. <<>> \o <<>> = <<>>
      BY EmptySeq, ConcatEmptySeq
    <3> QED
      BY <2>1, <3>1, <3>2
  <2>3. /\ Rest \in Seq(Int) /\ Len(Rest) \in Nat
        /\ stream \in Seq(Int) /\ Len(stream) \in Nat
    BY RestFacts, LenProperties DEF Inv, TypeOK
  <2>4. Len(Rest \o stream) = Len(Rest) + Len(stream)
    BY <2>3, ConcatProperties
  <2>5. Len(Rest \o stream) = 0
    BY <2>2, EmptySeq
  <2>6. Len(Rest) + Len(stream) = 0
    BY <2>4, <2>5
  <2>7. Len(Rest) = 0
    BY <2>3, <2>6
  <2> QED
    BY <2>3, <2>7, EmptySeq
<1>8. Coming' = Ack' \o FlattenSeq(sent')
  <2>1. Rest' = <<>>
    BY <1>1, <1>7 DEF Rest
  <2>2. FlattenSeq(sent') = <<>>
    <3>1. sent \in Seq(Seq(Int))
      BY DEF Inv, TypeOK
    <3> QED
      BY <1>1, <1>3, <3>1, FlattenType
  <2>3. Coming' = <<>> \o stream'
    BY <2>1 DEF Coming
  <2>4. <<>> \o stream' = stream' /\ stream' \o <<>> = stream'
    BY <1>6, ConcatEmptySeq
  <2> QED
    BY <1>5, <2>2, <2>3, <2>4
<1>9. TypeOK'
  BY <1>1, <1>2, <1>6 DEF Inv, TypeOK
<1>10. SentInv'
  <2>1. sent' = <<>> /\ Len(<<>>) = 0
    BY <1>1, <1>3, EmptySeq
  <2> QED
    BY <2>1 DEF SentInv
<1>11. IdleInv' /\ PassedInOrderOnce' /\ NothingWaits'
  BY <1>1 DEF Inv, IdleInv, PassedInOrderOnce, NothingWaits
<1>12. ComingInv'
  BY <1>1, <1>4, <1>8 DEF Inv, ComingInv
<1> QED
  BY <1>9, <1>10, <1>11, <1>12 DEF Inv

\* A message is appended to what has been sent and to what is on its way.
LEMMA TwsSendStep ==
  ASSUME InBufferAssumption, Inv, TwsSend
  PROVE  Inv'
<1>1. /\ fd /\ server >= SERVER_VERSION
      /\ UNCHANGED <<fd, connected, serverVersion, buffer, server, passed>>
      /\ inBuf' = inBuf /\ pos' = pos /\ decoding' = decoding
  BY DEF TwsSend, buffer
<1>2. PICK m \in Messages(server) : sent' = Append(sent, m) /\ stream' = stream \o m
  BY DEF TwsSend
<1>3. server \in ServerVersions
  <2>1. server # 0
    BY <1>1 DEF SERVER_VERSION
  <2> QED
    BY <2>1 DEF Inv, TypeOK
<1>4. m \in Seq(Int)
  BY <1>3 DEF InBufferAssumption
<1> DEFINE All == Seq(Int)
<1>5. sent \in Seq(All) /\ passed \in Seq(All) /\ IsPrefix(passed, sent) /\ m \in All
  BY <1>4 DEF Inv, TypeOK, PassedInOrderOnce
<1> HIDE DEF All
<1>6. /\ sent' \in Seq(All) /\ Len(sent') = Len(sent) + 1 /\ Len(sent) \in Nat
      /\ \A i \in 1 .. Len(sent) : sent'[i] = sent[i]
      /\ sent'[Len(sent) + 1] = m
  BY <1>2, <1>5, AppendProperties, LenProperties
<1>7. PassedInOrderOnce'
  <2>1. IsPrefix(passed, Append(sent, m))
    BY <1>5, PrefixOfAppend
  <2> QED
    BY <1>1, <1>2, <2>1 DEF PassedInOrderOnce
<1>8. /\ Rest \in Seq(Int) /\ stream \in Seq(Int) /\ Ack \in Seq(Int)
      /\ FlattenSeq(sent) \in Seq(Int) /\ FlattenSeq(Unpassed) \in Seq(Int)
      /\ sent \in Seq(Seq(Int)) /\ Unpassed \in Seq(Seq(Int))
      /\ Len(passed) \in 0 .. Len(sent)
  BY RestFacts, SentFacts, UnpassedFacts DEF Inv, TypeOK
<1>9. stream' \in Seq(Int)
  BY <1>2, <1>4, <1>8, ConcatProperties
<1>10. Coming' = Coming \o m
  <2>1. Coming' = Rest \o (stream \o m)
    BY <1>1, <1>2 DEF Coming, Rest
  <2>2. (Rest \o stream) \o m = Rest \o (stream \o m)
    <3>1. Rest \in Seq(Int) /\ stream \in Seq(Int) /\ m \in Seq(Int)
      BY <1>4, <1>8
    <3> QED
      BY ONLY <3>1, FieldsRegroup
  <2> QED
    BY <2>1, <2>2 DEF Coming
<1>11. ASSUME ~connected
       PROVE  passed' = <<>> /\ Coming' = Ack' \o FlattenSeq(sent')
  <2>1. passed = <<>> /\ Coming = Ack \o FlattenSeq(sent)
    BY <1>1, <1>11 DEF Inv, ComingInv
  <2>2. FlattenSeq(sent') = FlattenSeq(sent) \o m
    <3>1. FlattenSeq(Append(sent, m)) = FlattenSeq(sent) \o m
      BY <1>4, <1>8, FlattenAppend
    <3> QED
      BY <1>2, <3>1
  <2> DEFINE flat == FlattenSeq(sent)
  <2> HIDE DEF flat
  <2>3. (Ack \o flat) \o m = Ack \o (flat \o m)
    <3>1. Ack \in Seq(Int) /\ flat \in Seq(Int) /\ m \in Seq(Int)
      BY <1>4, <1>8 DEF flat
    <3> QED
      BY ONLY <3>1, FieldsRegroup
  <2>4. Ack' = Ack
    BY <1>1 DEF Ack
  <2> QED
    BY <1>1, <1>10, <2>1, <2>2, <2>3, <2>4 DEF flat
<1>12. ASSUME connected
       PROVE  server' = serverVersion' /\ Coming' = FlattenSeq(Unpassed')
  <2>1. server = serverVersion /\ Coming = FlattenSeq(Unpassed)
    BY <1>12 DEF Inv, ComingInv
  <2>2. Unpassed' = Append(Unpassed, m)
    <3>1. Unpassed' = SubSeq(sent', Len(passed) + 1, Len(sent'))
      BY <1>1 DEF Unpassed
    <3>2. SubSeq(Append(sent, m), Len(passed) + 1, Len(Append(sent, m)))
            = Append(SubSeq(sent, Len(passed) + 1, Len(sent)), m)
      BY <1>5, <1>8, DropOfAppend
    <3> QED
      BY <1>2, <3>1, <3>2 DEF Unpassed
  <2>3. FlattenSeq(Append(Unpassed, m)) = FlattenSeq(Unpassed) \o m
    BY <1>4, <1>8, FlattenAppend
  <2> QED
    BY <1>1, <1>10, <2>1, <2>2, <2>3
<1>13. ComingInv'
  BY <1>1, <1>11, <1>12 DEF ComingInv
<1>14. TypeOK'
  BY <1>1, <1>6, <1>9 DEF Inv, TypeOK, All
<1>15. SentInv'
  <2>1. ASSUME NEW i \in 1 .. Len(sent')
        PROVE  sent'[i] \in Messages(server')
    <3>1. CASE i = Len(sent) + 1
      BY <1>1, <1>6, <3>1
    <3>2. CASE i # Len(sent) + 1
      <4>1. i \in 1 .. Len(sent)
        BY <1>6, <3>2
      <4>2. sent[i] \in Messages(server)
        BY <4>1 DEF Inv, SentInv
      <4> QED
        BY <1>1, <1>6, <4>1, <4>2
    <3> QED
      BY <3>1, <3>2
  <2>2. ~(server' < SERVER_VERSION)
    <3>1. server \in Nat
      BY <1>3 DEF InBufferAssumption
    <3> QED
      BY <1>1, <3>1 DEF SERVER_VERSION
  <2> QED
    BY <2>1, <2>2 DEF SentInv
<1>16. IdleInv' /\ NothingWaits'
  BY <1>1 DEF Inv, IdleInv, NothingWaits
<1> QED
  BY <1>7, <1>13, <1>14, <1>15, <1>16 DEF Inv

-----------------------------------------------------------------------------
(* The theorems.                                                           *)

LEMMA Invariance ==
  ASSUME InBufferAssumption
  PROVE  Spec => []Inv
<1>1. Init => Inv
  BY Initially
<1>2. Inv /\ [Next]_vars => Inv'
  <2> SUFFICES ASSUME Inv, [Next]_vars
               PROVE  Inv'
    OBVIOUS
  <2>1. ASSUME Disconnect, UNCHANGED <<stream, server, sent, passed>>
        PROVE  Inv'
    <3>1. passed' \in Seq(Seq(Int)) /\ PassedInOrderOnce'
      BY <2>1 DEF Inv, TypeOK, PassedInOrderOnce
    <3> QED
      BY <2>1, <3>1, DisconnectStep
  <2>2. CASE Connect
    BY <2>2, ConnectStep
  <2>3. CASE DisconnectIdle
    BY <2>1, <2>3 DEF DisconnectIdle
  <2>4. CASE Receive
    BY <2>4, ReceiveStep
  <2>5. CASE ProcessConnectAck
    BY <2>5, AcceptStep
  <2>6. CASE RefuseServer
    BY <2>6, RefuseStep
  <2>7. CASE ProcessMsg
    BY <2>7, ProcessMsgStep
  <2>8. CASE ProcessUnknown
    BY <2>1, <2>8 DEF ProcessUnknown
  <2>9. CASE Incomplete
    BY <2>9, IncompleteStep
  <2>10. CASE TwsAnswer
    BY <2>10, TwsAnswerStep
  <2>11. CASE TwsSend
    BY <2>11, TwsSendStep
  <2>12. CASE UNCHANGED vars
    BY <2>12 DEF vars, Inv, TypeOK, SentInv, IdleInv, ComingInv, PassedInOrderOnce, NothingWaits,
                 Coming, Rest, Ack, Unpassed
  <2> QED
    BY <2>2, <2>3, <2>4, <2>5, <2>6, <2>7, <2>8, <2>9, <2>10, <2>11, <2>12 DEF Next, Decode
<1> QED
  BY <1>1, <1>2, PTL DEF Spec

\* m_inBuffer, the place in it and the messages have their types; checkMessages is in its
\* loop only with a socket and with something left to decode.
THEOREM TypeCorrect == Spec => []TypeOK
<1>1. Spec => []Inv
  BY InBufferAssumption, Invariance
<1>2. Inv => TypeOK
  BY DEF Inv
<1> QED
  BY <1>1, <1>2, PTL

\* For any messages of any versions of TWS, and however recv() cuts the stream, the EWrapper
\* gets the messages of this connection whole, in order and once.
THEOREM InOrderOnce == Spec => []PassedInOrderOnce
<1>1. Spec => []Inv
  BY InBufferAssumption, Invariance
<1>2. Inv => PassedInOrderOnce
  BY DEF Inv
<1> QED
  BY <1>1, <1>2, PTL

\* checkMessages never returns with a whole message left in m_inBuffer.
THEOREM NoneWaits == Spec => []NothingWaits
<1>1. Spec => []Inv
  BY InBufferAssumption, Invariance
<1>2. Inv => NothingWaits
  BY DEF Inv
<1> QED
  BY <1>1, <1>2, PTL

\* What follows in m_inBuffer and in the stream is exactly the messages that have not been
\* passed on, however often one was found incomplete and decoded again.
THEOREM NoneLost == Spec => []NothingIsLost
<1>1. Spec => []Inv
  BY InBufferAssumption, Invariance
<1>2. Inv => NothingIsLost
  BY DEF Inv, ComingInv, NothingIsLost, Coming, Unpassed
<1> QED
  BY <1>1, <1>2, PTL
====
