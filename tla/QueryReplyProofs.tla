-------------------------- MODULE QueryReplyProofs --------------------------
(***************************************************************************)
(* Theorems about QueryReply for any queries, any size of an answer and    *)
(* any number of answers under way: the types, that no answer is lost, and *)
(* that what a query returns is its own answer.                            *)
(***************************************************************************)
EXTENDS QueryReply, SequenceFacts

Call == [call : Kinds, n : 1 .. MaxQueries]
Message == [call : Kinds, n : 0 .. MaxQueries, item : 0 .. Items]

PastAsk == At("wait") \/ At("cancel") \/ At("read")

\* Only what nobody asked for has the number 0.
Events == \A m \in Range(coming) : m.n = 0 => m.call = "ord" /\ m.item # 0

\* What has the number of the query is its own, and comes after it has been asked; the
\* end of its answer is not forgotten.
OwnInv ==
  kind # "none" =>
    /\ \A m \in Range(asked) \cup Range(coming) : m.n = number => PastAsk /\ m.call = kind
    /\ answered => PastAsk /\ flag[Flag(kind)]

\* No other answer that sets the flag of the query is under way.
NoOther ==
  \A m \in Range(asked) \cup Range(coming) : m.n # 0 /\ Flag(m.call) = Flag(kind) => m.n = number

\* The first j items of the answer, and nothing that the answer does not add to, are stored.
Has(j) ==
  /\ kind = "pos" => data["pos"] = [i \in 1 .. j |-> i]
  /\ kind = "ord" => 1 .. j \subseteq data["ord"]
  /\ Scalar(kind) /\ j = 1 => data[kind] = number

Own(queue) == {i \in 1 .. Len(queue) : queue[i].n = number}

\* TWS has yet to handle the request,
InAsked ==
  /\ (\E k \in 1 .. Len(asked) : Own(asked) = {k}) /\ Own(coming) = {}
  /\ ~flag[Flag(kind)] /\ Has(0)

\* or what comes from item j on is at the positions from s on,
Block(s, j) ==
  LET last == s + ItemsOf(kind) + 1 - j
  IN /\ last <= Len(coming) /\ Own(coming) = s .. last
     /\ \A i \in s .. last : coming[i].item = IF i < last THEN j + i - s ELSE 0

InComing ==
  /\ Own(asked) = {} /\ ~flag[Flag(kind)]
  /\ \E s \in 1 .. Len(coming), j \in 1 .. ItemsOf(kind) + 1 : Block(s, j) /\ Has(j - 1)

\* or it is all there, or TWS has sent none.
Gone ==
  /\ Own(asked) = {} /\ Own(coming) = {}
  /\ flag[Flag(kind)] => Has(ItemsOf(kind))

\* A query that began clean.
CleanInv ==
  kind # "none" /\ clean =>
    /\ NoOther
    /\ At("unflag") => Has(0)
    /\ At("ask") => Has(0) /\ ~flag[Flag(kind)]
    /\ PastAsk => InAsked \/ InComing \/ Gone

\* A query that did not give up has seen its flag.
SeenInv == (At("cancel") \/ At("read")) /\ ~timedOut => flag[Flag(kind)]

Inv == TypeOK /\ Events /\ OwnInv /\ CleanInv /\ SeenInv

-----------------------------------------------------------------------------
(* The statements of a query.                                              *)

\* The three orders of a query's statements.
LEMMA StepsOf ==
  /\ \A k \in Accounts : Steps(k) = <<"unflag", "ask", "wait", "cancel", "read">>
  /\ \A k \in Details \cup {"ord"} : Steps(k) = <<"clear", "unflag", "ask", "wait", "read">>
  /\ Steps("pos") = <<"clear", "unflag", "ask", "wait", "cancel", "read">>
BY DEF Steps, Accounts, Details

\* What follows each of them, and with which one a query begins.
LEMMA StepOrder ==
  ASSUME kind \in Kinds, pc \in 1 .. Len(Steps(kind))
  PROVE  /\ At("clear") \/ At("unflag") \/ At("ask") \/ PastAsk
         /\ kind \in Accounts => ~At("clear")
         /\ kind' = kind /\ pc' = pc + 1 =>
                   /\ At("clear") => At("unflag")'
                   /\ At("unflag") => At("ask")'
                   /\ At("ask") => At("wait")'
                   /\ At("wait") => At("cancel")' \/ At("read")'
                   /\ At("cancel") => At("read")'
                   /\ ~At("read") => pc' \in 1 .. Len(Steps(kind))
<1> USE DEF At, PastAsk
<1>1. CASE kind \in Accounts
  <2>1. Steps(kind) = <<"unflag", "ask", "wait", "cancel", "read">>
    BY <1>1, StepsOf
  <2> QED
    BY <1>1, <2>1 DEF Accounts
<1>2. CASE kind \in Details \cup {"ord"}
  <2>1. Steps(kind) = <<"clear", "unflag", "ask", "wait", "read">>
    BY <1>2, StepsOf
  <2> QED
    BY <1>2, <2>1 DEF Accounts, Details
<1>3. CASE kind = "pos"
  <2>1. Steps(kind) = <<"clear", "unflag", "ask", "wait", "cancel", "read">>
    BY <1>3, StepsOf
  <2> QED
    BY <1>3, <2>1 DEF Accounts
<1> QED
  BY <1>1, <1>2, <1>3 DEF Kinds

-----------------------------------------------------------------------------
(* Types.                                                                  *)

LEMMA AnswerFacts ==
  ASSUME QueryReplyAssumption, NEW k \in Kinds, NEW n \in 1 .. MaxQueries
  PROVE  /\ ItemsOf(k) \in 1 .. Items /\ Items \in Nat /\ MaxQueries \in Nat
         /\ Answer(k, n) \in Seq(Message) /\ Len(Answer(k, n)) = ItemsOf(k) + 1
         /\ \A i \in 1 .. ItemsOf(k) + 1 :
              /\ Answer(k, n)[i].call = k /\ Answer(k, n)[i].n = n
              /\ Answer(k, n)[i].item = IF i <= ItemsOf(k) THEN i ELSE 0
<1>1. ItemsOf(k) \in 1 .. Items /\ Items \in Nat /\ MaxQueries \in Nat
  BY DEF ItemsOf, QueryReplyAssumption
<1>2. \A i \in 1 .. ItemsOf(k) + 1 :
        [call |-> k, n |-> n, item |-> IF i <= ItemsOf(k) THEN i ELSE 0] \in Message
  BY <1>1 DEF Message
<1>3. Answer(k, n) \in [1 .. ItemsOf(k) + 1 -> Message]
  BY <1>2 DEF Answer
<1>4. Answer(k, n) \in Seq(Message) /\ Len(Answer(k, n)) = ItemsOf(k) + 1
  BY <1>1, <1>3
<1> QED
  BY <1>1, <1>4 DEF Answer

\* The statements that go on to the next one.
Advances == Clear \/ Unflag \/ Ask \/ Ready \/ TimeOut \/ Cancel

LEMMA AdvanceFacts ==
  ASSUME TypeOK, Advances
  PROVE  /\ kind \in Kinds /\ kind' = kind /\ pc' = pc + 1 /\ ~At("read")
         /\ UNCHANGED <<number, coming, clean, answered>>
         /\ pc \in 1 .. Len(Steps(kind)) /\ pc' \in 1 .. Len(Steps(kind))
         /\ number \in 1 .. MaxQueries
<1>1. /\ kind # "none" /\ kind' = kind /\ pc' = pc + 1 /\ ~At("read")
      /\ UNCHANGED <<number, coming, clean, answered>>
  BY DEF Advances, Clear, Unflag, Ask, Ready, TimeOut, Cancel, Advance, At
<1>2. kind \in Kinds /\ pc \in 1 .. Len(Steps(kind)) /\ number \in 1 .. MaxQueries
  BY <1>1 DEF TypeOK
<1> QED
  BY <1>1, <1>2, StepOrder

LEMMA TypedStep ==
  ASSUME QueryReplyAssumption, TypeOK, [Next]_vars
  PROVE  TypeOK'
<1> USE DEF program
<1>1. /\ asked \in Seq(Call) /\ coming \in Seq(Message)
      /\ Items \in Nat \ {0} /\ MaxQueries \in Nat \ {0}
      /\ flag \in [Flags -> BOOLEAN] /\ DOMAIN data = Kinds
  BY DEF TypeOK, Call, Message, QueryReplyAssumption
<1>2. \A k \in Kinds : Flag(k) \in Flags
  BY DEF Flags
<1> DEFINE DataOK == /\ DOMAIN data = Kinds
                     /\ \A k \in Kinds : Scalar(k) => data[k] \in 0 .. MaxQueries
                     /\ data["pos"] \in Seq(1 .. Items) /\ data["ord"] \subseteq 1 .. Items
           ProgramOK == /\ kind \in Kinds \cup {"none"}
                        /\ kind # "none" => pc \in 1 .. Len(Steps(kind))
                                            /\ number \in 1 .. MaxQueries
                        /\ timedOut \in BOOLEAN /\ clean \in BOOLEAN /\ answered \in BOOLEAN
           QueuesOK == asked \in Seq(Call) /\ coming \in Seq(Message)
<1>3. SUFFICES ProgramOK' /\ (flag \in [Flags -> BOOLEAN])' /\ DataOK' /\ QueuesOK'
  BY DEF TypeOK, Call, Message
<1>4. ProgramOK /\ DataOK /\ QueuesOK
  BY <1>1 DEF TypeOK
<1>5. CASE Begin
  <2>1. kind' \in Kinds /\ pc' = 1
    BY <1>5 DEF Begin, QueryReplyAssumption
  <2>2. 1 \in 1 .. Len(Steps(kind'))
    BY <2>1, StepsOf DEF Kinds
  <2>3. number' \in 1 .. MaxQueries
    BY <1>5 DEF Begin, Free
  <2>4. timedOut' = FALSE /\ answered' = FALSE /\ clean' \in BOOLEAN
    BY <1>5 DEF Begin
  <2>5. DataOK'
    <3>1. /\ DOMAIN data' = Kinds
          /\ \A k \in Kinds : data'[k] = IF Scalar(k) THEN 0 ELSE data[k]
      BY <1>5 DEF Begin
    <3>2. "pos" \in Kinds /\ "ord" \in Kinds /\ ~Scalar("pos") /\ ~Scalar("ord")
      BY DEF Kinds, Scalar
    <3> QED
      BY <1>1, <1>4, <3>1, <3>2
  <2>6. UNCHANGED <<flag, asked, coming>>
    BY <1>5 DEF Begin
  <2> QED
    BY <1>1, <1>4, <2>1, <2>2, <2>3, <2>4, <2>5, <2>6
<1>6. CASE Advances
  <2>1. ProgramOK'
    BY <1>4, <1>6, AdvanceFacts DEF Advances, Clear, Unflag, Ask, Ready, TimeOut, Cancel, Advance
  <2>2. flag' \in [Flags -> BOOLEAN]
    BY <1>1, <1>2, <1>6, AdvanceFacts DEF Advances, Clear, Unflag, Ask, Ready, TimeOut, Cancel
  <2>3. DataOK'
    <3>1. CASE Clear
      <4>1. /\ data' = [data EXCEPT ![kind] = Cleared(kind)] /\ kind \in Kinds
        BY <1>6, <3>1, AdvanceFacts DEF Clear
      <4>2. Scalar(kind) => Cleared(kind) \in 0 .. MaxQueries
        BY <1>1 DEF Scalar, Cleared
      <4>3. (kind = "pos" => Cleared(kind) = <<>>) /\ (kind = "ord" => Cleared(kind) = {})
        BY DEF Cleared
      <4>4. /\ DOMAIN data' = Kinds
            /\ \A k \in Kinds : data'[k] = IF k = kind THEN Cleared(kind) ELSE data[k]
        BY <1>1, <4>1
      <4>5. "pos" \in Kinds /\ "ord" \in Kinds
        BY DEF Kinds
      <4>6. data'["pos"] \in Seq(1 .. Items)
        BY <1>4, <4>3, <4>4, <4>5, EmptySeq
      <4> QED
        BY <1>4, <4>2, <4>3, <4>4, <4>5, <4>6
    <3>2. CASE ~Clear
      BY <1>4, <1>6, <3>2 DEF Advances, Unflag, Ask, Ready, TimeOut, Cancel
    <3> QED
      BY <3>1, <3>2
  <2>4. QueuesOK'
    <3>1. coming' = coming
      BY <1>6, AdvanceFacts
    <3>2. CASE Ask
      <4>1. [call |-> kind, n |-> number] \in Call
        BY <1>6, AdvanceFacts DEF Call
      <4> QED
        BY <1>4, <3>1, <3>2, <4>1, RangeAppend DEF Ask
    <3>3. CASE ~Ask
      BY <1>4, <1>6, <3>1, <3>3 DEF Advances, Clear, Unflag, Ready, TimeOut, Cancel
    <3> QED
      BY <3>2, <3>3
  <2> QED
    BY <2>1, <2>2, <2>3, <2>4
<1>7. CASE Read
  BY <1>1, <1>4, <1>7 DEF Read
<1>8. CASE TwsAnswer
  <2>1. Head(asked) \in Call /\ asked' \in Seq(Call)
    BY <1>1, <1>8, RangeTail DEF TwsAnswer
  <2>2. Answer(Head(asked).call, Head(asked).n) \in Seq(Message)
    BY <2>1, AnswerFacts DEF Call
  <2>3. coming' \in Seq(Message)
    <3>1. coming \o Answer(Head(asked).call, Head(asked).n) \in Seq(Message)
      BY <1>1, <2>2, ConcatProperties
    <3>2. coming' \in {coming, coming \o Answer(Head(asked).call, Head(asked).n)}
      BY <1>8 DEF TwsAnswer
    <3> QED
      BY <1>1, <3>1, <3>2
  <2> QED
    BY <1>1, <1>4, <1>8, <2>1, <2>3 DEF TwsAnswer
<1>9. CASE TwsOrderEvent
  <2>1. PICK i \in 1 .. Items : coming' = Append(coming, [call |-> "ord", n |-> 0, item |-> i])
    BY <1>9 DEF TwsOrderEvent
  <2>2. [call |-> "ord", n |-> 0, item |-> i] \in Message
    BY <1>1 DEF Message, Kinds
  <2>3. coming' \in Seq(Message)
    BY <1>1, <2>1, <2>2, RangeAppend
  <2> QED
    BY <1>1, <1>4, <1>9, <2>3 DEF TwsOrderEvent
<1>10. CASE StoreItem
  <2> DEFINE m == Head(coming)
  <2>1. m \in Message /\ coming' \in Seq(Message)
    BY <1>1, <1>10, RangeTail DEF StoreItem
  <2>2. m.n \in 0 .. MaxQueries /\ m.item \in 1 .. Items
    BY <1>1, <1>10, <2>1 DEF StoreItem, Message
  <2>3. data' = Stored(m)
    BY <1>10 DEF StoreItem
  <2> HIDE DEF m
  <2>4. DOMAIN data' = Kinds
    BY <2>3 DEF Stored
  <2>5. ASSUME NEW k \in Kinds, Scalar(k)
        PROVE  data'[k] \in 0 .. MaxQueries
    <3>1. data'[k] \in {m.n, data[k]}
      BY <2>3, <2>5 DEF Stored, Scalar
    <3> QED
      BY <1>4, <2>2, <2>5, <3>1
  <2>6. data'["pos"] \in {data["pos"], Append(data["pos"], m.item)}
    BY <2>3 DEF Stored, Kinds, Details, Accounts
  <2>7. data'["ord"] \in {data["ord"], data["ord"] \cup {m.item}}
    BY <2>3 DEF Stored, Kinds, Details, Accounts
  <2>8. data'["pos"] \in Seq(1 .. Items) /\ data'["ord"] \subseteq 1 .. Items
    <3>1. data["pos"] \in Seq(1 .. Items) /\ data["ord"] \subseteq 1 .. Items
      BY <1>4
    <3>2. Append(data["pos"], m.item) \in Seq(1 .. Items)
      BY <2>2, <3>1, AppendProperties
    <3> QED
      BY <2>2, <2>6, <2>7, <3>1, <3>2
  <2>9. DataOK'
    BY <2>4, <2>5, <2>8
  <2> QED
    BY <1>1, <1>4, <1>10, <2>1, <2>9 DEF StoreItem
<1>11. CASE EndAnswer
  <2>1. Head(coming) \in Message /\ coming' \in Seq(Message)
    BY <1>1, <1>11, RangeTail DEF EndAnswer
  <2>2. flag' \in [Flags -> BOOLEAN]
    BY <1>1, <1>2, <1>11, <2>1 DEF EndAnswer, Message
  <2>3. answered' \in BOOLEAN
    BY <1>4, <1>11 DEF EndAnswer
  <2> QED
    BY <1>1, <1>4, <1>11, <2>1, <2>2, <2>3 DEF EndAnswer
<1>12. CASE UNCHANGED vars
  BY <1>1, <1>4, <1>12 DEF vars
<1> QED
  BY <1>5, <1>6, <1>7, <1>8, <1>9, <1>10, <1>11, <1>12 DEF Next, Program, Advances

-----------------------------------------------------------------------------
(* The answer to a query is its own, and is not lost.                      *)

\* What TWS answers with is for a request that was made.
LEMMA AnswerRange ==
  ASSUME QueryReplyAssumption, TypeOK, TwsAnswer
  PROVE  /\ Head(asked) \in Call /\ Range(asked) = {Head(asked)} \cup Range(asked')
         /\ \A m \in Range(coming') : m \in Range(coming)
                \/ (m.n = Head(asked).n /\ m.call = Head(asked).call /\ m.n # 0)
<1>1. /\ asked \in Seq(Call) /\ coming \in Seq(Message)
  BY DEF TypeOK, Call, Message
<1>2. Head(asked) \in Call /\ Range(asked) = {Head(asked)} \cup Range(asked')
  BY <1>1, RangeTail DEF TwsAnswer
<1> DEFINE h == Head(asked)
           a == Answer(h.call, h.n)
<1>3. h.call \in Kinds /\ h.n \in 1 .. MaxQueries
  BY <1>2 DEF Call
<1>4. /\ a \in Seq(Message) /\ Len(a) = ItemsOf(h.call) + 1 /\ ItemsOf(h.call) \in Nat
      /\ \A i \in 1 .. ItemsOf(h.call) + 1 : a[i].call = h.call /\ a[i].n = h.n
  BY <1>3, AnswerFacts
<1>5. coming' = coming \/ coming' = coming \o a
  BY DEF TwsAnswer
<1> HIDE DEF a, h
<1>6. ASSUME coming' = coming \o a, NEW m \in Range(coming')
      PROVE  m \in Range(coming) \/ (m.n = h.n /\ m.call = h.call)
  <2>1. /\ coming' \in Seq(Message) /\ Len(coming') = Len(coming) + Len(a)
        /\ \A i \in 1 .. Len(coming) + Len(a) :
              coming'[i] = IF i <= Len(coming) THEN coming[i] ELSE a[i - Len(coming)]
    BY <1>1, <1>4, <1>6, ConcatProperties
  <2>2. /\ DOMAIN coming' = 1 .. Len(coming') /\ DOMAIN coming = 1 .. Len(coming)
        /\ Len(coming) \in Nat /\ Len(a) \in Nat
    BY <1>1, <1>4, <2>1, LenProperties
  <2>3. PICK i \in 1 .. Len(coming) + Len(a) : m = coming'[i]
    BY <1>6, <2>1, <2>2 DEF Range
  <2>4. CASE i <= Len(coming)
    BY <2>1, <2>2, <2>3, <2>4 DEF Range
  <2>5. CASE i > Len(coming)
    <3>1. i - Len(coming) \in 1 .. Len(a) /\ m = a[i - Len(coming)]
      BY <2>1, <2>2, <2>3, <2>5
    <3> QED
      BY <1>4, <3>1
  <2> QED
    BY <2>2, <2>4, <2>5
<1>7. h.n # 0
  BY <1>3, QueryReplyAssumption DEF QueryReplyAssumption
<1> QED
  BY <1>2, <1>5, <1>6, <1>7 DEF h

LEMMA EventsStep ==
  ASSUME QueryReplyAssumption, TypeOK, Events, [Next]_vars
  PROVE  Events'
<1>1. coming \in Seq(Message)
  BY DEF TypeOK, Message
<1>2. CASE TwsAnswer
  BY <1>2, AnswerRange DEF Events
<1>3. CASE TwsOrderEvent
  <2>1. PICK i \in 1 .. Items : coming' = Append(coming, [call |-> "ord", n |-> 0, item |-> i])
    BY <1>3 DEF TwsOrderEvent
  <2>2. [call |-> "ord", n |-> 0, item |-> i] \in Message /\ i # 0
    BY DEF Message, Kinds, QueryReplyAssumption
  <2>3. Range(coming') = Range(coming) \cup {[call |-> "ord", n |-> 0, item |-> i]}
    BY <1>1, <2>1, <2>2, RangeAppend
  <2> QED
    BY <2>2, <2>3 DEF Events
<1>4. CASE StoreItem \/ EndAnswer
  <2>1. Range(coming) = {Head(coming)} \cup Range(coming')
    BY <1>1, <1>4, RangeTail DEF StoreItem, EndAnswer
  <2> QED
    BY <2>1 DEF Events
<1>5. CASE UNCHANGED coming
  BY <1>5 DEF Events
<1> QED
  BY <1>2, <1>3, <1>4, <1>5 DEF Next, Program, Begin, Clear, Unflag, Ask, Ready, TimeOut,
     Cancel, Advance, Read, vars

LEMMA OwnStep ==
  ASSUME QueryReplyAssumption, TypeOK, Events, OwnInv, [Next]_vars
  PROVE  OwnInv'
<1> USE DEF program
<1>1. /\ asked \in Seq(Call) /\ coming \in Seq(Message)
      /\ flag \in [Flags -> BOOLEAN] /\ MaxQueries \in Nat \ {0}
  BY DEF TypeOK, Call, Message, QueryReplyAssumption
<1>2. \A k \in Kinds : Flag(k) \in Flags
  BY DEF Flags
<1>3. kind # "none" => kind \in Kinds /\ number \in 1 .. MaxQueries
  BY DEF TypeOK
<1>4. CASE Begin
  <2>1. number' \in Free /\ answered' = FALSE /\ UNCHANGED <<asked, coming>>
    BY <1>4 DEF Begin
  <2>2. \A m \in Range(asked) \cup Range(coming) : m.n # number'
    BY <2>1 DEF Free, UnderWay, ToSet, Range
  <2> QED
    BY <2>1, <2>2 DEF OwnInv
<1>5. CASE Ask
  <2>1. [call |-> kind, n |-> number] \in Call
    BY <1>5, AdvanceFacts DEF Advances, Call
  <2>2. Range(asked') = Range(asked) \cup {[call |-> kind, n |-> number]}
    BY <1>1, <1>5, <2>1, RangeAppend DEF Ask
  <2>3. /\ PastAsk' /\ ~PastAsk /\ flag' = flag
        /\ UNCHANGED <<kind, number, coming, answered>>
    BY <1>5, AdvanceFacts, StepOrder DEF Advances, PastAsk, Ask, At, TypeOK
  <2> QED
    BY <2>2, <2>3 DEF OwnInv
<1>6. CASE Advances /\ ~Ask
  <2>1. (PastAsk => PastAsk') /\ UNCHANGED <<kind, number, asked, coming, answered>>
    <3>1. /\ kind \in Kinds /\ kind' = kind /\ pc' = pc + 1 /\ ~At("read")
          /\ UNCHANGED <<number, coming, answered>> /\ pc \in 1 .. Len(Steps(kind))
      BY <1>6, AdvanceFacts
    <3>2. PastAsk => PastAsk'
      BY <3>1, StepOrder DEF PastAsk
    <3>3. asked' = asked
      BY <1>6 DEF Advances, Clear, Unflag, Ready, TimeOut, Cancel
    <3> QED
      BY <3>1, <3>2, <3>3
  <2>2. answered => flag' = flag
    <3>1. kind # "none" /\ (At("unflag") => ~PastAsk)
      BY <1>6 DEF At, PastAsk, Advances, Clear, Unflag, Ready, TimeOut, Cancel
    <3>2. answered => ~Unflag
      BY <3>1 DEF OwnInv, Unflag
    <3> QED
      BY <1>6, <3>2 DEF Advances, Clear, Ready, TimeOut, Cancel
  <2> QED
    BY <2>1, <2>2 DEF OwnInv
<1>7. CASE Read
  BY <1>7 DEF Read, OwnInv
<1>8. CASE TwsAnswer
  <2>1. UNCHANGED <<kind, pc, number, flag, answered>>
    BY <1>8 DEF TwsAnswer
  <2>2. PastAsk' = PastAsk
    BY <2>1 DEF PastAsk, At
  <2> QED
    BY <1>8, <2>1, <2>2, AnswerRange DEF OwnInv
<1>9. CASE TwsOrderEvent
  <2>1. PICK i \in 1 .. Items : coming' = Append(coming, [call |-> "ord", n |-> 0, item |-> i])
    BY <1>9 DEF TwsOrderEvent
  <2>2. [call |-> "ord", n |-> 0, item |-> i] \in Message
    BY DEF Message, Kinds, QueryReplyAssumption
  <2>3. Range(coming') = Range(coming) \cup {[call |-> "ord", n |-> 0, item |-> i]}
    BY <1>1, <2>1, <2>2, RangeAppend
  <2>4. UNCHANGED <<kind, pc, number, flag, asked, answered>>
    BY <1>9 DEF TwsOrderEvent
  <2>5. PastAsk' = PastAsk
    BY <2>4 DEF PastAsk, At
  <2> QED
    BY <1>3, <2>3, <2>4, <2>5 DEF OwnInv
<1>10. CASE StoreItem \/ EndAnswer
  <2>1. /\ Head(coming) \in Message /\ Range(coming) = {Head(coming)} \cup Range(coming')
        /\ UNCHANGED <<kind, pc, number, asked>>
    BY <1>1, <1>10, RangeTail DEF StoreItem, EndAnswer
  <2>2. PastAsk' = PastAsk
    BY <2>1 DEF PastAsk, At
  <2>3. CASE StoreItem
    BY <2>1, <2>2, <2>3 DEF StoreItem, OwnInv
  <2>4. CASE EndAnswer
    <3>1. /\ flag' = [flag EXCEPT ![Flag(Head(coming).call)] = TRUE]
          /\ answered' => answered \/ (kind # "none" /\ Head(coming).n = number)
      BY <2>4 DEF EndAnswer
    <3>2. kind # "none" /\ answered' => PastAsk /\ flag'[Flag(kind)]
      <4> SUFFICES ASSUME kind # "none", answered'
                   PROVE  PastAsk /\ flag'[Flag(kind)]
        OBVIOUS
      <4>1. Flag(kind) \in Flags
        BY <1>2, <1>3
      <4>2. CASE answered
        BY <1>1, <3>1, <4>1, <4>2 DEF OwnInv
      <4>3. CASE Head(coming).n = number
        <5>1. PastAsk /\ Head(coming).call = kind
          BY <2>1, <4>3 DEF OwnInv
        <5> QED
          BY <1>1, <3>1, <4>1, <5>1
      <4> QED
        BY <3>1, <4>2, <4>3
    <3> QED
      BY <2>1, <2>2, <3>2 DEF OwnInv
  <2> QED
    BY <1>10, <2>3, <2>4
<1>11. CASE UNCHANGED vars
  BY <1>11 DEF vars, OwnInv, PastAsk, At
<1> QED
  BY <1>4, <1>5, <1>6, <1>7, <1>8, <1>9, <1>10, <1>11 DEF Next, Program, Advances

\* A flag is only reset at the beginning of a query.
LEMMA SeenStep ==
  ASSUME QueryReplyAssumption, TypeOK, SeenInv, [Next]_vars
  PROVE  SeenInv'
<1> USE DEF program
<1>1. CASE Advances
  <2>1. /\ kind \in Kinds /\ kind' = kind /\ pc' = pc + 1 /\ ~At("read")
        /\ pc \in 1 .. Len(Steps(kind))
    BY <1>1, AdvanceFacts
  <2>2. CASE Clear \/ Unflag \/ Ask
    <3>1. At("unflag")' \/ At("ask")' \/ At("wait")'
      BY <2>1, <2>2, StepOrder DEF Clear, Unflag, Ask
    <3> QED
      BY <3>1 DEF SeenInv, At
  <2>3. CASE Ready
    BY <2>1, <2>3 DEF Ready, SeenInv
  <2>4. CASE TimeOut
    BY <2>4 DEF TimeOut, SeenInv
  <2>5. CASE Cancel
    BY <2>1, <2>5 DEF Cancel, Advance, SeenInv
  <2> QED
    BY <1>1, <2>2, <2>3, <2>4, <2>5 DEF Advances
<1>2. CASE Begin
  <2>1. kind' \in Kinds /\ pc' = 1
    BY <1>2 DEF Begin, QueryReplyAssumption
  <2>2. Steps(kind')[1] \in {"clear", "unflag"}
    BY <2>1, StepsOf DEF Kinds
  <2> QED
    BY <2>1, <2>2 DEF SeenInv, At
<1>3. CASE Read
  BY <1>3 DEF Read, SeenInv, At
<1>4. CASE TwsAnswer \/ TwsOrderEvent \/ StoreItem \/ UNCHANGED vars
  BY <1>4 DEF TwsAnswer, TwsOrderEvent, StoreItem, vars, SeenInv, At
<1>5. CASE EndAnswer
  <2>1. flag \in [Flags -> BOOLEAN] /\ (kind # "none" => Flag(kind) \in Flags)
    BY DEF TypeOK, Flags
  <2>2. UNCHANGED <<kind, pc, timedOut>>
    BY <1>5 DEF EndAnswer
  <2>3. \A f \in Flags : flag[f] => flag'[f]
    BY <1>5, <2>1 DEF EndAnswer
  <2> QED
    BY <2>1, <2>2, <2>3 DEF SeenInv, At
<1> QED
  BY <1>1, <1>2, <1>3, <1>4, <1>5 DEF Next, Program, Advances

-----------------------------------------------------------------------------
(* A query that began clean.                                               *)

LEMMA NoItems == [i \in 1 .. 0 |-> i] = <<>>
<1> DEFINE e == [i \in 1 .. 0 |-> i]
<1>1. e \in Seq(Nat) /\ Len(e) = 0
  OBVIOUS
<1> HIDE DEF e
<1>2. e = <<>>
  BY <1>1, EmptySeq
<1> QED
  BY <1>2 DEF e

\* Another's item changes nothing that the answer is compared with.
LEMMA HasOther ==
  ASSUME TypeOK, kind \in Kinds, NEW m \in Message, data' = Stored(m),
         UNCHANGED <<kind, number>>,
         m.n = 0 => m.call = "ord", m.n # 0 => Flag(m.call) # Flag(kind),
         NEW j, Has(j)
  PROVE  Has(j)'
<1>1. m.call \in Kinds
  BY DEF Message
<1>2. m.call = kind => kind = "ord"
  OBVIOUS
<1>3. m.call \in Details => kind \notin Details
  <2>1. \A k \in Details : Flag(k) = "b_ctrDetail" /\ k # "ord"
    BY DEF Flag, Details, Accounts
  <2> QED
    BY <2>1
<1>4. kind = "pos" => data'["pos"] = data["pos"]
  BY <1>2 DEF Stored, Kinds, Details, Accounts
<1>5. data["ord"] \subseteq data'["ord"]
  BY DEF Stored, Kinds, Details, Accounts
<1>6. Scalar(kind) => data'[kind] = data[kind]
  BY <1>2, <1>3 DEF Stored, Scalar, Kinds
<1> QED
  BY <1>4, <1>5, <1>6 DEF Has

LEMMA HasOwn ==
  ASSUME TypeOK, kind \in Kinds, NEW m \in Message, data' = Stored(m),
         UNCHANGED <<kind, number>>, m.call = kind, m.n = number,
         NEW j \in Nat, m.item = j + 1, Has(j)
  PROVE  Has(j + 1)'
<1>1. CASE kind = "pos"
  <2>1. data'["pos"] = Append([i \in 1 .. j |-> i], j + 1)
    BY <1>1 DEF Stored, Has, Kinds, Details, Accounts
  <2>2. Append([i \in 1 .. j |-> i], j + 1) = [i \in 1 .. j + 1 |-> i]
    <3>1. [i \in 1 .. j |-> i] \in Seq(Nat) /\ Len([i \in 1 .. j |-> i]) = j
      OBVIOUS
    <3>2. [i \in 1 .. j + 1 |-> i] \in Seq(Nat) /\ Len([i \in 1 .. j + 1 |-> i]) = j + 1
      OBVIOUS
    <3> QED
      BY <3>1, <3>2, AppendProperties, SeqEqual
  <2> QED
    BY <1>1, <2>1, <2>2 DEF Has, Scalar
<1>2. CASE kind = "ord"
  <2>1. data'["ord"] = data["ord"] \cup {j + 1}
    BY <1>2 DEF Stored, Kinds, Details, Accounts
  <2> QED
    BY <1>2, <2>1 DEF Has, Scalar
<1>3. CASE Scalar(kind)
  <2>1. data'[kind] = number
    BY <1>3 DEF Stored, Scalar, Kinds
  <2> QED
    BY <1>3, <2>1 DEF Has, Scalar
<1> QED
  BY <1>1, <1>2, <1>3 DEF Scalar

\* Where the query's own entries are in a queue that grows or is read.
LEMMA OwnAppend ==
  ASSUME NEW S, NEW q \in Seq(S), NEW e \in S
  PROVE  Own(Append(q, e)) = IF e.n = number THEN Own(q) \cup {Len(q) + 1} ELSE Own(q)
<1>1. /\ Len(q) \in Nat /\ Len(Append(q, e)) = Len(q) + 1
      /\ \A i \in 1 .. Len(q) : Append(q, e)[i] = q[i]
      /\ Append(q, e)[Len(q) + 1] = e
  BY AppendProperties, LenProperties
<1> QED
  BY <1>1 DEF Own

LEMMA OwnTail ==
  ASSUME NEW S, NEW q \in Seq(S), q # <<>>
  PROVE  /\ Len(q) \in Nat \ {0} /\ Len(Tail(q)) = Len(q) - 1
         /\ Head(q) = q[1] /\ (1 \in Own(q) <=> Head(q).n = number)
         /\ \A i \in 1 .. Len(q) - 1 : Tail(q)[i] = q[i + 1]
         /\ \A i \in Nat \ {0} : i \in Own(Tail(q)) <=> i + 1 \in Own(q)
<1>1. /\ Len(q) \in Nat \ {0} /\ Len(Tail(q)) = Len(q) - 1
      /\ \A i \in 1 .. Len(q) - 1 : Tail(q)[i] = q[i + 1]
      /\ Head(q) = q[1]
  BY HeadTailProperties, LenProperties, EmptySeq
<1> QED
  BY <1>1 DEF Own

LEMMA OwnRange ==
  ASSUME NEW S, NEW q \in Seq(S)
  PROVE  /\ Own(q) = {} <=> \A m \in Range(q) : m.n # number
         /\ \A i \in Own(q) : i \in 1 .. Len(q) /\ q[i] \in Range(q)
<1>1. DOMAIN q = 1 .. Len(q)
  BY LenProperties
<1> QED
  BY <1>1 DEF Own, Range

\* The statements of a query that begins clean.
LEMMA CleanAdvance ==
  ASSUME QueryReplyAssumption, TypeOK, OwnInv, CleanInv, clean, Advances
  PROVE  CleanInv'
<1>1. /\ kind \in Kinds /\ kind # "none" /\ kind' = kind /\ pc' = pc + 1 /\ ~At("read")
      /\ UNCHANGED <<number, coming, clean, answered>>
      /\ pc \in 1 .. Len(Steps(kind)) /\ number \in 1 .. MaxQueries
  BY AdvanceFacts DEF Advances, Clear, Unflag, Ask, Ready, TimeOut, Cancel, At
<1>2. asked \in Seq(Call) /\ coming \in Seq(Message) /\ flag \in [Flags -> BOOLEAN]
  BY DEF TypeOK, Call, Message
<1>3. NoOther /\ (PastAsk => InAsked \/ InComing \/ Gone)
  BY <1>1 DEF CleanInv
<1>4. ~PastAsk => Own(asked) = {} /\ Own(coming) = {}
  BY <1>1, <1>2, OwnRange DEF OwnInv
<1>5. CASE Clear
  <2>1. At("unflag")' /\ ~At("ask")' /\ ~PastAsk'
    BY <1>1, <1>5, StepOrder DEF Clear, At, PastAsk
  <2>2. data'["pos"] = <<>> \/ kind' # "pos"
    BY <1>1, <1>5 DEF Clear, Cleared, TypeOK
  <2>3. Has(0)'
    <3>1. kind' = "pos" => data'["pos"] = [i \in 1 .. 0 |-> i]
      BY <2>2, NoItems
    <3>2. (kind' = "ord" => 1 .. 0 \subseteq data'["ord"]) /\ 0 # 1
      OBVIOUS
    <3> QED
      BY Zenon, <3>1, <3>2 DEF Has
  <2>4. NoOther'
    BY <1>1, <1>3, <1>5 DEF Clear, NoOther
  <2> QED
    BY <2>1, <2>3, <2>4 DEF CleanInv
<1>6. CASE Unflag
  <2>1. At("ask")' /\ ~At("unflag")' /\ ~PastAsk' /\ At("unflag")
    BY <1>1, <1>6, StepOrder DEF Unflag, At, PastAsk
  <2>2. Has(0)' /\ NoOther'
    BY <1>1, <1>3, <1>6, <2>1 DEF Unflag, NoOther, CleanInv, Has
  <2>3. ~flag'[Flag(kind)]
    BY <1>1, <1>2, <1>6 DEF Unflag, Flags
  <2> QED
    BY <1>1, <2>1, <2>2, <2>3 DEF CleanInv
<1>7. CASE Ask
  <2> DEFINE r == [call |-> kind, n |-> number]
  <2>1. At("wait")' /\ ~At("unflag")' /\ ~At("ask")' /\ ~PastAsk /\ At("ask")
    BY <1>1, <1>7, StepOrder DEF Ask, At, PastAsk
  <2>2. r \in Call /\ r.n = number /\ asked' = Append(asked, r) /\ UNCHANGED <<flag, data>>
    BY <1>1, <1>7 DEF Call, Ask
  <2> HIDE DEF r
  <2>3. Range(asked') = Range(asked) \cup {r} /\ Len(asked') = Len(asked) + 1
    BY <1>2, <2>2, RangeAppend, AppendProperties
  <2>4. NoOther'
    BY <1>1, <1>3, <2>2, <2>3 DEF NoOther
  <2>5. Own(asked)' = {Len(asked) + 1} /\ Own(coming)' = {}
    <3>1. Own(asked) = {} /\ Own(coming) = {}
      BY <1>4, <2>1
    <3>2. Own(Append(asked, r)) = {Len(asked) + 1}
      BY <1>2, <2>2, <3>1, OwnAppend
    <3> QED
      BY <1>1, <2>2, <3>1, <3>2 DEF Own
  <2>6. Len(asked) + 1 \in 1 .. Len(asked')
    BY <1>2, <2>3, LenProperties
  <2>7. ~flag'[Flag(kind)] /\ Has(0)'
    BY <1>1, <2>1, <2>2 DEF CleanInv, Has
  <2>8. InAsked'
    BY <1>1, <2>5, <2>6, <2>7 DEF InAsked
  <2> QED
    BY <2>1, <2>4, <2>8 DEF CleanInv
<1>8. CASE Ready \/ TimeOut \/ Cancel
  <2>1. PastAsk /\ ~At("unflag")' /\ ~At("ask")'
    BY <1>1, <1>8, StepOrder DEF Ready, TimeOut, Cancel, At, PastAsk
  <2>2. UNCHANGED <<flag, data, asked>>
    BY <1>8 DEF Ready, TimeOut, Cancel
  <2> QED
    BY <1>1, <1>3, <2>1, <2>2
       DEF CleanInv, NoOther, InAsked, InComing, Gone, Block, Own, Has
<1> QED
  BY <1>5, <1>6, <1>7, <1>8 DEF Advances

\* The bounds of a block, and of an answer put at the end.
LEMMA BlockAppended ==
  ASSUME QueryReplyAssumption, kind \in Kinds, number \in 1 .. MaxQueries,
         coming \in Seq(Message), Own(coming) = {},
         coming' = coming \o Answer(kind, number), UNCHANGED <<kind, number>>
  PROVE  \E s \in 1 .. Len(coming') : Block(s, 1)'
<1> DEFINE a == Answer(kind, number)
           n == ItemsOf(kind)
<1>1. /\ a \in Seq(Message) /\ Len(a) = n + 1 /\ n \in Nat \ {0}
      /\ \A i \in 1 .. n + 1 : a[i].n = number /\ a[i].item = IF i <= n THEN i ELSE 0
  <2>1. /\ n \in 1 .. Items /\ Items \in Nat
        /\ a \in Seq(Message) /\ Len(a) = n + 1
        /\ \A i \in 1 .. n + 1 :
             a[i].n = number /\ a[i].item = IF i <= n THEN i ELSE 0
    BY AnswerFacts DEF a, n
  <2> QED
    BY <2>1
<1> HIDE DEF a, n
<1>2. /\ coming' \in Seq(Message) /\ Len(coming') = Len(coming) + n + 1 /\ Len(coming) \in Nat
      /\ \A i \in 1 .. Len(coming) + n + 1 :
            coming'[i] = IF i <= Len(coming) THEN coming[i] ELSE a[i - Len(coming)]
  <2>1. coming' = coming \o a
    BY DEF a
  <2>2. /\ coming' \in Seq(Message) /\ Len(coming') = Len(coming) + Len(a)
        /\ \A i \in 1 .. Len(coming) + Len(a) :
              coming'[i] = IF i <= Len(coming) THEN coming[i] ELSE a[i - Len(coming)]
    <3>1. /\ coming \o a \in Seq(Message) /\ Len(coming \o a) = Len(coming) + Len(a)
          /\ \A i \in 1 .. Len(coming) + Len(a) :
               (coming \o a)[i] = IF i <= Len(coming) THEN coming[i] ELSE a[i - Len(coming)]
      BY <1>1, ConcatProperties
    <3> QED
      BY <2>1, <3>1
  <2>3. Len(coming) \in Nat /\ Len(coming) + Len(a) = Len(coming) + n + 1
    BY <1>1, LenProperties
  <2> QED
    BY <2>2, <2>3
<1>3. ASSUME NEW i \in Len(coming) + 1 .. Len(coming) + n + 1
      PROVE  /\ coming'[i].n = number
             /\ coming'[i].item = IF i < Len(coming) + n + 1 THEN i - Len(coming) ELSE 0
  <2>1. i - Len(coming) \in 1 .. n + 1 /\ coming'[i] = a[i - Len(coming)]
    BY <1>1, <1>2
  <2> QED
    BY <1>1, <1>2, <2>1
<1>4. \A i \in 1 .. Len(coming) : coming'[i].n # number
  <2> SUFFICES ASSUME NEW i \in 1 .. Len(coming)
               PROVE  coming'[i].n # number
    OBVIOUS
  <2>1. i \in 1 .. Len(coming) + n + 1 /\ i <= Len(coming)
    BY <1>1, <1>2
  <2>2. coming'[i] = coming[i]
    BY <1>2, <2>1
  <2> QED
    BY <2>2 DEF Own
<1>5. Own(coming)' = Len(coming) + 1 .. Len(coming) + n + 1
  BY <1>1, <1>2, <1>3, <1>4 DEF Own
<1>6. ItemsOf(kind)' = n
  BY DEF n, ItemsOf, Scalar
<1>7. Len(coming) + 1 + n + 1 - 1 = Len(coming) + n + 1 /\ Len(coming) + n + 1 \in Nat
  BY <1>1, <1>2
<1>8. \A i \in Len(coming) + 1 .. Len(coming) + n + 1 :
        coming'[i].item = IF i < Len(coming) + n + 1 THEN 1 + i - (Len(coming) + 1) ELSE 0
  BY <1>1, <1>2, <1>3
<1>9. PICK s \in Nat : s = Len(coming) + 1
  BY <1>2
<1>10. Block(s, 1)'
  BY <1>2, <1>5, <1>6, <1>7, <1>8, <1>9 DEF Block
<1> QED
  BY <1>1, <1>2, <1>9, <1>10

\* TWS answers, or reports an order.
LEMMA CleanTws ==
  ASSUME QueryReplyAssumption, TypeOK, OwnInv, CleanInv, clean, kind # "none",
         TwsAnswer \/ TwsOrderEvent
  PROVE  CleanInv'
<1>1. /\ kind \in Kinds /\ number \in 1 .. MaxQueries /\ MaxQueries \in Nat /\ Items \in Nat
      /\ asked \in Seq(Call) /\ coming \in Seq(Message)
  BY DEF TypeOK, Call, Message, QueryReplyAssumption
<1>2. UNCHANGED <<kind, pc, number, flag, data, clean>>
  BY DEF TwsAnswer, TwsOrderEvent, program
<1>3. PastAsk' = PastAsk /\ At("unflag")' = At("unflag") /\ At("ask")' = At("ask")
  BY <1>2 DEF PastAsk, At
<1>4. NoOther /\ (PastAsk => InAsked \/ InComing \/ Gone)
  BY DEF CleanInv
<1>5. \A j : Has(j)' <=> Has(j)
  BY <1>2 DEF Has, Scalar
<1>6. ItemsOf(kind) \in Nat \ {0} /\ ItemsOf(kind)' = ItemsOf(kind)
  BY <1>2, QueryReplyAssumption DEF ItemsOf, Scalar, QueryReplyAssumption
<1>7. /\ At("unflag")' => Has(0)'
      /\ At("ask")' => Has(0)' /\ ~flag'[Flag(kind')]
  BY <1>2, <1>3, <1>5 DEF CleanInv
<1>8. CASE TwsAnswer
  <2> DEFINE h == Head(asked)
  <2>1. /\ h \in Call /\ Range(asked) = {h} \cup Range(asked')
        /\ \A m \in Range(coming') :
             m \in Range(coming) \/ (m.n = h.n /\ m.call = h.call /\ m.n # 0)
    BY <1>8, AnswerRange
  <2>2. h.call \in Kinds /\ h.n \in 1 .. MaxQueries /\ asked # <<>> /\ asked' = Tail(asked)
    BY <1>8, <2>1 DEF Call, TwsAnswer
  <2>3. /\ Len(asked) \in Nat \ {0} /\ Len(asked') = Len(asked) - 1
        /\ 1 \in Own(asked) <=> h.n = number
        /\ \A i \in Nat \ {0} : i \in Own(asked)' <=> i + 1 \in Own(asked)
    <3>1. \A i \in Nat \ {0} : i \in Own(Tail(asked)) <=> i + 1 \in Own(asked)
      BY <1>1, <2>2, OwnTail
    <3>2. Own(asked)' = Own(Tail(asked))
      BY <1>2, <2>2 DEF Own
    <3> QED
      BY <1>1, <2>2, <3>1, <3>2, OwnTail
  <2>4. coming' = coming \/ coming' = coming \o Answer(h.call, h.n)
    BY <1>8 DEF TwsAnswer
  <2>5. NoOther'
    BY <1>2, <1>4, <2>1 DEF NoOther
  <2>6. h.n = number => PastAsk /\ h.call = kind
    BY <2>1 DEF OwnInv
  <2> HIDE DEF h
  <2>7. \A i \in Own(asked)' : i \in Nat \ {0}
    BY <2>3 DEF Own
  <2>8. ASSUME h.n # number
        PROVE  /\ Own(coming)' = Own(coming) /\ Len(coming') >= Len(coming)
               /\ \A i \in 1 .. Len(coming) : coming'[i] = coming[i]
    <3>1. CASE coming' = coming
      BY <1>1, <1>2, <3>1, LenProperties DEF Own
    <3>2. CASE coming' = coming \o Answer(h.call, h.n)
      <4> DEFINE a == Answer(h.call, h.n)
      <4>1. /\ a \in Seq(Message) /\ Len(a) \in Nat
            /\ \A i \in 1 .. Len(a) : a[i].n = h.n
        BY <2>2, AnswerFacts
      <4> HIDE DEF a
      <4>2. coming' = coming \o a
        BY <3>2 DEF a
      <4>3. /\ Len(coming') = Len(coming) + Len(a)
            /\ \A i \in 1 .. Len(coming) + Len(a) :
                 coming'[i] = IF i <= Len(coming) THEN coming[i] ELSE a[i - Len(coming)]
        BY <1>1, <4>1, <4>2, ConcatProperties
      <4>4. Len(coming) \in Nat
        BY <1>1, LenProperties
      <4>5. ASSUME NEW i \in 1 .. Len(coming'), i > Len(coming)
            PROVE  coming'[i].n # number
        <5>1. i - Len(coming) \in 1 .. Len(a) /\ coming'[i] = a[i - Len(coming)]
          BY <4>1, <4>3, <4>4, <4>5
        <5> QED
          BY <2>8, <4>1, <5>1
      <4>6. \A i \in 1 .. Len(coming) : coming'[i] = coming[i] /\ i \in 1 .. Len(coming')
        BY <4>1, <4>3, <4>4
      <4>7. Own(coming)' = Own(coming)
        BY <1>2, <4>1, <4>3, <4>4, <4>5, <4>6 DEF Own
      <4> QED
        BY <4>1, <4>3, <4>4, <4>6, <4>7
    <3> QED
      BY <2>4, <3>1, <3>2
  <2>9. CASE h.n # number
    <3>1. Own(coming)' = Own(coming) /\ 1 \notin Own(asked)
      BY <2>3, <2>8, <2>9
    <3>2. Own(asked) = {} => Own(asked)' = {}
      BY <2>3, <2>7
    <3>3. ASSUME NEW k \in 1 .. Len(asked), Own(asked) = {k}
          PROVE  k - 1 \in 1 .. Len(asked') /\ Own(asked)' = {k - 1}
      BY <2>3, <2>7, <3>1, <3>3
    <3>4. InAsked => InAsked'
      BY <1>2, <1>5, <3>1, <3>3 DEF InAsked
    <3>5. Gone => Gone'
      BY <1>2, <1>5, <1>6, <3>1, <3>2 DEF Gone
    <3>6. InComing => InComing'
      <4> SUFFICES ASSUME NEW s \in 1 .. Len(coming), NEW j \in 1 .. ItemsOf(kind) + 1,
                          Block(s, j), Has(j - 1), InComing
                   PROVE  InComing'
        BY DEF InComing
      <4>1. Len(coming) \in Nat /\ Len(coming') \in Nat
        BY <1>1, LenProperties, TypedStep DEF TypeOK, Next, Message
      <4>2. Block(s, j)'
        <5> DEFINE last == s + ItemsOf(kind) + 1 - j
        <5>1. /\ last <= Len(coming) /\ Own(coming) = s .. last
              /\ \A i \in s .. last : coming[i].item = IF i < last THEN j + i - s ELSE 0
          BY DEF Block
        <5>2. last \in Nat /\ \A i \in s .. last : i \in 1 .. Len(coming)
          BY <1>6, <4>1, <5>1
        <5> HIDE DEF last
        <5>3. /\ last <= Len(coming') /\ Own(coming)' = s .. last
              /\ \A i \in s .. last : coming'[i].item = IF i < last THEN j + i - s ELSE 0
          <6>1. last <= Len(coming')
            BY <2>8, <2>9, <4>1, <5>1, <5>2
          <6>2. Own(coming)' = s .. last
            BY <2>8, <2>9, <5>1
          <6>3. \A i \in s .. last : coming'[i] = coming[i]
            BY <2>8, <2>9, <5>2
          <6> QED
            BY <5>1, <6>1, <6>2, <6>3
        <5> QED
          BY <1>6, <5>3 DEF Block, last
      <4>3. Has(j - 1)' /\ s \in 1 .. Len(coming') /\ j \in 1 .. ItemsOf(kind)' + 1
        BY <1>5, <1>6, <2>8, <2>9, <4>1
      <4> QED
        BY <1>2, <3>2, <4>2, <4>3 DEF InComing
    <3> QED
      BY <1>3, <1>4, <1>7, <2>5, <3>4, <3>5, <3>6 DEF CleanInv
  <2>10. CASE h.n = number
    <3>1. InAsked /\ PastAsk
      BY <1>4, <2>3, <2>6, <2>10 DEF InComing, Gone
    <3>2. Own(asked)' = {}
      BY <2>3, <2>7, <2>10, <3>1 DEF InAsked
    <3>3. CASE coming' = coming
      <4>1. Own(coming)' = {}
        BY <1>2, <3>1, <3>3 DEF InAsked, Own
      <4>2. Gone'
        BY <1>2, <3>1, <3>2, <4>1 DEF InAsked, Gone
      <4> QED
        BY <1>7, <2>5, <4>2 DEF CleanInv
    <3>4. CASE coming' = coming \o Answer(kind, number)
      <4>1. PICK s \in 1 .. Len(coming') : Block(s, 1)'
        BY <1>1, <1>2, <3>1, <3>4, BlockAppended DEF InAsked
      <4>2. PICK j \in 1 .. ItemsOf(kind)' + 1 : j = 1 /\ j - 1 = 0
        BY <1>6
      <4>3. Block(s, j)' /\ Has(j - 1)'
        <5>1. Has(0)'
          BY <1>5, <3>1 DEF InAsked
        <5> QED
          BY <4>1, <4>2, <5>1
      <4>4. InComing'
        BY <1>2, <3>1, <3>2, <4>1, <4>2, <4>3 DEF InAsked, InComing
      <4> QED
        BY <1>7, <2>5, <4>4 DEF CleanInv
    <3> QED
      BY <2>4, <2>6, <2>10, <3>3, <3>4
  <2> QED
    BY <2>9, <2>10
<1>9. CASE TwsOrderEvent
  <2>1. PICK i \in 1 .. Items : coming' = Append(coming, [call |-> "ord", n |-> 0, item |-> i])
    BY <1>9 DEF TwsOrderEvent
  <2> DEFINE e == [call |-> "ord", n |-> 0, item |-> i]
  <2>2. e \in Message /\ e.n # number /\ asked' = asked
    BY <1>1, <1>9 DEF Message, Kinds, TwsOrderEvent
  <2>3. /\ Range(coming') = Range(coming) \cup {e} /\ Len(coming') = Len(coming) + 1
        /\ Len(coming) \in Nat /\ \A k \in 1 .. Len(coming) : coming'[k] = coming[k]
    BY <1>1, <2>1, <2>2, RangeAppend, AppendProperties, LenProperties
  <2>4. Own(coming') = Own(coming)
    BY <1>1, <2>1, <2>2, OwnAppend
  <2>5. Own(coming)' = Own(coming) /\ Own(asked)' = Own(asked)
    BY <1>2, <2>2, <2>4 DEF Own
  <2>6. NoOther'
    BY <1>2, <1>4, <2>2, <2>3 DEF NoOther
  <2>7. InComing => InComing'
    <3> SUFFICES ASSUME NEW s \in 1 .. Len(coming), NEW j \in 1 .. ItemsOf(kind) + 1,
                        Block(s, j), Has(j - 1), InComing
                 PROVE  InComing'
      BY DEF InComing
    <3>1. Block(s, j)'
      <4> DEFINE last == s + ItemsOf(kind) + 1 - j
      <4>1. /\ last <= Len(coming) /\ Own(coming) = s .. last
            /\ \A k \in s .. last : coming[k].item = IF k < last THEN j + k - s ELSE 0
        BY DEF Block
      <4>2. \A k \in s .. last : k \in 1 .. Len(coming)
        BY <1>6, <2>3, <4>1
      <4>3. last <= Len(coming')
        BY <1>6, <2>3, <4>1
      <4> HIDE DEF last
      <4>4. \A k \in s .. last : coming'[k].item = IF k < last THEN j + k - s ELSE 0
        BY <2>3, <4>1, <4>2
      <4> QED
        BY <1>6, <2>5, <4>1, <4>3, <4>4 DEF Block, last
    <3>2. Has(j - 1)' /\ s \in 1 .. Len(coming') /\ j \in 1 .. ItemsOf(kind)' + 1
      BY <1>5, <1>6, <2>3
    <3> QED
      BY <1>2, <2>5, <3>1, <3>2 DEF InComing
  <2>8. (InAsked => InAsked') /\ (Gone => Gone')
    BY <1>2, <1>5, <1>6, <2>2, <2>5 DEF InAsked, Gone
  <2> QED
    BY <1>3, <1>4, <1>7, <2>6, <2>7, <2>8 DEF CleanInv
<1> QED
  BY <1>8, <1>9

\* What is left when the first message has been taken.
LEMMA Taken ==
  ASSUME coming \in Seq(Message), coming # <<>>, coming' = Tail(coming), number' = number
  PROVE  /\ Len(coming) \in Nat \ {0} /\ Len(coming') = Len(coming) - 1
         /\ Head(coming) = coming[1] /\ (1 \in Own(coming) <=> Head(coming).n = number)
         /\ \A i \in 1 .. Len(coming) - 1 : coming'[i] = coming[i + 1]
         /\ \A i \in Nat \ {0} : i \in Own(coming)' <=> i + 1 \in Own(coming)
         /\ \A i \in Own(coming)' : i \in Nat \ {0}
<1>1. Own(coming)' = Own(Tail(coming))
  BY DEF Own
<1>2. \A i \in Own(Tail(coming)) : i \in Nat \ {0}
  BY DEF Own
<1>3. /\ Len(coming) \in Nat \ {0} /\ Len(Tail(coming)) = Len(coming) - 1
      /\ Head(coming) = coming[1] /\ (1 \in Own(coming) <=> Head(coming).n = number)
      /\ \A i \in 1 .. Len(coming) - 1 : Tail(coming)[i] = coming[i + 1]
      /\ \A i \in Nat \ {0} : i \in Own(Tail(coming)) <=> i + 1 \in Own(coming)
  BY OwnTail
<1> QED
  BY Zenon, <1>1, <1>2, <1>3

\* Where a block is when the first message has been taken, which was not of it or was
\* its first item.
LEMMA BlockTail ==
  ASSUME coming \in Seq(Message), coming # <<>>, coming' = Tail(coming),
         UNCHANGED <<kind, number>>, ItemsOf(kind) \in Nat \ {0},
         NEW s \in Nat \ {0}, NEW j \in 1 .. ItemsOf(kind) + 1
  PROVE  /\ \A t \in Nat \ {0} : s = t + 1 /\ Block(s, j) => Block(t, j)'
         /\ \A l \in Nat : s = 1 /\ l = j + 1 /\ j <= ItemsOf(kind) /\ Block(s, j) => Block(s, l)'
<1>1. /\ Len(coming) \in Nat \ {0} /\ Len(coming') = Len(coming) - 1
      /\ \A i \in 1 .. Len(coming) - 1 : coming'[i] = coming[i + 1]
      /\ \A i \in Nat \ {0} : i \in Own(coming)' <=> i + 1 \in Own(coming)
      /\ \A i \in Own(coming)' : i \in Nat \ {0}
  BY Taken
<1>2. ItemsOf(kind)' = ItemsOf(kind)
  BY DEF ItemsOf, Scalar
<1> DEFINE n == ItemsOf(kind)
<1>3. n \in Nat \ {0} /\ j \in 1 .. n + 1
  OBVIOUS
<1> HIDE DEF n
<1>4. ASSUME NEW t \in Nat \ {0}, s = t + 1, Block(s, j)
      PROVE  Block(t, j)'
  <2> DEFINE last == t + n + 1 - j
  <2>1. /\ last + 1 <= Len(coming) /\ Own(coming) = t + 1 .. last + 1
        /\ \A i \in t + 1 .. last + 1 : coming[i].item = IF i < last + 1 THEN j + i - s ELSE 0
    <3>1. s + n + 1 - j = last + 1
      BY <1>3, <1>4
    <3> QED
      BY <1>3, <1>4, <3>1 DEF Block, n
  <2>2. last \in Nat /\ last <= Len(coming')
    <3>1. Len(coming) \in Nat /\ Len(coming') = Len(coming) - 1 /\ last + 1 <= Len(coming)
      BY <1>1, <2>1
    <3>2. last \in Nat
      BY <1>3
    <3> QED
      BY <3>1, <3>2
  <2> HIDE DEF last
  <2>3. Own(coming)' = t .. last
    <3>1. \A i \in Nat \ {0} : i \in t .. last <=> i + 1 \in t + 1 .. last + 1
      BY <2>2
    <3>2. \A i \in t .. last : i \in Nat \ {0}
      BY <2>2
    <3> QED
      BY <1>1, <2>1, <3>1, <3>2
  <2>4. ASSUME NEW i \in t .. last
        PROVE  coming'[i].item = IF i < last THEN j + i - t ELSE 0
    <3>1. /\ i + 1 \in t + 1 .. last + 1 /\ i \in 1 .. Len(coming) - 1
          /\ (i + 1 < last + 1 <=> i < last) /\ j + (i + 1) - s = j + i - t
      BY <1>1, <1>3, <1>4, <2>1, <2>2
    <3>2. coming'[i] = coming[i + 1]
      BY <1>1, <3>1
    <3> QED
      BY <2>1, <3>1, <3>2
  <2> QED
    BY <1>2, <2>2, <2>3, <2>4 DEF Block, last, n
<1>5. ASSUME NEW l \in Nat, s = 1, l = j + 1, j <= n, Block(s, j)
      PROVE  Block(s, l)'
  <2> DEFINE last == 1 + n + 1 - l
  <2>1. /\ last + 1 <= Len(coming) /\ Own(coming) = 1 .. last + 1
        /\ \A i \in 1 .. last + 1 : coming[i].item = IF i < last + 1 THEN j + i - s ELSE 0
    <3>1. 1 + n + 1 - j = last + 1
      BY <1>3, <1>5
    <3> QED
      BY <1>3, <1>5, <3>1 DEF Block, n
  <2>2. last \in Nat /\ last <= Len(coming')
    BY <1>1, <1>3, <1>5, <2>1
  <2> HIDE DEF last
  <2>3. Own(coming)' = 1 .. last
    <3>1. \A i \in Nat \ {0} : i \in 1 .. last <=> i + 1 \in 1 .. last + 1
      BY <2>2
    <3>2. \A i \in 1 .. last : i \in Nat \ {0}
      BY <2>2
    <3> QED
      BY <1>1, <2>1, <3>1, <3>2
  <2>4. ASSUME NEW i \in 1 .. last
        PROVE  coming'[i].item = IF i < last THEN l + i - s ELSE 0
    <3>1. /\ i + 1 \in 1 .. last + 1 /\ i \in 1 .. Len(coming) - 1
          /\ (i + 1 < last + 1 <=> i < last) /\ j + (i + 1) - s = l + i - s
      BY <1>1, <1>3, <1>5, <2>1, <2>2
    <3>2. coming'[i] = coming[i + 1]
      BY <1>1, <3>1
    <3> QED
      BY <2>1, <3>1, <3>2
  <2> QED
    BY <1>2, <1>5, <2>2, <2>3, <2>4 DEF Block, last, n
<1> QED
  BY <1>4, <1>5 DEF n

\* The reader takes a callback: of the query's own answer it is the next one.
LEMMA CleanReader ==
  ASSUME QueryReplyAssumption, TypeOK, Events, OwnInv, CleanInv, clean, kind # "none",
         StoreItem \/ EndAnswer
  PROVE  CleanInv'
<1> DEFINE h == Head(coming)
<1>1. /\ kind \in Kinds /\ number \in 1 .. MaxQueries /\ MaxQueries \in Nat
      /\ asked \in Seq(Call) /\ coming \in Seq(Message) /\ flag \in [Flags -> BOOLEAN]
  BY DEF TypeOK, Call, Message, QueryReplyAssumption
<1>2. /\ UNCHANGED <<kind, pc, number, asked, clean>>
      /\ coming # <<>> /\ coming' = Tail(coming)
  BY DEF StoreItem, EndAnswer, program
<1>3. PastAsk' = PastAsk /\ At("unflag")' = At("unflag") /\ At("ask")' = At("ask")
  BY <1>2 DEF PastAsk, At
<1>4. NoOther /\ (PastAsk => InAsked \/ InComing \/ Gone)
  BY DEF CleanInv
<1>5. ItemsOf(kind) \in Nat \ {0} /\ ItemsOf(kind)' = ItemsOf(kind)
  BY <1>2, QueryReplyAssumption DEF ItemsOf, Scalar, QueryReplyAssumption
<1>6. h \in Message /\ Range(coming) = {h} \cup Range(coming')
  BY <1>1, <1>2, RangeTail
<1>7. NoOther'
  BY <1>2, <1>4, <1>6 DEF NoOther
<1>8. /\ Len(coming) \in Nat \ {0} /\ Len(coming') = Len(coming) - 1
      /\ h = coming[1] /\ (1 \in Own(coming) <=> h.n = number)
      /\ \A i \in 1 .. Len(coming) - 1 : coming'[i] = coming[i + 1]
      /\ \A i \in Nat \ {0} : i \in Own(coming)' <=> i + 1 \in Own(coming)
      /\ \A i \in Own(coming)' : i \in Nat \ {0}
  BY <1>1, <1>2, Taken
<1>9. /\ h.n = 0 => h.call = "ord" /\ h.item # 0
      /\ h.n # 0 /\ h.n # number => Flag(h.call) # Flag(kind)
      /\ h.n = number => PastAsk /\ h.call = kind
  BY <1>6 DEF Events, NoOther, CleanInv, OwnInv
<1>10. Own(asked)' = Own(asked) /\ (Own(coming) = {} => Own(coming)' = {})
  BY <1>2, <1>8 DEF Own
<1> HIDE DEF h
<1>11. CASE h.n # number
  <2>1. /\ flag'[Flag(kind)] = flag[Flag(kind)]
        /\ \A j : Has(j) => Has(j)'
    <3>1. CASE StoreItem
      <4>1. data' = Stored(h) /\ flag' = flag
        BY <3>1 DEF StoreItem, h
      <4> QED
        BY <1>1, <1>2, <1>6, <1>9, <1>11, <4>1, HasOther
    <3>2. CASE EndAnswer
      <4>1. /\ flag' = [flag EXCEPT ![Flag(h.call)] = TRUE] /\ h.item = 0 /\ data' = data
        BY <3>2 DEF EndAnswer, h
      <4>2. Flag(h.call) # Flag(kind) /\ h.call \in Kinds
        BY <1>6, <1>9, <1>11, <4>1 DEF Message
      <4>3. flag'[Flag(kind)] = flag[Flag(kind)]
        <5>1. Flag(h.call) \in Flags /\ Flag(kind) \in Flags
          BY <1>1, <4>2 DEF Flags
        <5> QED
          BY <1>1, <4>1, <4>2, <5>1
      <4>4. \A j : Has(j) => Has(j)'
        BY <1>2, <4>1 DEF Has, Scalar
      <4> QED
        BY <4>3, <4>4
    <3> QED
      BY <3>1, <3>2
  <2>2. (InAsked => InAsked') /\ (Gone => Gone')
    BY <1>2, <1>5, <1>10, <2>1 DEF InAsked, Gone
  <2>3. InComing => InComing'
    <3> SUFFICES ASSUME NEW s \in 1 .. Len(coming), NEW j \in 1 .. ItemsOf(kind) + 1,
                        Block(s, j), Has(j - 1), InComing
                 PROVE  InComing'
      BY DEF InComing
    <3>1. s # 1
      BY <1>5, <1>8, <1>11 DEF Block
    <3>2. PICK t \in 1 .. Len(coming') : s = t + 1
      <4>1. s - 1 \in 1 .. Len(coming') /\ s = (s - 1) + 1
        BY <1>8, <3>1
      <4> QED
        BY <4>1
    <3>3. Block(t, j)'
      <4>1. t \in Nat \ {0} /\ s \in Nat \ {0}
        <5>1. Len(coming') \in Nat
          BY <1>8
        <5> QED
          BY <3>2, <5>1
      <4>2. Block(s, j)
        OBVIOUS
      <4> QED
        BY <1>1, <1>2, <1>5, <3>2, <4>1, <4>2, BlockTail
    <3>4. Has(j - 1)' /\ j \in 1 .. ItemsOf(kind)' + 1
      BY <1>5, <2>1
    <3> QED
      BY <1>2, <1>10, <2>1, <3>3, <3>4 DEF InComing
  <2>4. /\ At("unflag")' => Has(0)'
        /\ At("ask")' => Has(0)' /\ ~flag'[Flag(kind')]
    BY <1>2, <1>3, <2>1 DEF CleanInv
  <2> QED
    BY <1>3, <1>4, <1>7, <2>2, <2>3, <2>4 DEF CleanInv
<1>12. CASE h.n = number
  <2>1. PastAsk /\ h.call = kind /\ InComing
    BY <1>4, <1>8, <1>9, <1>12 DEF InAsked, Gone
  <2>2. PICK s \in 1 .. Len(coming), j \in 1 .. ItemsOf(kind) + 1 : Block(s, j) /\ Has(j - 1)
    BY <2>1 DEF InComing
  <2>3. s = 1 /\ (h.item = IF j <= ItemsOf(kind) THEN j ELSE 0)
    BY <1>5, <1>8, <1>12, <2>2 DEF Block
  <2>4. ~At("unflag")' /\ ~At("ask")'
    BY <1>3, <2>1 DEF PastAsk, At
  <2>5. CASE StoreItem
    <3>1. data' = Stored(h) /\ flag' = flag /\ h.item # 0
      BY <2>5 DEF StoreItem, h
    <3>2. j <= ItemsOf(kind) /\ h.item = (j - 1) + 1 /\ j - 1 \in Nat
      BY <1>5, <2>3, <3>1
    <3>3. Has((j - 1) + 1)'
      BY <1>1, <1>2, <1>6, <1>12, <2>1, <2>2, <3>1, <3>2, HasOwn
    <3>4. PICK l \in 1 .. ItemsOf(kind)' + 1 : l = j + 1 /\ l - 1 = (j - 1) + 1
      BY <1>5, <3>2
    <3>5. Block(1, l)' /\ 1 \in 1 .. Len(coming')
      <4>1. s = 1 /\ l = j + 1 /\ l \in Nat /\ s \in Nat \ {0} /\ j <= ItemsOf(kind)
        BY <1>5, <2>3, <3>2, <3>4
      <4>2. Block(s, l)'
        BY <1>1, <1>2, <1>5, <2>2, <4>1, BlockTail
      <4>3. 1 \in 1 .. Len(coming')
        BY <1>5, <1>8, <2>2, <2>3, <3>2 DEF Block
      <4> QED
        BY <4>1, <4>2, <4>3
    <3>6. Has(l - 1)'
      BY <3>3, <3>4
    <3>7. InComing'
      BY <1>2, <1>10, <2>1, <3>1, <3>5, <3>6 DEF InComing
    <3> QED
      BY <1>3, <1>7, <2>4, <3>7 DEF CleanInv
  <2>6. CASE EndAnswer
    <3>1. data' = data /\ h.item = 0
      BY <2>6 DEF EndAnswer, h
    <3>2. j = ItemsOf(kind) + 1 /\ j - 1 = ItemsOf(kind)
      BY <1>5, <2>3, <3>1
    <3>3. Has(ItemsOf(kind))'
      <4>1. PICK l \in Nat : l = ItemsOf(kind)
        BY <1>5
      <4>2. Has(l)
        BY <2>2, <3>2, <4>1
      <4>3. Has(l)'
        BY <1>2, <3>1, <4>2 DEF Has, Scalar
      <4> QED
        BY <1>5, <4>1, <4>3
    <3>5. Own(coming)' = {}
      <4>1. Own(coming) = {1}
        <5>1. s + ItemsOf(kind) + 1 - j = 1
          BY <1>5, <2>3, <3>2
        <5>2. Own(coming) = 1 .. 1
          BY <2>2, <2>3, <5>1 DEF Block
        <5> QED
          BY <5>2
      <4> QED
        BY <1>8, <4>1
    <3>4. Gone'
      BY <1>10, <2>1, <3>3, <3>5 DEF InComing, Gone
    <3> QED
      BY <1>3, <1>7, <2>4, <3>4 DEF CleanInv
  <2> QED
    BY <2>5, <2>6
<1> QED
  BY <1>11, <1>12

LEMMA CleanStep ==
  ASSUME QueryReplyAssumption, TypeOK, Events, OwnInv, CleanInv, [Next]_vars
  PROVE  CleanInv'
<1>1. CASE Begin
  <2>1. /\ kind' \in Kinds /\ pc' = 1 /\ number' \in Free /\ UNCHANGED <<asked, coming>>
        /\ clean' = \A m \in UnderWay : m.n # 0 => Flag(m.call) # Flag(kind')
        /\ data' = [k \in Kinds |-> IF Scalar(k) THEN 0 ELSE data[k]]
    BY <1>1 DEF Begin, QueryReplyAssumption
  <2>2. clean' => NoOther'
    BY <2>1 DEF NoOther, UnderWay, ToSet, Range
  <2>3. ~At("ask")' /\ ~PastAsk' /\ (At("unflag")' => kind' \in Accounts)
    <3>1. /\ kind' \in Accounts => Steps(kind')[1] = "unflag"
          /\ kind' \notin Accounts => Steps(kind')[1] = "clear"
      BY <2>1, StepsOf DEF Kinds
    <3> QED
      BY <2>1, <3>1 DEF At, PastAsk
  <2>4. kind' \in Accounts => Has(0)'
    <3>1. kind' \in Accounts => kind' # "pos" /\ kind' # "ord"
      BY DEF Accounts
    <3> QED
      BY <3>1 DEF Has
  <2> QED
    BY <2>2, <2>3, <2>4 DEF CleanInv
<1>2. CASE Read
  BY <1>2 DEF Read, CleanInv
<1>3. CASE UNCHANGED vars
  BY ZenonT(30), <1>3 DEF vars, program, CleanInv, At, PastAsk, NoOther, InAsked, InComing, Gone,
     Own, Has, Block, Scalar, ItemsOf
<1>4. CASE Advances
  <2>1. CASE clean
    BY <1>4, <2>1, CleanAdvance
  <2>2. CASE ~clean
    BY <1>4, <2>2, AdvanceFacts DEF CleanInv
  <2> QED
    BY <2>1, <2>2
<1>5. CASE TwsAnswer \/ TwsOrderEvent \/ StoreItem \/ EndAnswer
  <2>1. UNCHANGED <<kind, clean>>
    BY <1>5 DEF TwsAnswer, TwsOrderEvent, StoreItem, EndAnswer, program
  <2>2. CASE kind # "none" /\ clean
    BY <1>5, <2>2, CleanTws, CleanReader
  <2>3. CASE kind = "none" \/ ~clean
    BY <2>1, <2>3 DEF CleanInv
  <2> QED
    BY <2>2, <2>3
<1> QED
  BY <1>1, <1>2, <1>3, <1>4, <1>5 DEF Next, Program, Advances

LEMMA InitInv ==
  ASSUME QueryReplyAssumption, Init
  PROVE  Inv
<1>1. /\ kind = "none" /\ timedOut = FALSE /\ clean = TRUE /\ answered = FALSE
      /\ asked = <<>> /\ coming = <<>>
      /\ flag = [f \in Flags |-> FALSE] /\ data = [k \in Kinds |-> Cleared(k)]
  BY Zenon DEF Init
<1>2. /\ DOMAIN data = Kinds /\ \A k \in Kinds : data[k] = Cleared(k)
  BY <1>1
<1>3. "pos" \in Kinds /\ "ord" \in Kinds
  BY DEF Kinds
<1>4. data["pos"] = <<>> /\ data["ord"] = {}
  BY <1>2, <1>3 DEF Cleared
<1>5. \A k \in Kinds : Scalar(k) => data[k] \in 0 .. MaxQueries
  BY <1>2 DEF Scalar, Cleared, QueryReplyAssumption
<1>6. TypeOK
  <2>1. flag \in [Flags -> BOOLEAN]
    BY <1>1
  <2>2. /\ data["pos"] \in Seq(1 .. Items) /\ data["ord"] \subseteq 1 .. Items
        /\ asked \in Seq(Call) /\ coming \in Seq(Message)
    BY <1>1, <1>4, EmptySeq
  <2> QED
    BY <1>1, <1>2, <1>5, <2>1, <2>2 DEF TypeOK, Call, Message
<1>7. Range(coming) = {}
  BY <1>1 DEF Range
<1>8. Events
  BY <1>7 DEF Events
<1>9. OwnInv /\ CleanInv /\ SeenInv
  BY <1>1 DEF OwnInv, CleanInv, SeenInv, At
<1> QED
  BY <1>6, <1>8, <1>9 DEF Inv

LEMMA Invariance == QueryReplyAssumption => (Spec => []Inv)
<1> SUFFICES ASSUME QueryReplyAssumption
             PROVE  Spec => []Inv
  OBVIOUS
<1>1. Init => Inv
  BY InitInv
<1>2. Inv /\ [Next]_vars => Inv'
  BY TypedStep, EventsStep, OwnStep, CleanStep, SeenStep DEF Inv
<1> QED
  BY <1>1, <1>2, PTL DEF Spec

-----------------------------------------------------------------------------
(* The theorems.                                                           *)

\* Every variable of the queries keeps its type: a query is at one of its statements,
\* and what its answer is stored in is of the kind the query reads.
THEOREM TypeCorrect == Spec => []TypeOK
<1>1. Inv => TypeOK
  BY DEF Inv
<1> QED
  BY <1>1, Invariance, QueryReplyAssumption, PTL

\* The end of an answer that arrives while the query waits is in its flag: no
\* statement of the program resets the flag behind the request.
THEOREM AnswerNotLost == Spec => []AnswerIsNotLost
<1>1. Inv => AnswerIsNotLost
  BY DEF Inv, OwnInv, AnswerIsNotLost, At
<1> QED
  BY <1>1, Invariance, QueryReplyAssumption, PTL

\* A query that finds its flag set, and began when no answer with that flag was under
\* way, reads the whole answer to its own request and nothing else.
THEOREM AnswerRight == Spec => []AnswerIsRight
<1>1. ASSUME Inv, QueryReplyAssumption, At("read"), ~timedOut, clean
      PROVE  Right
  <2>1. kind \in Kinds /\ kind # "none"
    BY <1>1 DEF Inv, TypeOK, At
  <2>2. flag[Flag(kind)]
    BY <1>1 DEF Inv, SeenInv
  <2>3. InAsked \/ InComing \/ Gone
    BY <1>1, <2>1 DEF Inv, CleanInv, PastAsk
  <2>4. Has(ItemsOf(kind))
    BY <2>2, <2>3 DEF InAsked, InComing, Gone
  <2>5. kind = "pos" => data[kind] = [i \in 1 .. Items |-> i]
    BY <2>4 DEF Has, ItemsOf, Scalar
  <2>6. kind = "ord" => 1 .. Items \subseteq data[kind]
    BY <2>4 DEF Has, ItemsOf, Scalar
  <2>7. Scalar(kind) => data[kind] = number
    BY <2>4 DEF Has, ItemsOf
  <2> QED
    BY <2>5, <2>6, <2>7 DEF Right, Scalar
<1>2. Inv => AnswerIsRight
  BY <1>1, QueryReplyAssumption DEF AnswerIsRight
<1> QED
  BY <1>2, Invariance, QueryReplyAssumption, PTL
=============================================================================
