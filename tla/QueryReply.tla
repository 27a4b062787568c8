----------------------------- MODULE QueryReply -----------------------------
(***************************************************************************)
(* The queries of IBAPI: the program's thread clears what the answer will  *)
(* be stored in and a flag, sends the request, polls the flag and gives up *)
(* after a while, then reads what is stored.  The reader thread stores the *)
(* answer in the callbacks of MyEWrapper, without a lock, and sets the     *)
(* flag when the answer is complete.  An answer may come after its query   *)
(* has given up, when the next one is waiting.                             *)
(*                                                                         *)
(* Source: queryXxx in IBAPI.cpp, myEWrapper.cpp.  A step of the program   *)
(* is one statement that reads or writes what the threads share.           *)
(***************************************************************************)
EXTENDS Integers, Sequences, SequencesExt

CONSTANTS Asked,      \* the queries the program makes
          Items,      \* positions, and open orders, in an answer
          MaxQueries, \* bound: queries of which something is under way
          MaxComing   \* bound: orders report something only below this backlog

Details  == {"minTick", "priExch"}                   \* from contractDetails
Accounts == {"cash", "buyingPower", "netLiquidation"} \* from accountSummary
Kinds    == Details \cup Accounts \cup {"pos", "ord"}

ASSUME QueryReplyAssumption ==
  /\ Asked \subseteq Kinds
  /\ Items \in Nat \ {0} /\ MaxQueries \in Nat \ {0} /\ MaxComing \in Nat

\* The flag that says the answer is complete: queries share them.
Flag(k) ==
  CASE k \in Details  -> "b_ctrDetail"
    [] k \in Accounts -> "b_accSummary"
    [] k = "pos"      -> "b_posReady"
    [] k = "ord"      -> "b_openOrdReady"

Flags == {Flag(k) : k \in Kinds}

VARIABLES
  kind,     \* the query being executed, or "none"
  pc,       \* the step of it that comes next
  number,   \* its number
  timedOut, \* it has given up
  flag,     \* b_ctrDetail, ..
  data,     \* minTick, .., allPos and combOpenOrd: see Cleared and Stored
  asked,    \* requests TWS has not handled
  coming,   \* callbacks under way to the reader
  clean,    \* nothing with its flag was under way when the query began
  answered  \* its answer was complete

program == <<kind, pc, number, timedOut>>
vars == <<program, flag, data, asked, coming, clean, answered>>

\* Mutant: the request is sent before the flag is cleared.
StepsAskFirst(k) ==
  CASE k \in Accounts -> <<"ask", "unflag", "wait", "cancel", "read">>
    [] k = "pos"       -> <<"clear", "ask", "unflag", "wait", "cancel", "read">>
    [] OTHER           -> <<"clear", "ask", "unflag", "wait", "read">>

\* The statements of a query, in their order.  The account values are not
\* cleared; the subscriptions are cancelled.
Steps(k) ==
  CASE k \in Accounts -> <<"unflag", "ask", "wait", "cancel", "read">>
    [] k = "pos"       -> <<"clear", "unflag", "ask", "wait", "cancel", "read">>
    [] OTHER           -> <<"clear", "unflag", "ask", "wait", "read">>

At(step) == kind # "none" /\ Steps(kind)[pc] = step

\* What an answer is stored in: the number of the query that was answered (0 is
\* the initial value and any value of before the query), a list of positions, or
\* the orders in a map.
Cleared(k) == CASE k = "pos" -> <<>> [] k = "ord" -> {} [] OTHER -> 0

Scalar(k) == k \notin {"pos", "ord"}

TypeOK ==
  /\ kind \in Kinds \cup {"none"}
  /\ kind # "none" => pc \in 1 .. Len(Steps(kind)) /\ number \in 1 .. MaxQueries
  /\ timedOut \in BOOLEAN /\ clean \in BOOLEAN /\ answered \in BOOLEAN
  /\ flag \in [Flags -> BOOLEAN]
  /\ DOMAIN data = Kinds
  /\ \A k \in Kinds : Scalar(k) => data[k] \in 0 .. MaxQueries
  /\ data["pos"] \in Seq(1 .. Items) /\ data["ord"] \subseteq 1 .. Items
  /\ asked \in Seq([call : Kinds, n : 1 .. MaxQueries])
  /\ coming \in Seq([call : Kinds, n : 0 .. MaxQueries, item : 0 .. Items])

Init ==
  /\ kind = "none" /\ pc = 1 /\ number = 1 /\ timedOut = FALSE
  /\ flag = [f \in Flags |-> FALSE]
  /\ data = [k \in Kinds |-> Cleared(k)]
  /\ asked = <<>> /\ coming = <<>>
  /\ clean = TRUE /\ answered = FALSE

-----------------------------------------------------------------------------
(* The program's thread.                                                   *)

UnderWay == ToSet(asked) \cup ToSet(coming)

\* Numbers that nothing under way has.
Free == {n \in 1 .. MaxQueries : \A m \in UnderWay : m.n # n}

Begin ==
  /\ kind = "none" /\ Free # {}
  /\ kind' \in Asked
  /\ pc' = 1 /\ timedOut' = FALSE /\ answered' = FALSE
  /\ number' = CHOOSE n \in Free : TRUE
  /\ clean' = \A m \in UnderWay : m.n # 0 => Flag(m.call) # Flag(kind')
  /\ data' = [k \in Kinds |-> IF Scalar(k) THEN 0 ELSE data[k]]
  /\ UNCHANGED <<flag, asked, coming>>

Advance ==
  /\ pc' = pc + 1
  /\ UNCHANGED <<kind, number, timedOut, coming, clean, answered>>

\* EW.minTick = 0, EW.allPos.clear(), ..
Clear ==
  /\ At("clear")
  /\ data' = [data EXCEPT ![kind] = Cleared(kind)]
  /\ Advance
  /\ UNCHANGED <<flag, asked>>

\* Mutant: the flag keeps its value.
UnflagNothing == At("unflag") /\ Advance /\ UNCHANGED <<flag, data, asked>>

Unflag ==
  /\ At("unflag")
  /\ flag' = [flag EXCEPT ![Flag(kind)] = FALSE]
  /\ Advance
  /\ UNCHANGED <<data, asked>>

Ask ==
  /\ At("ask")
  /\ asked' = Append(asked, [call |-> kind, n |-> number])
  /\ Advance
  /\ UNCHANGED <<flag, data>>

\* A poll of the flag ends the loop.
Ready ==
  /\ At("wait") /\ flag[Flag(kind)]
  /\ Advance
  /\ UNCHANGED <<flag, data, asked>>

\* Mutant: the loop has no end.
TimeOutNever == FALSE /\ UNCHANGED vars

\* The last poll of the flag has failed too.
TimeOut ==
  /\ At("wait") /\ ~flag[Flag(kind)]
  /\ timedOut' = TRUE
  /\ pc' = pc + 1
  /\ UNCHANGED <<kind, number, flag, data, asked, coming, clean, answered>>

\* cancelPositions, cancelAccountSummary: TWS has nothing to say to them.
Cancel ==
  /\ At("cancel")
  /\ Advance
  /\ UNCHANGED <<flag, data, asked>>

\* Mutant: the query goes on behind its end.
ReadOn == At("read") /\ Advance /\ UNCHANGED <<flag, data, asked>>

\* The query returns data[kind].
Read ==
  /\ At("read")
  /\ kind' = "none" /\ pc' = 1 /\ number' = 1 /\ timedOut' = FALSE
  /\ clean' = TRUE /\ answered' = FALSE
  /\ UNCHANGED <<flag, data, asked, coming>>

Program ==
  Clear \/ Unflag \/ Ask \/ Ready \/ TimeOut \/ Cancel \/ Read

-----------------------------------------------------------------------------
(* TWS and the reader thread.                                              *)

ItemsOf(k) == IF Scalar(k) THEN 1 ELSE Items

\* The callbacks of an answer, ended by contractDetailsEnd, positionEnd, ..
Answer(k, n) ==
  [i \in 1 .. ItemsOf(k) + 1 |->
     [call |-> k, n |-> n, item |-> IF i <= ItemsOf(k) THEN i ELSE 0]]

\* TWS handles a request; it may report an error and no answer.
TwsAnswer ==
  /\ asked # <<>>
  /\ asked' = Tail(asked)
  /\ \/ coming' = coming \o Answer(Head(asked).call, Head(asked).n)
     \/ UNCHANGED coming
  /\ UNCHANGED <<program, flag, data, clean, answered>>

\* An order that nobody asked for is reported: openOrder, orderStatus.
TwsOrderEvent ==
  /\ "ord" \in Asked /\ Len(coming) < MaxComing
  /\ \E i \in 1 .. Items : coming' = Append(coming, [call |-> "ord", n |-> 0, item |-> i])
  /\ UNCHANGED <<program, flag, data, asked, clean, answered>>

\* data with an item of an answer; contractDetails stores for both its queries.
Stored(m) ==
  [k \in Kinds |->
     CASE m.call \in Details /\ k \in Details -> m.n
       [] m.call = k /\ k = "pos"             -> Append(data[k], m.item)
       [] m.call = k /\ k = "ord"             -> data[k] \cup {m.item}
       [] m.call = k /\ k \in Accounts        -> m.n
       [] OTHER                               -> data[k]]

\* contractDetails, position, openOrder, orderStatus, accountSummary.
StoreItem ==
  /\ coming # <<>> /\ Head(coming).item # 0
  /\ data' = Stored(Head(coming))
  /\ coming' = Tail(coming)
  /\ UNCHANGED <<program, flag, asked, clean, answered>>

\* contractDetailsEnd, positionEnd, openOrderEnd, accountSummaryEnd: whichever
\* request they end, the flag is set.
EndAnswer ==
  /\ coming # <<>> /\ Head(coming).item = 0
  /\ flag' = [flag EXCEPT ![Flag(Head(coming).call)] = TRUE]
  /\ answered' = (answered \/ (kind # "none" /\ Head(coming).n = number))
  /\ coming' = Tail(coming)
  /\ UNCHANGED <<program, data, asked, clean>>

Next == Begin \/ Program \/ TwsAnswer \/ TwsOrderEvent \/ StoreItem \/ EndAnswer

Spec == Init /\ [][Next]_vars

\* The program runs on; TWS and the reader may stop.
FairSpec == Spec /\ WF_vars(Program)

-----------------------------------------------------------------------------
(* Properties.                                                             *)

\* What is stored is the whole answer to this query and no other.
Right ==
  CASE kind = "pos" -> data[kind] = [i \in 1 .. Items |-> i]
    [] kind = "ord" -> 1 .. Items \subseteq data[kind]
    [] OTHER        -> data[kind] = number

\* A query that finds its flag set returns the whole answer to what it asked, and
\* nothing else, if no answer of an earlier query with that flag was still under
\* way when it began: the queries share their flags and results.
AnswerIsRight == At("read") /\ ~timedOut /\ clean => Right

\* An answer that is complete while the query waits is seen by it, however soon
\* it comes after the request: the flag is cleared before that.
AnswerIsNotLost == At("wait") /\ answered => flag[Flag(kind)]

\* Every query returns, whether or not TWS answers.
QueryReturns == kind # "none" ~> kind = "none"
==============================================================================
