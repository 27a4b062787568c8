---------------------------- MODULE RequestStream ----------------------------
(***************************************************************************)
(* What EClientL0 promises about the bytes TWS reads on one connection:    *)
(* the client version first, then the client id (or START_API), then the   *)
(* requests and the heartbeats in the order of the calls, every byte once. *)
(* Nothing is said of sockets, partial sends or errno: `due` is the text   *)
(* that TWS has still to read, wherever it waits.                          *)
(*                                                                         *)
(* The one weakness of the code is part of the promise: a connection may   *)
(* begin with a message left over from the previous one.                   *)
(***************************************************************************)
EXTENDS Integers, Sequences

CONSTANTS Version,    \* what onConnectBase sends
          Hello,      \* what processConnectAck sends
          Heartbeat,  \* the '\0' byte
          Requests    \* what the EClient calls send

VARIABLES stage,      \* "closed", "greeting" (no answer of TWS yet) or "ready"
          due         \* the bytes TWS has still to read on this connection

Messages  == {Hello, Heartbeat} \cup Requests
Leftovers == {<<>>} \cup Messages

Init == stage = "closed" /\ due = <<>>

Open(leftover) ==
  /\ stage = "closed"
  /\ stage' = "greeting"
  /\ due' = leftover \o Version

Greet ==
  /\ stage = "greeting"
  /\ stage' = "ready"
  /\ due' = due \o Hello

Submit(m) ==
  /\ stage = "ready"
  /\ due' = due \o m
  /\ UNCHANGED stage

Receive(n) ==
  /\ stage # "closed"
  /\ due' = SubSeq(due, n + 1, Len(due))
  /\ UNCHANGED stage

Close ==
  /\ stage # "closed"
  /\ stage' = "closed"
  /\ due' = <<>>

Next ==
  \/ \E leftover \in Leftovers : Open(leftover)
  \/ Greet
  \/ \E m \in {Heartbeat} \cup Requests : Submit(m)
  \/ \E n \in 1 .. Len(due) : Receive(n)
  \/ Close

Spec == Init /\ [][Next]_<<stage, due>>
==============================================================================
