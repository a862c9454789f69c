--------------------------------- MODULE Pipe ---------------------------------
(***************************************************************************)
(* What one direction of a network::Connection promises: messages come out *)
(* in the order they went in, none twice, none invented, none skipped; only *)
(* a tail of them may never come out.                                      *)
(*                                                                         *)
(* The body is the sender's unless that one is empty: an empty message is  *)
(* delivered with the body of the message before it (Delivery).            *)
(***************************************************************************)
EXTENDS Integers, Sequences

CONSTANT Messages   \* records [id, body]; a body is a sequence

VARIABLES
  sent,      \* the messages given to send(), oldest first
  received   \* what the other side's m_messagesIn was given

vars == <<sent, received>>

Init ==
  /\ sent = <<>>
  /\ received = <<>>

Send ==
  /\ \E m \in Messages : sent' = Append(sent, m)
  /\ UNCHANGED received

\* What message m becomes when it is delivered after the messages before.
Delivery(m, before) ==
  [id   |-> m.id,
   size |-> Len(m.body),
   body |-> IF m.body = <<>> /\ before # <<>> THEN before[Len(before)].body ELSE m.body]

Deliver ==
  /\ Len(received) < Len(sent)
  /\ received' = Append(received, Delivery(sent[Len(received) + 1], received))
  /\ UNCHANGED sent

Next == Send \/ Deliver

Spec == Init /\ [][Next]_vars
==============================================================================
