----------------------------- MODULE MCConnection -----------------------------
(***************************************************************************)
(* Small instances of Connection: one message with a body and one without, *)
(* so that a body can go stale, and few sends from each end.               *)
(***************************************************************************)
EXTENDS Connection, TLC

Text  == [id |-> 1, body |-> <<"a">>]
Ping  == [id |-> 2, body |-> <<>>]

TwoMessages == {Text, Ping}

TwoFromClient == "client" :> 2 @@ "server" :> 0
TwoFromServer == "client" :> 1 @@ "server" :> 2
==============================================================================
