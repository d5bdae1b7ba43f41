--------------------------- MODULE MCWhatsappSend ---------------------------
(***************************************************************************)
(* Finite instances of WhatsappSend for TLC: one message to a customer     *)
(* with two conversations, of any kind, and two numbers of the tenant; two *)
(* messages, one a follow-up, to a customer with one.                      *)
(***************************************************************************)
EXTENDS WhatsappSend, TLC

CONSTANTS j1, j2, c1, c2, u1

SoleRow == c1 :> u1
OneCustomer == c1 :> u1 @@ c2 :> u1

OneConv == j1 :> c1
AllKinds == j1 :> Kinds
OnePreferred == j1 :> 2
OnlyFirst == j1 :> 1

TwoConv == j1 :> c1 @@ j2 :> c1
TwoKinds == j1 :> {"text"} @@ j2 :> {"followUp"}
TwoPreferred == j1 :> 1 @@ j2 :> 1
=============================================================================
