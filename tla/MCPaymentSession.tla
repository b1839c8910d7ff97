--------------------------- MODULE MCPaymentSession ---------------------------
(* Instances of PaymentSession small enough for TLC. *)
EXTENDS PaymentSession, TLC

\* Which node of the batch comes first does not matter.
Symmetric == Permutations(Nodes)
=============================================================================
