--------------------------- MODULE MCPaymentSettle ---------------------------
(***************************************************************************)
(* Payments over one challenge store: one authorization presented under    *)
(* two nonces, or two authorizations of one payer under one nonce.         *)
(***************************************************************************)
EXTENDS PaymentSettle

CONSTANTS n1, n2, a1, a2, w1, w2

MCClients == {{<<n1, a1>>, <<n2, a1>>}, {<<n1, a1>>, <<n1, a2>>}}
=============================================================================
