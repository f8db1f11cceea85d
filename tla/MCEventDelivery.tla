-------------------------- MODULE MCEventDelivery --------------------------
(***************************************************************************)
(* A small instance of EventDelivery for TLC: an order with two partial    *)
(* refunds, one of them written before the payment's event and one after,  *)
(* and a notification.                                                     *)
(***************************************************************************)
EXTENDS EventDelivery

Kinds4 == <<"refunded", "paid", "refunded", "notice">>
Orders4 == <<1, 1, 1, 2>>
=============================================================================
