----------------------------- MODULE MCDelivery -----------------------------
(***************************************************************************)
(* Instances of NotificationDelivery for TLC: one portfolio, every alert   *)
(* critical enough for Telegram.                                           *)
(***************************************************************************)
EXTENDS NotificationDelivery

CONSTANTS p1

MCPortfolios == {p1}

MCPortfolioOf == [a \in Alerts |-> p1]
=============================================================================
