------------------------------ MODULE MCStreams ------------------------------
(* A small market for TLC. *)
EXTENDS StreamMessages

Btc == [asset |-> "BTC", price_unit |-> "USD"]
Eth == [asset |-> "ETH", price_unit |-> "BTC"]
TwoPairs == {Btc, Eth}
=============================================================================
