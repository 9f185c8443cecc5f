--------------------------- MODULE MCPaperTrading ---------------------------
(* Small accounts for TLC. *)
EXTENDS PaperTrading

BtcGbp == <<"BTC", "GBP">>
EthBtc == <<"ETH", "BTC">>

OnePair == {BtcGbp}
TwoPairs == {BtcGbp, EthBtc}

Order(type, pair, action, volume, level) ==
  [type |-> type, pair |-> pair, action |-> action, volume |-> volume, level |-> level]

\* Every order type in both directions on one pair.  A trailing delta of 1 over
\* DeltaDen = 2 is 50%; a delta of 0 triggers at the price it starts from.
AllTypes ==
  {Order("MARKET", BtcGbp, a, 2, 0) : a \in Actions}
  \cup {Order("LIMIT", BtcGbp, "BUY", 2, 2), Order("LIMIT", BtcGbp, "SELL", 1, 3)}
  \cup {Order("STOP_LOSS", BtcGbp, "BUY", 1, 3), Order("STOP_LOSS", BtcGbp, "SELL", 2, 1)}
  \cup {Order("TRAILING_STOP_LOSS", BtcGbp, a, 1, 1) : a \in Actions}
  \cup {Order("TRAILING_STOP_LOSS", BtcGbp, "SELL", 2, 0)}

\* The bitcoin bought on one pair pays for the ether bought on the other.
Chained ==
  {Order("LIMIT", BtcGbp, "BUY", 1, 1), Order("LIMIT", BtcGbp, "BUY", 2, 2),
   Order("MARKET", EthBtc, "BUY", 1, 0), Order("STOP_LOSS", EthBtc, "SELL", 1, 1)}

Funds == [a \in {"GBP", "BTC"} |-> IF a = "GBP" THEN 7 ELSE 3]
GbpOnly == [a \in {"GBP"} |-> 7]
=============================================================================
