----------------------------- MODULE MCBackTest -----------------------------
(* Small back tests for TLC. *)
EXTENDS BackTest

BtcGbp == <<"BTC", "GBP">>
EthBtc == <<"ETH", "BTC">>
BothPairs == {BtcGbp, EthBtc}

\* A candle at each time from 1 to 5; its values depend on the time so that no
\* two are alike.  Opens go 2 1 3 2 1 3.
CandleAt(t) == LET o == 1 + ((2 * t - 1) % 3)
               IN  [time |-> t, open |-> o, high |-> 3 + (t % 2), low |-> (t \div 2) % 3,
                    close |-> 1 + (t % 3), volume |-> t]

Candles(times) == LET RowsUpTo[n \in 0 .. 6] ==
                        IF n = 0 THEN <<>>
                        ELSE IF n \in times THEN Append(RowsUpTo[n - 1], CandleAt(n))
                        ELSE RowsUpTo[n - 1]
                  IN  RowsUpTo[6]

\* Any rows for one pair; the other's data begins late and ends early.
AnyFiles == {[p \in BothPairs |-> IF p = BtcGbp THEN Candles(times) ELSE Candles({3})] :
               times \in SUBSET (1 .. 5)}

Orders ==
  {[type |-> "LIMIT", pair |-> BtcGbp, action |-> "BUY", volume |-> 1, level |-> 1],
   [type |-> "TRAILING_STOP_LOSS", pair |-> EthBtc, action |-> "SELL", volume |-> 1,
    level |-> 1]}

GbpAndEth == [a \in {"GBP", "ETH"} |-> 1]

OtherChannels == {<<"ORDER_BOOK", EthBtc>>, <<"TRADE", EthBtc>>}
=============================================================================
