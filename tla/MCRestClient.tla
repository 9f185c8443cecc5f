---------------------------- MODULE MCRestClient ----------------------------
(* A small exchange for TLC: two pairs, the first under an old name at Kraken, *)
(* two intervals, books with fewer bids than asks and the other way round.     *)
EXTENDS RestClient

Pair(asset, unit) == [asset |-> asset, price_unit |-> unit]
Btc == Pair("BTC", "USD")
Eth == Pair("ETH", "BTC")
TwoPairs == {Btc, Eth}
OnlyBtc == {Btc}

\* Tick and step in ten-thousandths: 0.05 BTC/USD, a size of 0.01; 0.0001, 0.0001.
TwoFilters == [p \in TwoPairs |-> IF p = Btc THEN [price |-> 500, quantity |-> 100]
                                             ELSE [price |-> 1, quantity |-> 1]]

Level(price, volume, time) == [price |-> price, volume |-> volume, time |-> time]
History(n) == <<Candle(n, 3, 9, 2, 5, 7), Candle(n + 60, 5, 8, 4, 6, 11), Candle(n + 120, 6, 12, 1, 10, 13)>>

OldOrder(id, pair, type, action, price, volume, state) ==
  [Order(type, pair, action, price, volume, 0, 0) EXCEPT !.id = id, !.time = 40 + id, !.state = state]

Exchange ==
  [status |-> "POST_ONLY", time |-> 90, fee |-> 12,
   price |-> [p \in TwoPairs |-> IF p = Btc THEN 20000 ELSE 700],
   candles |-> [p \in TwoPairs |-> [i \in {"1m", "1d"} |->
                  History((IF p = Btc THEN 60 ELSE 600) + (IF i = "1m" THEN 0 ELSE 7))]],
   book |-> [p \in TwoPairs |->
     IF p = Btc
     THEN [stamp |-> 77, asks |-> <<Level(21, 3, 70), Level(22, 4, 72)>>, bids |-> <<Level(19, 5, 71)>>]
     ELSE [stamp |-> 88, asks |-> <<Level(8, 1, 70)>>, bids |-> <<Level(6, 2, 73), Level(5, 9, 71)>>]],
   balances |-> [a \in {"BTC", "USD"} |-> IF a = "BTC" THEN 4 ELSE 9],
   orders |-> <<OldOrder(1, Btc, "LIMIT", "SELL", 23, 2, "open"),
                OldOrder(2, Eth, "LIMIT", "BUY", 5, 3, "cancelled"),
                OldOrder(3, Btc, "MARKET", "BUY", 20, 4, "closed")>>]

TwoPrices == {20000, 30000}

OrderCalls ==
  {[op |-> "add_order", order |-> o] :
     o \in {LimitOrder(Btc, "BUY", 10500, 1200), MarketOrder(Btc, "BUY", 1000),
            MarketOrder(Btc, "SELL", 1000), StopLossOrder(Btc, "SELL", 9000, 1300, 8000),
            StopLossOrder(Eth, "SELL", 691, 1303, 683), LimitOrder(Eth, "SELL", 697, 1207),
            TrailingStopLossOrder(Btc, "SELL", 3, 1000, 8000),
            OrderRequest("TAKE_PROFIT", Btc, "SELL", [VOLUME |-> 1000, ASSET_PRICE |-> 30000])}}
  \cup {[op |-> "add_order_confirm", order |-> o] :
          o \in {LimitOrder(Btc, "BUY", 10500, 1200), MarketOrder(Btc, "SELL", 1000)}}

AllCalls ==
  {[op |-> op] : op \in {"get_status", "get_tradable_pairs", "get_balances", "get_open_orders",
                         "get_closed_orders"}}
  \cup {[op |-> "get_ohlcv", pair |-> Btc, interval |-> i, count |-> IF i = "1m" THEN 2 ELSE 4] :
          i \in {"1m", "1d"}}
  \cup {[op |-> op, pair |-> Btc] : op \in {"get_price", "get_fee"}}
  \cup {[op |-> "get_prices", pairs |-> P] : P \in {{Eth}, TwoPairs}}
  \cup {[op |-> "get_order_book", pair |-> p, depth |-> d] : p \in TwoPairs, d \in {1, 2}}
  \cup {[op |-> "get_order_books", pairs |-> TwoPairs, depth |-> 1]}
  \cup {[op |-> "cancel_order", id |-> Text(n)] : n \in {1, 3, 4}}
  \cup OrderCalls
=============================================================================
