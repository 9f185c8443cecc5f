------------------------------ MODULE BybitRest ------------------------------
(* Requests, responses and readers of bybit_api, and the service behind them. *)
EXTENDS RestTypes

Named(pair) == Name(pair, "")

-----------------------------------------------------------------------------
(* Requests. *)

\* A market buy is sent as the cost at the price that was asked for first.
AsksPrice(order) == order.type = "MARKET" /\ order.action = "BUY"
get_order_quantity(order, price) ==
  IF AsksPrice(order) THEN Cost(price, Get(order, "VOLUME")) ELSE Get(order, "VOLUME")

\* Every other type becomes a limit order at ASSET_PRICE.
to_type_string(type) == IF type = "MARKET" THEN "MARKET" ELSE "LIMIT"
to_side_string(action) == IF action = "BUY" THEN "Buy" ELSE "Sell"

Spot(name) == <<"spot", "v1", name>>
Quote(name) == <<"spot", "quote", "v1", name>>

\* The parameters of a POST travel in its content, those of other verbs in the URL.
Private(verb, name, params) ==
  IF verb = "POST" THEN Http(verb, Spot(name), None, params, params)
                   ELSE Http(verb, Spot(name), params, None, params)

Ask(c, price) ==
  CASE c.op = "get_status" -> PublicGet(Spot("time"), None)
    [] c.op = "get_tradable_pairs" -> PublicGet(Spot("symbols"), None)
    [] c.op = "get_ohlcv" ->
         PublicGet(Quote("kline"), [symbol |-> Named(c.pair), interval |-> c.interval,
                                    limit |-> Text(c.count)])
    [] c.op = "get_price" -> PublicGet(Quote("ticker"), [symbol |-> Named(c.pair)])
    [] c.op = "get_order_book" ->
         PublicGet(Quote("depth"), [symbol |-> Named(c.pair), limit |-> Text(c.depth)])
    [] c.op = "get_balances" -> Private("GET", "account", None)
    [] c.op = "get_open_orders" -> Private("GET", "open-orders", None)
    [] c.op = "get_closed_orders" -> Private("GET", "history-orders", None)
    [] c.op = "add_order" ->
         Private("POST", "order",
                 [symbol |-> Named(c.order.pair), qty |-> Text(get_order_quantity(c.order, price)),
                  side |-> to_side_string(c.order.action), type |-> to_type_string(c.order.type),
                  price |-> Text(Get(c.order, "ASSET_PRICE"))])
    [] c.op = "add_order_confirm" -> Throws("not_implemented")
    [] c.op = "cancel_order" -> Private("DELETE", "order", [orderId |-> c.id])

-----------------------------------------------------------------------------
(* Readers. *)

to_trade_action(side) == IF side = "BUY" THEN "BUY" ELSE "SELL"

read_order_book_entry(e, side) == Entry(Stod(e[1]), Stod(e[2]), side)

\* The quantity of a market buy is a cost.
read_order_description(o) ==
  LET action == to_trade_action(o.side)
      price == Stod(o.price)
      qty == Stod(o.origQty)
  IN  Description(Stod(o.time) \div 1000, o.orderId,
                  IF o.type = "LIMIT" THEN "LIMIT" ELSE "MARKET", o.symbol, action, price,
                  IF action = "BUY" /\ o.type = "MARKET" THEN Volume(price, qty) ELSE qty)

read_tradable_pairs(result) ==
  {[asset |-> s.baseCurrency, price_unit |-> s.quoteCurrency] : s \in ToSet(result)}

read_ohlcv(result) ==
  Reverse(Each(result, LAMBDA k : Candle(k[1] \div 1000, Stod(k[2]), Stod(k[3]), Stod(k[4]),
                                         Stod(k[5]), Stod(k[6]))))

read_price(result) == Stod(result.price)

read_order_book(result) ==
  Book(result.time \div 1000, Each(result.asks, LAMBDA e : read_order_book_entry(e, "ASK")),
                              Each(result.bids, LAMBDA e : read_order_book_entry(e, "BID")))

read_balances(result) == ByKey(result.balances, LAMBDA b : b.coin, LAMBDA b : Stod(b.free))

read_open_orders(result) == Each(result, read_order_description)

read_closed_orders(result) ==
  Each(Among(result, {o \in ToSet(result) : o.status = "FILLED"}), read_order_description)

Read(c, json) ==
  IF json.ret_code # 0 THEN Fail
  ELSE Success(
    CASE c.op = "get_status" -> "ONLINE"
      [] c.op = "get_tradable_pairs" -> read_tradable_pairs(json.result)
      [] c.op = "get_ohlcv" -> read_ohlcv(json.result)
      [] c.op = "get_price" -> read_price(json.result)
      [] c.op = "get_order_book" -> read_order_book(json.result)
      [] c.op = "get_balances" -> read_balances(json.result)
      [] c.op = "get_open_orders" -> read_open_orders(json.result)
      [] c.op = "get_closed_orders" -> read_closed_orders(json.result)
      [] c.op = "add_order" -> json.result.orderId
      [] c.op = "cancel_order" -> "void")

-----------------------------------------------------------------------------
(* The service. *)

Error == [ret_code |-> 1, ret_msg |-> "refused"]

\* A market buy spends the cost at the price of its arrival.
OrderIn(m, q) ==
  LET pair == PairNamed(q.symbol, "")
      action == IF q.side = "Buy" THEN "BUY" ELSE "SELL"
      qty == Stod(q.qty)
  IN  IF q.type = "MARKET"
      THEN AtMarket(m, pair, action, IF action = "BUY" THEN Volume(m.price[pair], qty) ELSE qty)
      ELSE Order(q.type, pair, action, Stod(q.price), qty, 0, 0)

OrderJson(o) ==
  [time |-> Text(Millis(o.time)), orderId |-> Text(o.id), symbol |-> Named(o.pair), side |-> o.action,
   type |-> o.type, price |-> Text(o.price),
   origQty |-> Text(IF o.type = "MARKET" /\ o.action = "BUY" THEN Cost(o.price, o.volume) ELSE o.volume),
   status |-> CASE o.state = "open" -> "NEW" [] o.state = "closed" -> "FILLED" [] OTHER -> "CANCELED"]

Refuses(m, r) ==
  \/ r.path[2] = "v1" /\ r.path \notin {Spot("time"), Spot("symbols")} /\ r.sign \notin {r.query, r.content}
  \/ \E params \in {r.query, r.content} :
       "symbol" \in DOMAIN params /\ ~ IsName(params.symbol, "")
  \/ r.verb = "DELETE" /\ ~ IsOpen(m, r.query.orderId)

Effect(m, r) ==
  CASE r.verb = "POST" -> Enter(m, OrderIn(m, r.content))
    [] r.verb = "DELETE" -> Cancel(m, r.query.orderId)
    [] OTHER -> m

Result(m, r) ==
  LET q == r.query
      Levels(levels) == Each(First(levels, Stod(q.limit)), LAMBDA e : <<Text(e.price), Text(e.volume)>>)
  IN
  CASE r.verb = "POST" -> [orderId |-> Text(NextId(m))]
    [] r.verb = "DELETE" -> [orderId |-> q.orderId]
    [] r.path = Spot("time") -> [serverTime |-> Millis(m.time)]
    [] r.path = Spot("symbols") ->
         Each(SetToSeq(Pairs), LAMBDA p : [baseCurrency |-> p.asset, quoteCurrency |-> p.price_unit])
    [] r.path = Spot("account") ->
         [balances |-> Each(SetToSeq(DOMAIN m.balances), LAMBDA a :
                              [coin |-> a, free |-> Text(m.balances[a])])]
    [] r.path = Spot("open-orders") -> Each(InState(m, {"open"}), OrderJson)
    [] r.path = Spot("history-orders") -> Each(InState(m, {"closed", "cancelled"}), OrderJson)
    [] r.path = Quote("kline") ->
         Reverse(Newest(Each(m.candles[PairNamed(q.symbol, "")][q.interval], LAMBDA k :
            <<Millis(k.time), Text(k.open), Text(k.high), Text(k.low), Text(k.close), Text(k.volume)>>),
            Stod(q.limit)))
    [] r.path = Quote("ticker") -> [price |-> Text(m.price[PairNamed(q.symbol, "")])]
    [] r.path = Quote("depth") ->
         LET book == m.book[PairNamed(q.symbol, "")]
         IN  [time |-> Millis(book.stamp), asks |-> Levels(book.asks), bids |-> Levels(book.bids)]

Body(m, r) == [ret_code |-> 0, result |-> Result(m, r)]
=============================================================================
