----------------------------- MODULE BinanceRest -----------------------------
(* Requests, responses and readers of binance_api, and the service behind them. *)
EXTENDS RestTypes

Named(pair) == Name(pair, "")

-----------------------------------------------------------------------------
(* Orders. *)

is_limit_order(type) == type \in {"LIMIT", "STOP_LOSS", "TRAILING_STOP_LOSS"}

to_order_type_str(type) ==
  IF type \in {"STOP_LOSS", "TRAILING_STOP_LOSS"} THEN "STOP_LOSS_LIMIT" ELSE type

\* Prices and volumes are printed with as many decimals as the filter allows.
Rounded(n, grid) == ((n + grid \div 2) \div grid) * grid

\* What the step of a filter leaves of it: int(-log10(step)) decimals.
GridOf(step) == CHOOSE g \in {1, 10, 100, 1000} :
                  g >= step /\ \A h \in {1, 10, 100, 1000} : h >= step => g <= h

FilterOf(pair) == [price |-> GridOf(Filters[pair].price), quantity |-> GridOf(Filters[pair].quantity)]
DefaultFilter == [price |-> 100, quantity |-> 1]

\* Fault: a stop loss is sent without its stop price.
create_order_query_without_stop(order, filter) ==
  [symbol |-> Named(order.pair), side |-> order.action, type |-> to_order_type_str(order.type),
   quantity |-> Text(Rounded(Get(order, "VOLUME"), filter.quantity)),
   price |-> Text(Rounded(Get(order, "ASSET_PRICE"), filter.price)), timeInForce |-> "GTC"]

create_order_query(order, filter) ==
  LET Price(parameter) == Text(Rounded(Get(order, parameter), filter.price))
      given == {"symbol", "side", "type", "quantity"}
               \cup (IF is_limit_order(order.type) THEN {"price", "timeInForce"} ELSE {})
               \cup (IF order.type = "STOP_LOSS" THEN {"stopPrice"} ELSE {})
               \cup (IF order.type = "TRAILING_STOP_LOSS" THEN {"trailingDelta"} ELSE {})
  IN  Restrict([symbol |-> Named(order.pair), side |-> order.action,
                type |-> to_order_type_str(order.type),
                quantity |-> Text(Rounded(Get(order, "VOLUME"), filter.quantity)),
                price |-> Price("ASSET_PRICE"), timeInForce |-> "GTC",
                stopPrice |-> Price("STOP_PRICE"),
                trailingDelta |-> Text(Get(order, "TRAILING_DELTA") * 10000)], given)

-----------------------------------------------------------------------------
(* Requests: the HTTP request of a call.  cancel_order has read the open     *)
(* orders for the name of the pair; `filter' is the pair's order filter.     *)

Api(name) == <<"api", "v3", name>>
Private(verb, name, query) == Http(verb, Api(name), query, None, query)

Ask(c, name, filter) ==
  CASE c.op = "get_status" -> PublicGet(Api("time"), None)
    [] c.op = "get_tradable_pairs" -> PublicGet(Api("exchangeInfo"), None)
    [] c.op = "get_ohlcv" ->
         PublicGet(Api("klines"), [symbol |-> Named(c.pair), interval |-> c.interval,
                                   limit |-> Text(c.count)])
    [] c.op = "get_price" -> PublicGet(Api("ticker"), [symbol |-> Named(c.pair)])
    [] c.op = "get_prices" -> PublicGet(Api("ticker"), [symbols |-> {Named(p) : p \in c.pairs}])
    [] c.op = "get_order_book" ->
         PublicGet(Api("depth"), [symbol |-> Named(c.pair), limit |-> Text(c.depth)])
    [] c.op \in {"get_fee", "get_balances"} -> Private("GET", "account", None)
    [] c.op = "get_open_orders" -> Private("GET", "openOrders", None)
    [] c.op = "get_closed_orders" -> Throws("not_implemented")
    [] c.op \in {"add_order", "add_order_confirm"} ->
         IF c.order.type = "TAKE_PROFIT" THEN Throws("mb_exception")
         ELSE Private("POST", "order", create_order_query(c.order, filter))
    [] c.op = "cancel_order" ->
         Private("DELETE", "order", [symbol |-> name, orderId |-> c.id])

-----------------------------------------------------------------------------
(* Readers. *)

read_order_book_entry(e, side) == Entry(Stod(e[1]), Stod(e[2]), side)

read_order_description(o) ==
  Description(o.time \div 1000, Text(o.orderId),
              IF o.type = "STOP_LOSS_LIMIT" THEN "STOP_LOSS" ELSE o.type,
              o.symbol, o.side, Stod(o.price), Stod(o.origQty))

read_tradable_pairs(json) ==
  LET Pair(s) == [asset |-> s.baseAsset, price_unit |-> s.quoteAsset]
      Filter(s) == [price |-> GridOf(Stod(s.filters.PRICE_FILTER)),
                    quantity |-> GridOf(Stod(s.filters.LOT_SIZE))]
  IN  ByKey(json.symbols, Pair, Filter)

read_ohlcv(json) ==
  Reverse(Each(json.array, LAMBDA k : Candle(k[1] \div 1000, Stod(k[2]), Stod(k[3]), Stod(k[4]),
                                             Stod(k[5]), Stod(k[6]))))

read_price(json) == Stod(json.price)

read_prices(json) == ByKey(json.array, LAMBDA p : p.symbol, LAMBDA p : Stod(p.price))

read_order_book(json) ==
  Book(json.lastUpdateId, Each(json.asks, LAMBDA e : read_order_book_entry(e, "ASK")),
                          Each(json.bids, LAMBDA e : read_order_book_entry(e, "BID")))

read_fee(json) == json.takerCommission \div 100

read_balances(json) == ByKey(json.balances, LAMBDA b : b.asset, LAMBDA b : Stod(b.free))

to_order_status(status) ==
  CASE status = "NEW" -> "OPEN" [] status = "PARTIALLY_FILLED" -> status
    [] status = "FILLED" -> "CLOSED" [] OTHER -> "CANCELLED"

\* The average price is kept as the cost and the quantity it divides; without
\* fills it is 0/0.
read_add_order_confirm(json) ==
  LET Total(f(_)) == FoldLeft(LAMBDA sum, fill : sum + f(fill), 0, json.fills)
  IN  [order_id |-> Text(json.orderId), status |-> to_order_status(json.status),
       original_qty |-> Stod(json.origQty), filled_qty |-> Stod(json.executedQty),
       cost |-> Total(LAMBDA f : Stod(f.price) * Stod(f.qty)), per |-> Total(LAMBDA f : Stod(f.qty))]

Read(c, json) ==
  IF "code" \in DOMAIN json THEN Fail
  ELSE Success(
    CASE c.op = "get_status" -> "ONLINE"
      [] c.op = "get_tradable_pairs" -> read_tradable_pairs(json)
      [] c.op = "get_ohlcv" -> read_ohlcv(json)
      [] c.op = "get_price" -> read_price(json)
      [] c.op = "get_prices" -> read_prices(json)
      [] c.op = "get_order_book" -> read_order_book(json)
      [] c.op = "get_fee" -> read_fee(json)
      [] c.op = "get_balances" -> read_balances(json)
      [] c.op = "get_open_orders" -> Each(json.array, read_order_description)
      [] c.op = "add_order" -> Text(json.orderId)
      [] c.op = "add_order_confirm" -> read_add_order_confirm(json)
      [] c.op = "cancel_order" -> "void")

-----------------------------------------------------------------------------
(* The service. *)

Error == [code |-> 1, msg |-> "refused"]
Answers(json) == [array |-> json]

OrderIn(m, q) ==
  LET pair == PairNamed(q.symbol, "")
      At(key) == IF key \in DOMAIN q THEN Stod(q[key]) ELSE 0
  IN  IF q.type = "MARKET" THEN AtMarket(m, pair, q.side, Stod(q.quantity))
      ELSE Order(IF "trailingDelta" \in DOMAIN q THEN "TRAILING_STOP_LOSS"
                 ELSE IF q.type = "STOP_LOSS_LIMIT" THEN "STOP_LOSS" ELSE q.type,
                 pair, q.side, At("price"), Stod(q.quantity), At("stopPrice"), At("trailingDelta") \div 10000)

OrderJson(o) ==
  [time |-> Millis(o.time), orderId |-> o.id, symbol |-> Named(o.pair), side |-> o.action,
   type |-> IF o.type \in {"STOP_LOSS", "TRAILING_STOP_LOSS"} THEN "STOP_LOSS_LIMIT" ELSE o.type,
   price |-> Text(o.price), origQty |-> Text(o.volume)]

Refuses(m, r) ==
  \/ r.path \in {Api("account"), Api("openOrders"), Api("order")} /\ r.sign # r.query
  \/ "symbol" \in DOMAIN r.query /\ ~ IsName(r.query.symbol, "")
  \/ r.verb = "DELETE" /\ ~ IsOpen(m, r.query.orderId)

Effect(m, r) ==
  CASE r.verb = "POST" -> Enter(m, OrderIn(m, r.query))
    [] r.verb = "DELETE" -> Cancel(m, r.query.orderId)
    [] OTHER -> m

Body(m, r) ==
  LET q == r.query
      Levels(levels) == Each(First(levels, Stod(q.limit)), LAMBDA e : <<Text(e.price), Text(e.volume)>>)
  IN
  CASE r.verb = "POST" ->
         LET o == Last(Effect(m, r).orders)
             done == IF o.state = "closed" THEN o.volume ELSE 0
         IN  [orderId |-> o.id, origQty |-> Text(o.volume), executedQty |-> Text(done),
              status |-> IF o.state = "closed" THEN "FILLED" ELSE "NEW",
              fills |-> IF done = 0 THEN <<>> ELSE <<[price |-> Text(o.price), qty |-> Text(done)]>>]
    [] r.verb = "DELETE" -> [orderId |-> q.orderId]
    [] r.path = Api("time") -> [serverTime |-> Millis(m.time)]
    [] r.path = Api("exchangeInfo") ->
         [symbols |-> Each(SetToSeq(Pairs), LAMBDA p :
            [baseAsset |-> p.asset, quoteAsset |-> p.price_unit,
             filters |-> [PRICE_FILTER |-> Text(Filters[p].price), LOT_SIZE |-> Text(Filters[p].quantity)]])]
    [] r.path = Api("ticker") /\ "symbols" \in DOMAIN q ->
         Answers(Each(SetToSeq(q.symbols), LAMBDA n :
            [symbol |-> n, price |-> Text(m.price[PairNamed(n, "")])]))
    [] r.path = Api("account") ->
         [takerCommission |-> Real(m.fee),
          balances |-> Each(SetToSeq(DOMAIN m.balances), LAMBDA a :
                         [asset |-> a, free |-> Text(m.balances[a])])]
    [] r.path = Api("openOrders") -> Answers(Each(InState(m, {"open"}), OrderJson))
    [] r.path = Api("klines") ->
         Answers(Reverse(Newest(Each(m.candles[PairNamed(q.symbol, "")][q.interval], LAMBDA k :
            <<Millis(k.time), Text(k.open), Text(k.high), Text(k.low), Text(k.close), Text(k.volume)>>),
            Stod(q.limit))))
    [] r.path = Api("ticker") /\ "symbols" \notin DOMAIN q -> [price |-> Text(m.price[PairNamed(q.symbol, "")])]
    [] r.path = Api("depth") ->
         LET book == m.book[PairNamed(q.symbol, "")]
         IN  [lastUpdateId |-> book.stamp, asks |-> Levels(book.asks), bids |-> Levels(book.bids)]
=============================================================================
