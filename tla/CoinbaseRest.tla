----------------------------- MODULE CoinbaseRest -----------------------------
(* Requests, responses and readers of coinbase_api, and the service behind them. *)
EXTENDS RestTypes

CONSTANT LocalOffset  \* seconds that local time is ahead of UTC

Named(pair) == Name(pair, "-")

-----------------------------------------------------------------------------
(* Requests. *)

to_order_type_str(type) ==
  CASE type = "LIMIT" -> "limit" [] type = "MARKET" -> "market"
    [] type = "STOP_LOSS" -> "loss" [] type = "TAKE_PROFIT" -> "entry"

Product(pair, what) == <<"products", Named(pair), what>>

\* Fault: the query is not signed.
Private_without_query(verb, path, query, content) ==
  Http(verb, path, query, content, <<verb, path, None, content>>)

\* The signature covers the verb, the path, the query and the content.
Private(verb, path, query, content) == Http(verb, path, query, content, <<verb, path, query, content>>)

OrderContent(order) ==
  Restrict([side |-> IF order.action = "BUY" THEN "buy" ELSE "sell", product_id |-> Named(order.pair),
            size |-> Text(Get(order, "VOLUME")), type |-> to_order_type_str(order.type),
            price |-> Text(Get(order, "ASSET_PRICE"))],
           {"side", "product_id", "size", "type"} \cup (IF order.type # "MARKET" THEN {"price"} ELSE {}))

Ask(c) ==
  CASE c.op = "get_tradable_pairs" -> PublicGet(<<"products">>, None)
    [] c.op = "get_ohlcv" ->
         PublicGet(Product(c.pair, "candles"), [granularity |-> Text(Seconds(c.interval))])
    [] c.op = "get_price" -> PublicGet(Product(c.pair, "ticker"), None)
    [] c.op = "get_order_book" ->
         PublicGet(Product(c.pair, "book"), [level |-> Text(IF c.depth = 1 THEN 1 ELSE 2)])
    [] c.op = "get_fee" -> Private("GET", <<"fees">>, None, None)
    [] c.op = "get_balances" -> Private("GET", <<"coinbase-accounts">>, None, None)
    [] c.op = "get_open_orders" -> Private("GET", <<"orders">>, [status |-> "open"], None)
    [] c.op = "get_closed_orders" -> Private("GET", <<"orders">>, [status |-> "done"], None)
    [] c.op = "add_order" ->
         IF c.order.type = "TRAILING_STOP_LOSS" THEN Throws("mb_exception")
         ELSE Private("POST", <<"orders">>, None, OrderContent(c.order))
    [] c.op = "add_order_confirm" -> Throws("not_implemented")
    [] c.op = "cancel_order" -> Private("DELETE", <<"orders", c.id>>, None, None)

-----------------------------------------------------------------------------
(* Readers. *)

\* What the service does not send would fall off the end of the function.
to_order_type(type) ==
  CASE type = "limit" -> "LIMIT" [] type = "market" -> "MARKET" [] type = "stop" -> "STOP_LOSS"

\* mktime takes the broken-down time, which is UTC, for local time.
to_time_t(date) == date.utc - LocalOffset

read_tradable_pairs(json) ==
  {[asset |-> p.base_currency, price_unit |-> p.quote_currency] : p \in ToSet(json.array)}

\* Fault: low and high are read in the order of the other exchanges.
read_ohlcv_data_high_first(json, count) ==
  Each(First(json.array, count), LAMBDA k : Candle(k[1], k[4], k[2], k[3], k[5], k[6]))

read_ohlcv_data(json, count) ==
  Each(First(json.array, count), LAMBDA k : Candle(k[1], k[4], k[3], k[2], k[5], k[6]))

read_price(json) == Stod(json.price)

\* The code names the entries of the bids ASK and those of the asks BID.
read_order_book(json, depth) ==
  Book(json.sequence, Each(First(json.asks, depth), LAMBDA e : Entry(Stod(e[1]), Stod(e[2]), "BID")),
                      Each(First(json.bids, depth), LAMBDA e : Entry(Stod(e[1]), Stod(e[2]), "ASK")))

read_fee(json) == Stod(json.taker_fee_rate) * 100

read_balances(json) == ByKey(json.array, LAMBDA b : b.currency, LAMBDA b : Stod(b.balance))

\* A market order has no price: it is the cost over the size.
read_orders(json) ==
  LET Paid(o) == Stod(IF "funds" \in DOMAIN o THEN o.funds ELSE o.executed_value)
      PriceOf(o) == IF "price" \in DOMAIN o THEN Stod(o.price) ELSE AssetPrice(Paid(o), Stod(o.size))
  IN  Each(json.array, LAMBDA o :
        Description(to_time_t(o.created_at), o.id, to_order_type(o.type), o.product_id,
                    IF o.side = "buy" THEN "BUY" ELSE "SELL", PriceOf(o), Stod(o.size)))

Read(c, json) ==
  IF "message" \in DOMAIN json THEN Fail
  ELSE Success(
    CASE c.op = "get_tradable_pairs" -> read_tradable_pairs(json)
      [] c.op = "get_ohlcv" -> read_ohlcv_data(json, c.count)
      [] c.op = "get_price" -> read_price(json)
      [] c.op = "get_order_book" -> read_order_book(json, c.depth)
      [] c.op = "get_fee" -> read_fee(json)
      [] c.op = "get_balances" -> read_balances(json)
      [] c.op \in {"get_open_orders", "get_closed_orders"} -> read_orders(json)
      [] c.op = "add_order" -> json.id
      [] c.op = "cancel_order" -> "void")

-----------------------------------------------------------------------------
(* The service. *)

Error == [message |-> "refused"]

\* A stop loss is an order without a stop price here: none is sent.
OrderIn(m, q) ==
  LET pair == PairNamed(q.product_id, "-")
      action == IF q.side = "buy" THEN "BUY" ELSE "SELL"
  IN  CASE q.type = "market" -> AtMarket(m, pair, action, Stod(q.size))
        [] q.type = "limit" -> Order("LIMIT", pair, action, Stod(q.price), Stod(q.size), 0, 0)
        [] OTHER -> Order(IF q.type = "loss" THEN "STOP_LOSS" ELSE "TAKE_PROFIT", pair, action,
                          Stod(q.price), Stod(q.size), 0, 0)

OrderJson(o) ==
  LET given == CASE o.type # "MARKET" -> "price"
                 [] o.type = "MARKET" /\ o.action = "BUY" -> "funds"
                 [] OTHER -> "executed_value"
  IN  Restrict([created_at |-> [utc |-> o.time], id |-> Text(o.id), product_id |-> Named(o.pair),
                side |-> IF o.action = "BUY" THEN "buy" ELSE "sell", size |-> Text(o.volume),
                type |-> CASE o.type = "LIMIT" -> "limit" [] o.type = "MARKET" -> "market" [] OTHER -> "stop",
                price |-> Text(o.price), funds |-> Text(Cost(o.price, o.volume)),
                executed_value |-> Text(Cost(o.price, o.volume))],
               {"created_at", "id", "product_id", "side", "size", "type", given})

IsPrivate(r) == r.path[1] \in {"fees", "coinbase-accounts", "orders"}

Refuses(m, r) ==
  \/ IsPrivate(r) /\ r.sign # <<r.verb, r.path, r.query, r.content>>
  \/ r.path[1] = "products" /\ Len(r.path) > 1 /\ ~ IsName(r.path[2], "-")
  \/ r.verb = "POST" /\ ~ IsName(r.content.product_id, "-")
  \/ r.verb = "DELETE" /\ ~ IsOpen(m, r.path[2])

Effect(m, r) ==
  CASE r.verb = "POST" -> Enter(m, OrderIn(m, r.content))
    [] r.verb = "DELETE" -> Cancel(m, r.path[2])
    [] OTHER -> m

Body(m, r) ==
  LET pair == PairNamed(r.path[2], "-")
      Has(what) == Len(r.path) = 3 /\ r.path[3] = what
      Answers(json) == [array |-> json]
      Levels(levels) == Each(IF r.query.level = Text(1) THEN First(levels, 1) ELSE levels,
                             LAMBDA e : <<Text(e.price), Text(e.volume)>>)
  IN
  CASE r.verb = "POST" -> [id |-> Text(NextId(m))]
    [] r.verb = "DELETE" -> Answers(<<r.path[2]>>)
    [] r.path = <<"products">> ->
         Answers(Each(SetToSeq(Pairs), LAMBDA p : [base_currency |-> p.asset, quote_currency |-> p.price_unit]))
    [] r.path = <<"fees">> -> [taker_fee_rate |-> Text(m.fee)]
    [] r.path = <<"coinbase-accounts">> ->
         Answers(Each(SetToSeq(DOMAIN m.balances), LAMBDA a :
                        [currency |-> a, balance |-> Text(m.balances[a])]))
    [] r.verb = "GET" /\ r.path = <<"orders">> ->
         Answers(Each(InState(m, {IF r.query.status = "open" THEN "open" ELSE "closed"}), OrderJson))
    [] Has("candles") ->
         LET interval == CHOOSE i \in {"1m", "1d"} : Text(Seconds(i)) = r.query.granularity
         IN  Answers(Each(Reverse(m.candles[pair][interval]), LAMBDA k :
                            <<k.time, k.low, k.high, k.open, k.close, k.volume>>))
    [] Has("ticker") -> [price |-> Text(m.price[pair])]
    [] Has("book") ->
         [sequence |-> m.book[pair].stamp, asks |-> Levels(m.book[pair].asks),
          bids |-> Levels(m.book[pair].bids)]
=============================================================================
