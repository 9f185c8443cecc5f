----------------------------- MODULE DigifinexRest -----------------------------
(* Requests, responses and readers of digifinex_api, and the service behind them. *)
EXTENDS RestTypes

Named(pair) == Name(pair, "_")

-----------------------------------------------------------------------------
(* Requests. *)

get_ohlcv_period(interval) ==
  IF interval = "1d" THEN <<1, "D">> ELSE <<Minutes(interval), "">>

get_order_type(type, action) == <<action, type = "MARKET">>

\* Market orders of both directions are sent as the cost at the price that was
\* asked for first.
AsksPrice(order) == order.type = "MARKET"
get_amount(order, price) ==
  IF AsksPrice(order) THEN Cost(price, Get(order, "VOLUME")) ELSE Get(order, "VOLUME")

\* The parameters of every verb travel in the URL.
Private(verb, path, query) == Http(verb, path, query, None, query)

Ask(c, price) ==
  CASE c.op = "get_status" -> PublicGet(<<"ping">>, None)
    [] c.op = "get_tradable_pairs" -> PublicGet(<<"spot", "symbols">>, None)
    [] c.op = "get_ohlcv" ->
         PublicGet(<<"kline">>, [symbol |-> Named(c.pair), period |-> get_ohlcv_period(c.interval)])
    [] c.op = "get_price" -> PublicGet(<<"ticker">>, [symbol |-> Named(c.pair)])
    [] c.op = "get_order_book" ->
         PublicGet(<<"order_book">>, [symbol |-> Named(c.pair), limit |-> Text(c.depth)])
    [] c.op = "get_balances" -> Private("GET", <<"spot", "assets">>, None)
    [] c.op = "get_open_orders" -> Private("GET", <<"spot", "order", "current">>, None)
    [] c.op = "get_closed_orders" -> Private("GET", <<"spot", "order", "history">>, None)
    [] c.op = "add_order" ->
         IF c.order.type \notin {"LIMIT", "MARKET"} THEN Throws("mb_exception")
         ELSE Private("POST", <<"spot", "order", "new">>,
                      [market |-> "spot", symbol |-> Named(c.order.pair),
                       type |-> get_order_type(c.order.type, c.order.action),
                       amount |-> Text(get_amount(c.order, price)),
                       price |-> Text(Get(c.order, "ASSET_PRICE"))])
    [] c.op = "add_order_confirm" -> Throws("not_implemented")
    [] c.op = "cancel_order" ->
         Private("POST", <<"spot", "order", "cancel">>, [market |-> "spot", order_id |-> c.id])

-----------------------------------------------------------------------------
(* Readers. *)

read_order_description(o) ==
  Description(o.created_date, o.order_id, IF o.type[2] THEN "MARKET" ELSE "LIMIT", o.symbol,
              o.type[1], o.price, o.amount)

read_tradable_pairs(json) ==
  {[asset |-> s.base_asset, price_unit |-> s.quote_asset] : s \in ToSet(json.symbol_list)}

\* The first `count' candles are the oldest ones of the answer.
read_ohlcv_data(json, count) ==
  Reverse(Each(First(json.data, count), LAMBDA k : Candle(k[1], k[6], k[4], k[5], k[3], k[2])))

read_price(json) == json.ticker[1].last

read_order_book(json) ==
  Book(json.date, Each(json.asks, LAMBDA e : Entry(e[1], e[2], "ASK")),
                  Each(json.bids, LAMBDA e : Entry(e[1], e[2], "BID")))

read_balances(json) == ByKey(json.list, LAMBDA b : b.currency, LAMBDA b : b.free)

read_open_orders(json) == Each(json.data, read_order_description)

read_closed_orders(json) ==
  Each(Among(json.data, {o \in ToSet(json.data) : o.status = 2}), read_order_description)

\* get_error_message has a text for every code: a failure in any case.
Read(c, json) ==
  IF json.code # 0 THEN Fail
  ELSE Success(
    CASE c.op = "get_status" -> "ONLINE"
      [] c.op = "get_tradable_pairs" -> read_tradable_pairs(json)
      [] c.op = "get_ohlcv" -> read_ohlcv_data(json, c.count)
      [] c.op = "get_price" -> read_price(json)
      [] c.op = "get_order_book" -> read_order_book(json)
      [] c.op = "get_balances" -> read_balances(json)
      [] c.op = "get_open_orders" -> read_open_orders(json)
      [] c.op = "get_closed_orders" -> read_closed_orders(json)
      [] c.op = "add_order" -> json.order_id
      [] c.op = "cancel_order" -> "void")

-----------------------------------------------------------------------------
(* The service. *)

Error == [code |-> 20011]

\* A market order trades the cost at the price of its arrival.
OrderIn(m, q) ==
  LET pair == PairNamed(q.symbol, "_")
  IN  IF q.type[2] THEN AtMarket(m, pair, q.type[1], Volume(m.price[pair], Stod(q.amount)))
      ELSE Order("LIMIT", pair, q.type[1], Stod(q.price), Stod(q.amount), 0, 0)

OrderJson(o) ==
  [created_date |-> o.time, order_id |-> Text(o.id), symbol |-> Named(o.pair),
   type |-> <<o.action, o.type = "MARKET">>, price |-> o.price, amount |-> o.volume,
   status |-> CASE o.state = "open" -> 0 [] o.state = "closed" -> 2 [] OTHER -> 3]

IsCancel(r) == r.path = <<"spot", "order", "cancel">>

Refuses(m, r) ==
  \/ r.path[1] = "spot" /\ r.path # <<"spot", "symbols">> /\ r.sign # r.query
  \/ "symbol" \in DOMAIN r.query /\ ~ IsName(r.query.symbol, "_")
  \/ IsCancel(r) /\ ~ IsOpen(m, r.query.order_id)

Effect(m, r) ==
  CASE r.verb = "POST" /\ ~ IsCancel(r) -> Enter(m, OrderIn(m, r.query))
    [] IsCancel(r) -> Cancel(m, r.query.order_id)
    [] OTHER -> m

Body(m, r) ==
  LET q == r.query
      pair == PairNamed(q.symbol, "_")
      Levels(levels) == Each(First(levels, Stod(q.limit)), LAMBDA e : <<e.price, e.volume>>)
  IN
  CASE IsCancel(r) -> [code |-> 0, success |-> <<q.order_id>>]
    [] r.verb = "POST" /\ ~ IsCancel(r) -> [code |-> 0, order_id |-> Text(NextId(m))]
    [] r.path = <<"ping">> -> [code |-> 0, msg |-> "pong"]
    [] r.path = <<"spot", "symbols">> ->
         [code |-> 0, symbol_list |-> Each(SetToSeq(Pairs), LAMBDA p :
                                         [base_asset |-> p.asset, quote_asset |-> p.price_unit])]
    [] r.path = <<"spot", "assets">> ->
         [code |-> 0, list |-> Each(SetToSeq(DOMAIN m.balances), LAMBDA a :
                                  [currency |-> a, free |-> m.balances[a]])]
    [] r.path = <<"spot", "order", "current">> -> [code |-> 0, data |-> Each(InState(m, {"open"}), OrderJson)]
    [] r.path = <<"spot", "order", "history">> ->
         [code |-> 0, data |-> Each(InState(m, {"closed", "cancelled"}), OrderJson)]
    [] r.path = <<"kline">> ->
         LET interval == IF q.period = <<1, "D">> THEN "1d" ELSE "1m"
         IN  [code |-> 0, data |-> Each(m.candles[pair][interval], LAMBDA k :
                              <<k.time, k.volume, k.close, k.high, k.low, k.open>>)]
    [] r.path = <<"ticker">> -> [code |-> 0, ticker |-> <<[last |-> m.price[pair]]>>]
    [] r.path = <<"order_book">> ->
         [code |-> 0, date |-> m.book[pair].stamp, asks |-> Levels(m.book[pair].asks),
          bids |-> Levels(m.book[pair].bids)]
=============================================================================
