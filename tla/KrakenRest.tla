----------------------------- MODULE KrakenRest -----------------------------
(* Requests, responses and readers of kraken_api, and the service behind them. *)
EXTENDS RestTypes

CONSTANT OldNames  \* pairs that the service calls by a name of its own, as XXBTZUSD

Named(pair) == Name(pair, "")

-----------------------------------------------------------------------------
(* Requests. *)

to_order_type_str(type) ==
  CASE type = "LIMIT" -> "limit" [] type = "MARKET" -> "market"
    [] type = "STOP_LOSS" -> "stop-loss" [] type = "TAKE_PROFIT" -> "take-profit"

Public(method, query) == PublicGet(<<"0", "public", method>>, query)

\* Private requests are posts, signed with their path and content.
Private(method, query) ==
  LET path == <<"0", "private", method>>
  IN  Http("POST", path, None, query, <<path, query>>)

OrderQuery(order) ==
  [pair |-> Named(order.pair), type |-> IF order.action = "BUY" THEN "buy" ELSE "sell",
   ordertype |-> to_order_type_str(order.type), price |-> Text(Get(order, "ASSET_PRICE")),
   volume |-> Text(Get(order, "VOLUME"))]

Ask(c) ==
  CASE c.op = "get_status" -> Public("SystemStatus", None)
    [] c.op = "get_tradable_pairs" -> Public("AssetPairs", None)
    [] c.op = "get_ohlcv" ->
         Public("OHLC", [pair |-> {Named(c.pair)}, interval |-> Text(Minutes(c.interval))])
    [] c.op = "get_price" -> Public("Ticker", [pair |-> {Named(c.pair)}])
    [] c.op = "get_prices" -> Public("Ticker", [pair |-> {Named(p) : p \in c.pairs}])
    [] c.op = "get_order_book" -> Public("Depth", [pair |-> {Named(c.pair)}, count |-> Text(c.depth)])
    [] c.op = "get_fee" -> Private("TradeVolume", [pair |-> Named(c.pair)])
    [] c.op = "get_balances" -> Private("Balance", None)
    [] c.op = "get_open_orders" -> Private("OpenOrders", None)
    [] c.op = "get_closed_orders" -> Private("ClosedOrders", None)
    [] c.op = "add_order" ->
         IF c.order.type = "TRAILING_STOP_LOSS" THEN Throws("invalid_argument")
         ELSE Private("AddOrder", OrderQuery(c.order))
    [] c.op = "add_order_confirm" -> Throws("not_implemented")
    [] c.op = "cancel_order" -> Private("CancelOrder", [txid |-> c.id])

-----------------------------------------------------------------------------
(* Readers. *)

\* The member of a result that begin() reaches.
Only(result) == result[CHOOSE name \in DOMAIN result : TRUE]

read_ticker_price(ticker) == Stod(ticker.c[1])

to_order_type(type) ==
  CASE type = "limit" -> "LIMIT" [] type = "market" -> "MARKET"
    [] type = "stop-loss" -> "STOP_LOSS" [] type = "take-profit" -> "TAKE_PROFIT"

read_open_closed_orders(orders, status) ==
  Each(Among(orders, {o \in ToSet(orders) : o.status = status}), LAMBDA o :
    Description(Whole(o.opentm), o.key, to_order_type(o.ordertype), o.descr.pair,
                IF o.descr.type = "buy" THEN "BUY" ELSE "SELL", Stod(o.descr.price), Stod(o.vol)))

read_system_status(result) ==
  CASE result.status = "online" -> "ONLINE" [] result.status = "cancel_only" -> "CANCEL_ONLY"
    [] result.status = "post_only" -> "POST_ONLY" [] OTHER -> "MAINTENANCE"

read_tradable_pairs(result) ==
  {[asset |-> result[key].wsname[1], price_unit |-> result[key].wsname[3]] : key \in DOMAIN result}

\* The answer ends with the candle that is still open.
read_ohlcv_data(result, count) ==
  Each(Newest(Only(result), count), LAMBDA k :
         Candle(k[1], Stod(k[2]), Stod(k[3]), Stod(k[4]), Stod(k[5]), Stod(k[7])))

read_price(result) == read_ticker_price(Only(result))

read_prices(result) == [name \in DOMAIN result |-> read_ticker_price(result[name])]

\* The loop runs over the asks and reads a bid for each: with fewer bids it
\* reads past the end of a constant array, with more it leaves the rest out.
ReadsPastTheBids(result) == Len(Only(result).bids) < Len(Only(result).asks)

read_order_book(result) ==
  LET asks == Only(result).asks
      bids == Only(result).bids
      times == {e[3] : e \in ToSet(asks) \cup ToSet(First(bids, Len(asks)))}
  IN  Book(Max(times \cup {0}), Each(asks, LAMBDA e : Entry(Stod(e[1]), Stod(e[2]), "ASK")),
           Each(First(bids, Len(asks)), LAMBDA e : Entry(Stod(e[1]), Stod(e[2]), "BID")))

read_balances(result) == [asset \in DOMAIN result |-> Stod(result[asset])]

read_fee(result) == Stod(Only(result.fees).fee)

\* The error is the first message of the answer.
Read(c, json) ==
  IF json.error # <<>> THEN Fail
  ELSE IF c.op = "get_order_book" /\ ReadsPastTheBids(json.result) THEN Undefined
  ELSE Success(
    CASE c.op = "get_status" -> read_system_status(json.result)
      [] c.op = "get_tradable_pairs" -> read_tradable_pairs(json.result)
      [] c.op = "get_ohlcv" -> read_ohlcv_data(json.result, c.count)
      [] c.op = "get_price" -> read_price(json.result)
      [] c.op = "get_prices" -> read_prices(json.result)
      [] c.op = "get_order_book" -> read_order_book(json.result)
      [] c.op = "get_fee" -> read_fee(json.result)
      [] c.op = "get_balances" -> read_balances(json.result)
      [] c.op = "get_open_orders" -> read_open_closed_orders(json.result.open, "open")
      [] c.op = "get_closed_orders" -> read_open_closed_orders(json.result.closed, "closed")
      [] c.op = "add_order" -> json.result.txid[1]
      [] c.op = "cancel_order" -> "void")

-----------------------------------------------------------------------------
(* The service.  It understands the names of the clients and answers with    *)
(* its own; its objects with orders are sequences with the keys inside.      *)

Error == [error |-> <<"EGeneral">>]

KeyOf(name) == LET pair == PairNamed(name, "") IN IF pair \in OldNames THEN Name(pair, "Z") ELSE name

OrderIn(m, q) ==
  LET pair == PairNamed(q.pair, "")
      action == IF q.type = "buy" THEN "BUY" ELSE "SELL"
  IN  IF q.ordertype = "market" THEN AtMarket(m, pair, action, Stod(q.volume))
      ELSE Order(to_order_type(q.ordertype), pair, action, Stod(q.price), Stod(q.volume), 0, 0)

OrderJson(o) ==
  [key |-> Text(o.id), opentm |-> Fractional(o.time), vol |-> Text(o.volume),
   ordertype |-> to_order_type_str(o.type),
   status |-> IF o.state = "cancelled" THEN "canceled" ELSE o.state,
   descr |-> [pair |-> Named(o.pair), type |-> IF o.action = "BUY" THEN "buy" ELSE "sell",
              price |-> Text(o.price)]]

IsOrder(r) == r.path[3] = "AddOrder"
IsCancel(r) == r.path[3] = "CancelOrder"

Refuses(m, r) ==
  \/ r.path[2] = "private" /\ r.sign # <<r.path, r.content>>
  \/ "pair" \in DOMAIN r.query /\ \E name \in r.query.pair : ~ IsName(name, "")
  \/ "pair" \in DOMAIN r.content /\ ~ IsName(r.content.pair, "")
  \/ IsCancel(r) /\ ~ IsOpen(m, r.content.txid)

Effect(m, r) ==
  CASE IsOrder(r) -> Enter(m, OrderIn(m, r.content))
    [] IsCancel(r) -> Cancel(m, r.content.txid)
    [] OTHER -> m

Result(m, r) ==
  LET method == r.path[3]
      For(names, f(_)) == [key \in {KeyOf(n) : n \in names} |->
                             f(PairNamed(CHOOSE n \in names : KeyOf(n) = key, ""))]
      Level(e) == <<Text(e.price), Text(e.volume), e.time>>
      Levels(levels) == Each(First(levels, Stod(r.query.count)), Level)
      Row(k) == <<k.time, Text(k.open), Text(k.high), Text(k.low), Text(k.close), Text(0),
                  Text(k.volume), 1>>
  IN
  CASE method = "SystemStatus" ->
         [status |-> CASE m.status = "ONLINE" -> "online" [] m.status = "CANCEL_ONLY" -> "cancel_only"
                       [] m.status = "POST_ONLY" -> "post_only" [] OTHER -> "maintenance"]
    [] method = "AssetPairs" ->
         For({Named(p) : p \in Pairs}, LAMBDA p : [wsname |-> Name(p, "/")])
    [] method = "OHLC" ->
         LET interval == IF r.query.interval = Text(1) THEN "1m" ELSE "1d"
         IN  For(r.query.pair, LAMBDA p : Each(m.candles[p][interval], Row))
    [] method = "Ticker" -> For(r.query.pair, LAMBDA p : [c |-> <<Text(m.price[p]), Text(1)>>])
    [] method = "Depth" ->
         For(r.query.pair, LAMBDA p : [asks |-> Levels(m.book[p].asks), bids |-> Levels(m.book[p].bids)])
    [] method = "TradeVolume" ->
         [fees |-> For({r.content.pair}, LAMBDA p : [fee |-> Text(m.fee * 100)])]
    [] method = "Balance" -> [a \in DOMAIN m.balances |-> Text(m.balances[a])]
    [] method = "OpenOrders" -> [open |-> Each(InState(m, {"open"}), OrderJson)]
    [] method = "ClosedOrders" -> [closed |-> Each(InState(m, {"closed", "cancelled"}), OrderJson)]
    [] IsOrder(r) -> [txid |-> <<Text(NextId(m))>>]
    [] IsCancel(r) -> [count |-> 1]

Body(m, r) == [error |-> <<>>, result |-> Result(m, r)]
=============================================================================
