------------------------------ MODULE RestTypes ------------------------------
(***************************************************************************)
(* What the REST clients of the five exchanges share: trading types, HTTP  *)
(* requests and the exchange on the other side of the connection.          *)
(***************************************************************************)
EXTENDS Wire

CONSTANT Filters  \* of each pair: tick size and step size of its orders

-----------------------------------------------------------------------------
(* What the clients hand to their callers. *)

\* A number with decimals is held in units of 1/10000.
Real(n) == 10000 * n

\* A time with a fraction, which get<time_t> cuts off.
Fractional(t) == [whole |-> t, part |-> 782]
Whole(t) == t.whole

Book(stamp, asks, bids) == [stamp |-> stamp, asks |-> asks, bids |-> bids]
Description(time, id, type, pairName, action, price, volume) ==
  [time |-> time, id |-> id, type |-> type, pair_name |-> pairName, action |-> action,
   price |-> price, volume |-> volume]

\* calculate_cost, calculate_volume, calculate_asset_price.
Cost(price, volume) == price * volume
Volume(price, cost) == IF cost = 0 \/ price = 0 THEN 0 ELSE cost \div price
AssetPrice(cost, volume) == IF cost = 0 \/ volume = 0 THEN 0 ELSE cost \div volume

\* The requests that order_request.cpp creates, and order_request::get.
OrderRequest(type, pair, action, parameters) ==
  [type |-> type, pair |-> pair, action |-> action, parameters |-> parameters]
LimitOrder(p, action, price, volume) ==
  OrderRequest("LIMIT", p, action, [ASSET_PRICE |-> price, VOLUME |-> volume])
MarketOrder(p, action, volume) == OrderRequest("MARKET", p, action, [VOLUME |-> volume])
StopLossOrder(p, action, stop, volume, limit) ==
  OrderRequest("STOP_LOSS", p, action, [VOLUME |-> volume, STOP_PRICE |-> stop, ASSET_PRICE |-> limit])
TrailingStopLossOrder(p, action, delta, volume, limit) ==
  OrderRequest("TRAILING_STOP_LOSS", p, action,
               [VOLUME |-> volume, TRAILING_DELTA |-> delta, ASSET_PRICE |-> limit])

Get(order, parameter) == IF parameter \in DOMAIN order.parameters
                         THEN order.parameters[parameter] ELSE 0

\* A reader's result; what a call may throw.
Success(v) == [is |-> "success", value |-> v]
Fail == [is |-> "fail"]
Throws(what) == [is |-> "thrown", what |-> what]
Undefined == [is |-> "undefined"]

\* A function with one more argument, or another value of it.
With(f, x, v) == [y \in DOMAIN f \cup {x} |-> IF y = x THEN v ELSE f[y]]

\* The elements of an array that belong to a set, in their order.
Among(seq, S) ==
  LET upTo[n \in 0 .. Len(seq)] ==
        IF n = 0 THEN <<>> ELSE IF seq[n] \in S THEN Append(upTo[n - 1], seq[n]) ELSE upTo[n - 1]
  IN  upTo[Len(seq)]

\* The newest elements of an array; an array by a key.
Newest(seq, count) == First(Reverse(seq), count)
ByKey(seq, key(_), f(_)) ==
  [k \in {key(seq[i]) : i \in DOMAIN seq} |-> f(seq[CHOOSE i \in DOMAIN seq : key(seq[i]) = k])]

-----------------------------------------------------------------------------
(* HTTP requests.  `sign' is what the signature of a private request covers. *)

None == <<>>
Http(verb, path, query, content, sign) ==
  [is |-> "http", verb |-> verb, path |-> path, query |-> query, content |-> content, sign |-> sign]
PublicGet(path, query) == Http("GET", path, query, None, None)

-----------------------------------------------------------------------------
(***************************************************************************)
(* The exchange: its status, prices, candles (oldest first) and book of    *)
(* every pair, the account's fee in hundredths of a percent, its balances  *)
(* and its orders.  A market order is filled at the price of its arrival.  *)
(***************************************************************************)
NextId(m) == Len(m.orders) + 1
InState(m, states) == Among(m.orders, {o \in ToSet(m.orders) : o.state \in states})
IsOpen(m, id) == \E o \in ToSet(InState(m, {"open"})) : Text(o.id) = id

Order(type, pair, action, price, volume, stop, delta) ==
  [type |-> type, pair |-> pair, action |-> action, price |-> price, volume |-> volume,
   stop |-> stop, delta |-> delta, id |-> 0, time |-> 0, state |-> "new"]

\* A market order knows its volume, or the cost it is worth.
AtMarket(m, pair, action, volume) ==
  Order("MARKET", pair, action, m.price[pair], volume, 0, 0)

Enter(m, order) ==
  LET entered == [order EXCEPT !.id = NextId(m), !.time = m.time,
                               !.state = IF order.type = "MARKET" THEN "closed" ELSE "open"]
  IN  [m EXCEPT !.orders = Append(@, entered)]

Cancel(m, id) ==
  [m EXCEPT !.orders =
     Each(@, LAMBDA o : IF Text(o.id) = id /\ o.state = "open"
                        THEN [o EXCEPT !.state = "cancelled"] ELSE o)]
=============================================================================
