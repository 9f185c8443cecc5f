----------------------------- MODULE RestClient -----------------------------
(***************************************************************************)
(* A call of an exchange's REST API, from the caller to the exchange and   *)
(* back: send_http_request and the five classes that use it.  One thread   *)
(* calls; a call may take several requests.  Meanwhile the exchange moves: *)
(* prices change and orders are filled.  A request or its answer may be    *)
(* lost, or the exchange may refuse; http_service::send gives up after its *)
(* timeout.                                                                *)
(*                                                                         *)
(* Definitions marked `Fault' are what a plausible bug would make of the   *)
(* next definition; only the mutation checks use them.                     *)
(***************************************************************************)
EXTENDS RestTypes

CONSTANTS Kinds,        \* classes of exchange to look at
          Calls,        \* calls the program makes
          Market,       \* the exchange to begin with
          Moving,       \* pairs whose price changes,
          Prices,       \* to one of these
          MaxOrders,    \* bound on the number of orders of the exchange
          BybitFee,     \* bybit_config::fee
          OldNames, LocalOffset

ASSUME RestAssumption ==
  /\ Kinds \subseteq {"binance", "bybit", "coinbase", "digifinex", "kraken"}
  /\ OldNames \subseteq Pairs
  /\ Moving \subseteq Pairs /\ Prices \subseteq Nat \ {0}
  /\ LocalOffset \in Int /\ MaxOrders \in Nat /\ BybitFee \in Nat

\* The requests of order_request.cpp: the parameters of each type of order.  The limit of
\* a stop loss may be 0, as it is by default.
Intervals == {"1m", "1d"}
OrderTypes == {"LIMIT", "MARKET", "STOP_LOSS", "TRAILING_STOP_LOSS", "TAKE_PROFIT"}
Actions == {"BUY", "SELL"}
ParametersOf(type) ==
  {"VOLUME"} \cup (IF type # "MARKET" THEN {"ASSET_PRICE"} ELSE {})
             \cup (IF type = "STOP_LOSS" THEN {"STOP_PRICE"} ELSE {})
             \cup (IF type = "TRAILING_STOP_LOSS" THEN {"TRAILING_DELTA"} ELSE {})
IsOrderRequest(o) ==
  /\ o.type \in OrderTypes /\ o.pair \in Pairs /\ o.action \in Actions
  /\ o.parameters \in [ParametersOf(o.type) -> Nat] /\ o.parameters["VOLUME"] # 0

\* The calls of the interface, for pairs that the exchange trades.
IsCall(c) ==
  \/ c \in [op : {"get_status", "get_tradable_pairs", "get_balances", "get_open_orders",
                   "get_closed_orders"}]
  \/ c \in [op : {"get_ohlcv"}, pair : Pairs, interval : Intervals, count : Nat]
  \/ c \in [op : {"get_price", "get_fee"}, pair : Pairs]
  \/ c \in [op : {"get_prices"}, pairs : SUBSET Pairs]
  \/ c \in [op : {"get_order_book"}, pair : Pairs, depth : Nat \ {0}]
  \/ c \in [op : {"get_order_books"}, pairs : SUBSET Pairs, depth : Nat \ {0}]
  \/ c.op = "cancel_order" /\ c = [op |-> c.op, id |-> c.id]
  \/ /\ c.op \in {"add_order", "add_order_confirm"} /\ c = [op |-> c.op, order |-> c.order]
     /\ IsOrderRequest(c.order)

ASSUME CallsAssumption == \A c \in Calls : IsCall(c)

\* The exchange: candles and levels of books are sequences, oldest or best first.
Levels == [price : Nat, volume : Nat, time : Nat]
Candles == [time : Nat, open : Nat, high : Nat, low : Nat, close : Nat, volume : Nat]
Orders == [type : OrderTypes, pair : Pairs, action : Actions, price : Nat, volume : Nat,
           stop : Nat, delta : Nat, id : Nat, time : Nat, state : {"open", "closed", "cancelled"}]

IsExchange(m) ==
  /\ m = [part \in {"status", "time", "fee", "price", "candles", "book", "balances", "orders"} |-> m[part]]
  /\ m.status \in {"ONLINE", "CANCEL_ONLY", "POST_ONLY", "MAINTENANCE"}
  /\ m.time \in Nat /\ m.fee \in Nat
  /\ m.price \in [Pairs -> Nat \ {0}]
  /\ m.candles \in [Pairs -> [Intervals -> Seq(Candles)]]
  /\ m.book \in [Pairs -> [stamp : Nat, asks : Seq(Levels), bids : Seq(Levels)]]
  /\ m.balances \in [DOMAIN m.balances -> Nat] /\ IsFiniteSet(DOMAIN m.balances)
  /\ m.orders \in Seq(Orders)

\* The types of the orders that the exchange of a class holds.  A market order has a
\* price, for it is filled, and at Coinbase the volume that was asked for.
TypesHeld(class) ==
  CASE class = "binance" -> OrderTypes \ {"TAKE_PROFIT"}
    [] class \in {"coinbase", "kraken"} -> OrderTypes \ {"TRAILING_STOP_LOSS"}
    [] class \in {"bybit", "digifinex"} -> {"LIMIT", "MARKET"}
IsHeld(class, o) ==
  /\ o.type \in TypesHeld(class)
  /\ o.type = "MARKET" => o.price > 0 /\ (class = "coinbase" => o.volume > 0)

ASSUME MarketAssumption ==
  /\ IsExchange(Market)
  /\ \A i \in DOMAIN Market.orders, class \in Kinds : IsHeld(class, Market.orders[i])

\* Ticks and steps have at most four decimals.
ASSUME FiltersAssumption ==
  /\ IsFiniteSet(Pairs)
  /\ \A p \in Pairs : /\ p = [asset |-> p.asset, price_unit |-> p.price_unit]
                      /\ Filters[p].price \in 1 .. 1000 /\ Filters[p].quantity \in 1 .. 1000

Binance == INSTANCE BinanceRest
Bybit == INSTANCE BybitRest
Coinbase == INSTANCE CoinbaseRest
Digifinex == INSTANCE DigifinexRest
Kraken == INSTANCE KrakenRest

VARIABLES
  kind,      \* the class of the exchange
  market,    \* the exchange
  filters,   \* binance_api::_orderFilters
  call,      \* the call being made, or the last one
  phase,     \* "idle", "asking", "sent" or "answered"
  inner,     \* the call that the request belongs to
  request, response,
  gathered,  \* answers of the calls that `call' needs first
  outcome,   \* what the call returned or threw
  \* what happened during the call, for the properties:
  truth,     \* what the exchange knew when it answered
  entered,   \* orders it entered
  lost,      \* a request or an answer was lost
  refused    \* the exchange refused without a reason of the client's

history == <<truth, entered, lost, refused>>
vars == <<kind, market, filters, call, phase, inner, request, response, gathered, outcome, history>>

NoCall == [op |-> "none"]
Value(v) == [is |-> "value", value |-> v]

Init ==
  /\ kind \in Kinds /\ market = Market /\ filters = None
  /\ call = NoCall /\ phase = "idle" /\ inner = NoCall
  /\ request = None /\ response = None /\ gathered = None
  /\ outcome = [is |-> "none"]
  /\ truth = None /\ entered = {} /\ lost = FALSE /\ refused = FALSE

-----------------------------------------------------------------------------
(***************************************************************************)
(* The exchange that `kind' speaks to.                                     *)
(***************************************************************************)
Refuses(r) ==
  CASE kind = "binance" -> Binance!Refuses(market, r) [] kind = "bybit" -> Bybit!Refuses(market, r)
    [] kind = "coinbase" -> Coinbase!Refuses(market, r)
    [] kind = "digifinex" -> Digifinex!Refuses(market, r) [] kind = "kraken" -> Kraken!Refuses(market, r)

Effect(r) ==
  CASE kind = "binance" -> Binance!Effect(market, r) [] kind = "bybit" -> Bybit!Effect(market, r)
    [] kind = "coinbase" -> Coinbase!Effect(market, r)
    [] kind = "digifinex" -> Digifinex!Effect(market, r) [] kind = "kraken" -> Kraken!Effect(market, r)

Body(r) ==
  CASE kind = "binance" -> Binance!Body(market, r) [] kind = "bybit" -> Bybit!Body(market, r)
    [] kind = "coinbase" -> Coinbase!Body(market, r)
    [] kind = "digifinex" -> Digifinex!Body(market, r) [] kind = "kraken" -> Kraken!Body(market, r)

ErrorBody ==
  CASE kind = "binance" -> Binance!Error [] kind = "bybit" -> Bybit!Error
    [] kind = "coinbase" -> Coinbase!Error [] kind = "digifinex" -> Digifinex!Error
    [] kind = "kraken" -> Kraken!Error

Named(p) == Name(p, CASE kind = "coinbase" -> "-" [] kind = "digifinex" -> "_" [] OTHER -> "")

-----------------------------------------------------------------------------
(***************************************************************************)
(* What a call needs before its own request: the loops of market_api over  *)
(* the pairs, the price of a market order, the pair of an order to cancel. *)
(***************************************************************************)
PriceOf(p) == [op |-> "get_price", pair |-> p]
BookOf(p, depth) == [op |-> "get_order_book", pair |-> p, depth |-> depth]

AsksPrice(order) == \/ kind = "bybit" /\ Bybit!AsksPrice(order)
                    \/ kind = "digifinex" /\ Digifinex!AsksPrice(order)

Loops(c) == \/ c.op = "get_order_books"
            \/ c.op = "get_prices" /\ kind \notin {"binance", "kraken"}

Before(c) ==
  CASE c.op = "get_prices" /\ Loops(c) -> {PriceOf(p) : p \in c.pairs}
    [] c.op = "get_order_books" -> {BookOf(p, c.depth) : p \in c.pairs}
    [] c.op = "add_order" /\ AsksPrice(c.order) -> {PriceOf(c.order.pair)}
    [] c.op = "cancel_order" /\ kind = "binance" -> {[op |-> "get_open_orders"]}
    [] OTHER -> {}

\* Fault: answers are not remembered.
Missing_always == Before(call)

Missing == Before(call) \ DOMAIN gathered

\* Fault: the name of the pair is compared with the id.
Listed_by_pair == IF kind = "binance" /\ call.op = "cancel_order" /\ Missing = {}
                  THEN {o \in ToSet(gathered[[op |-> "get_open_orders"]]) : o.pair_name = call.id} ELSE {}

\* The orders to cancel among the open ones that Binance listed.
Listed == IF kind = "binance" /\ call.op = "cancel_order" /\ Missing = {}
          THEN {o \in ToSet(gathered[[op |-> "get_open_orders"]]) : o.id = call.id} ELSE {}

\* Calls that are answered without a request of their own.
AnswersItself ==
  \/ Loops(call)
  \/ call.op = "get_fee" /\ kind \in {"bybit", "digifinex"}
  \/ call.op = "get_status" /\ kind = "coinbase"
  \/ call.op = "cancel_order" /\ kind = "binance" /\ Listed = {}

OwnAnswer ==
  CASE call.op = "get_prices" -> [p \in call.pairs |-> gathered[PriceOf(p)]]
    [] call.op = "get_order_books" -> [p \in call.pairs |-> gathered[BookOf(p, call.depth)]]
    [] call.op = "get_fee" -> IF kind = "bybit" THEN BybitFee ELSE 2000
    [] call.op = "get_status" -> "ONLINE"
    [] call.op = "cancel_order" -> "void"

FilterFor(c) == IF c.op \in {"add_order", "add_order_confirm"} /\ c.order.pair \in DOMAIN filters
                THEN filters[c.order.pair] ELSE Binance!DefaultFilter

HttpRequest(c) ==
  LET price == IF c.op = "add_order" /\ AsksPrice(c.order) THEN gathered[PriceOf(c.order.pair)] ELSE 0
      name == IF Listed = {} THEN None ELSE (CHOOSE o \in Listed : TRUE).pair_name
  IN  CASE kind = "binance" -> Binance!Ask(c, name, FilterFor(c))
        [] kind = "bybit" -> Bybit!Ask(c, price)
        [] kind = "coinbase" -> Coinbase!Ask(c)
        [] kind = "digifinex" -> Digifinex!Ask(c, price)
        [] kind = "kraken" -> Kraken!Ask(c)

ReadBody(json) ==
  CASE kind = "binance" -> Binance!Read(inner, json) [] kind = "bybit" -> Bybit!Read(inner, json)
    [] kind = "coinbase" -> Coinbase!Read(inner, json)
    [] kind = "digifinex" -> Digifinex!Read(inner, json) [] kind = "kraken" -> Kraken!Read(inner, json)

\* create_pair_result_map: at() throws for a name that was not asked for.
create_pair_result_map(pairs, named) ==
  IF \E name \in DOMAIN named : \A p \in pairs : Named(p) # name THEN Throws("out_of_range")
  ELSE Value([p \in {q \in pairs : Named(q) \in DOMAIN named} |-> named[Named(p)]])

Finished(v) ==
  CASE call.op = "get_prices" -> create_pair_result_map(call.pairs, v)
    [] call.op = "get_tradable_pairs" /\ kind = "binance" -> Value(DOMAIN v)
    [] OTHER -> Value(v)

-----------------------------------------------------------------------------
(***************************************************************************)
(* The caller's thread.                                                    *)
(***************************************************************************)
Return(o) ==
  /\ outcome' = o /\ phase' = "idle"
  /\ inner' = NoCall /\ request' = None /\ response' = None

Call(c) ==
  /\ phase = "idle"
  /\ c.op \in {"add_order", "add_order_confirm"} => Len(market.orders) < MaxOrders
  /\ call' = c /\ phase' = "asking" /\ gathered' = None
  /\ outcome' = [is |-> "none"]
  /\ truth' = None /\ entered' = {} /\ lost' = FALSE /\ refused' = FALSE
  /\ UNCHANGED <<kind, market, filters, inner, request, response>>

Send(c) ==
  LET r == HttpRequest(c)
  IN  IF r.is = "thrown" THEN Return(r)
      ELSE /\ inner' = c /\ request' = r /\ phase' = "sent"
           /\ UNCHANGED <<response, outcome>>

Ask ==
  /\ phase = "asking"
  /\ IF Missing # {} THEN \E c \in Missing : Send(c)
     ELSE IF AnswersItself THEN Return(Value(OwnAnswer))
     ELSE Send(call)
  /\ UNCHANGED <<kind, market, filters, call, gathered, history>>

\* send_http_request from the response on.
Receive ==
  /\ phase = "answered"
  /\ LET result == IF response.code # 200 THEN Fail ELSE ReadBody(response.body)
         read == result.is = "success"
     IN
     /\ filters' = IF read /\ kind = "binance" /\ inner.op = "get_tradable_pairs"
                   THEN result.value ELSE filters
     /\ IF result.is = "fail" THEN Return(Throws("mb_exception")) /\ UNCHANGED gathered
        ELSE IF result.is = "undefined" THEN Return(result) /\ UNCHANGED gathered
        ELSE IF inner \in Before(call)
        THEN /\ gathered' = With(gathered, inner, result.value)
             /\ phase' = "asking" /\ inner' = NoCall /\ request' = None /\ response' = None
             /\ UNCHANGED outcome
        ELSE Return(Finished(result.value)) /\ UNCHANGED gathered
  /\ UNCHANGED <<kind, market, call, history>>

-----------------------------------------------------------------------------
(***************************************************************************)
(* The network and the exchange.                                           *)
(***************************************************************************)
\* What a query asks for, in the exchange's terms.
Known(c) ==
  CASE c.op = "get_status" -> market.status
    [] c.op = "get_ohlcv" -> Newest(market.candles[c.pair][c.interval], c.count)
    [] c.op = "get_price" -> market.price[c.pair]
    [] c.op = "get_prices" -> [p \in c.pairs |-> market.price[p]]
    [] c.op = "get_order_book" -> market.book[c.pair]
    [] c.op = "get_balances" -> market.balances
    [] c.op = "get_open_orders" -> InState(market, {"open"})
    [] c.op = "get_closed_orders" -> InState(market, {"closed"})
    [] OTHER -> "nothing"

Arrive ==
  /\ market' = Effect(request)
  /\ entered' = entered \cup (DOMAIN market'.orders \ DOMAIN market.orders)

Serve ==
  /\ phase = "sent" /\ ~ Refuses(request)
  /\ Arrive
  /\ response' = [code |-> 200, body |-> Body(request)]
  /\ truth' = With(truth, inner, Known(inner))
  /\ phase' = "answered"
  /\ UNCHANGED <<kind, filters, call, inner, request, gathered, outcome, lost, refused>>

\* The exchange refuses what it cannot do, and anything else for reasons of its own.
Refuse(code) ==
  /\ phase = "sent"
  /\ response' = [code |-> code, body |-> ErrorBody]
  /\ refused' = ~ Refuses(request)
  /\ phase' = "answered"
  /\ UNCHANGED <<kind, market, filters, call, inner, request, gathered, outcome, truth, entered, lost>>

\* CURLOPT_TIMEOUT_MS or a broken connection: http_error is an mb_exception.
LoseRequest ==
  /\ phase = "sent"
  /\ Return(Throws("mb_exception"))
  /\ lost' = TRUE
  /\ UNCHANGED <<kind, market, filters, call, gathered, truth, entered, refused>>

LoseAnswer ==
  /\ phase = "sent" /\ ~ Refuses(request)
  /\ Arrive
  /\ Return(Throws("mb_exception"))
  /\ lost' = TRUE
  /\ UNCHANGED <<kind, filters, call, gathered, truth, refused>>

PriceMoves(p) ==
  /\ \E x \in Prices : market' = [market EXCEPT !.price[p] = x]
  /\ UNCHANGED <<kind, filters, call, phase, inner, request, response, gathered, outcome, history>>

Fill(i) ==
  /\ market.orders[i].state = "open"
  /\ market' = [market EXCEPT !.orders[i].state = "closed"]
  /\ UNCHANGED <<kind, filters, call, phase, inner, request, response, gathered, outcome, history>>

Answered == Serve \/ (\E code \in {200, 400} : Refuse(code)) \/ LoseRequest \/ LoseAnswer

Next ==
  \/ \E c \in Calls : Call(c)
  \/ Ask
  \/ Receive
  \/ Answered
  \/ \E p \in Moving : PriceMoves(p)
  \/ \E i \in DOMAIN market.orders : Fill(i)

\* The caller's thread runs, and http_service::send returns: the exchange
\* answers or the timeout ends it.
Fairness == WF_vars(Ask) /\ WF_vars(Receive) /\ WF_vars(Answered)

Spec == Init /\ [][Next]_vars /\ Fairness

-----------------------------------------------------------------------------
(***************************************************************************)
(* Properties.                                                             *)
(***************************************************************************)
Done == phase = "idle" /\ outcome.is # "none"
Returned == phase = "idle" /\ outcome.is = "value"
Thrown == phase = "idle" /\ outcome.is = "thrown"

-----------------------------------------------------------------------------
(* Answers.                                                                  *)

\* The levels of a book up to a depth.  Exceptions of the code: Coinbase names the
\* sides of the entries the wrong way round (coinbase_results.cpp:142-156), Kraken
\* leaves out bids beyond the number of asks (kraken_results.cpp:222).
SameLevels(read, known) ==
  /\ Len(read) = Len(known)
  /\ \A i \in DOMAIN read : read[i].price = known[i].price /\ read[i].volume = known[i].volume

SidesAreNamed(book) ==
  /\ \A e \in ToSet(book.asks) : e.side = "ASK"
  /\ \A e \in ToSet(book.bids) : e.side = "BID"

SameBook(read, known, depth) ==
  LET asks == First(known.asks, depth)
      bids == First(known.bids, depth)
  IN  /\ SameLevels(read.asks, asks)
      /\ SameLevels(read.bids, IF kind = "kraken" THEN First(bids, Len(asks)) ELSE bids)
      /\ kind # "coinbase" => SidesAreNamed(read)

\* Exceptions: a trailing stop loss of Binance and a take profit of Coinbase are read
\* as stop losses, Coinbase's times are off by the local time zone (timeutils.cpp:18).
TypeRead(type) ==
  IF type \in {"TRAILING_STOP_LOSS"} \cup (IF kind = "coinbase" THEN {"TAKE_PROFIT"} ELSE {})
  THEN "STOP_LOSS" ELSE type

SameOrders(read, known) ==
  /\ DOMAIN read = DOMAIN known
  /\ \A i \in DOMAIN read :
       LET o == known[i]
       IN  /\ read[i].id = Text(o.id) /\ read[i].pair_name = Named(o.pair)
           /\ read[i].type = TypeRead(o.type)
           /\ read[i].action = o.action /\ read[i].price = o.price /\ read[i].volume = o.volume
           /\ read[i].time = (IF kind = "coinbase" THEN o.time - LocalOffset ELSE o.time)

\* Exceptions: only Kraken reads the status, Bybit and Digifinex have fixed fees,
\* Digifinex takes the oldest candles (digifinex_results.cpp:160-172).
Agrees(v) ==
  LET known == truth[call]
  IN
  CASE call.op = "get_status" -> kind = "kraken" => v = known
    [] call.op = "get_tradable_pairs" -> v = Pairs
    [] call.op = "get_ohlcv" ->
         \/ kind = "digifinex" /\ call.count < Len(market.candles[call.pair][call.interval])
         \/ v = known
    [] call.op = "get_price" -> v = known
    [] call.op = "get_prices" ->
         v = IF Loops(call) THEN [p \in call.pairs |-> truth[PriceOf(p)]] ELSE known
    [] call.op = "get_order_book" -> SameBook(v, known, call.depth)
    [] call.op = "get_order_books" ->
         \A p \in call.pairs : SameBook(v[p], truth[BookOf(p, call.depth)], call.depth)
    [] call.op = "get_fee" -> kind \notin {"bybit", "digifinex"} => v = 100 * market.fee
    [] call.op = "get_balances" -> v = known
    [] call.op \in {"get_open_orders", "get_closed_orders"} -> SameOrders(v, known)
    [] OTHER -> TRUE

\* What a query returns is what the exchange knew when it answered, for every pair,
\* level, candle and order asked for, whatever moved since: paths, pair names and
\* parameters of the request, member names, positions, units and order of the answer.
AnswersAreTrue == Returned => Agrees(outcome.value)

-----------------------------------------------------------------------------
(* Orders.                                                                   *)

Adding == call.op \in {"add_order", "add_order_confirm"}

\* The order that the exchange holds is the one of the request.  Exceptions of the
\* code: Bybit makes every other type a limit order, only Binance sends a stop price
\* or a trailing delta, Binance rounds to default decimals unless get_tradable_pairs
\* was called before, and the cost that Bybit and Digifinex send is that at the price
\* they asked for, which may have moved when the order arrives.
AsAsked(o) ==
  LET asked == call.order
      moved == AsksPrice(asked) /\ gathered[PriceOf(asked.pair)] # o.price
      filter == Binance!FilterOf(asked.pair)
      Kept(n, parameter, step) ==
        \/ n = Get(asked, parameter)
        \/ kind = "binance" /\ (filters = None \/ Get(asked, parameter) % step # 0)
  IN  /\ o.pair = asked.pair /\ o.action = asked.action
      /\ o.type = (IF kind = "bybit" /\ asked.type # "MARKET" THEN "LIMIT" ELSE asked.type)
      /\ Kept(o.volume, "VOLUME", filter.quantity) \/ moved
      /\ asked.type # "MARKET" => Kept(o.price, "ASSET_PRICE", filter.price)
      /\ kind = "binance" => /\ Kept(o.stop, "STOP_PRICE", filter.price)
                             /\ o.delta = Get(asked, "TRAILING_DELTA")

\* A call enters at most one order, only add_order does, and as it was asked; the
\* caller gets the id of the order it has entered; and when the call throws without a
\* message lost, there is no order.
OrdersAreAsAsked ==
  /\ Cardinality(entered) <= 1
  /\ \A id \in entered : Adding /\ AsAsked(market.orders[id])
  /\ Adding /\ Returned =>
       entered = {id \in DOMAIN market.orders :
                    Text(id) = IF call.op = "add_order" THEN outcome.value ELSE outcome.value.order_id}
  /\ Thrown /\ ~ lost => entered = {}

\* When cancel_order has returned, the order is not open: the exchange has
\* cancelled it, or it was filled before.
CancelledIsNotOpen == call.op = "cancel_order" /\ Returned => ~ IsOpen(market, call.id)

-----------------------------------------------------------------------------
(* Failures.                                                                 *)

NotOffered ==
  \/ kind = "binance" /\ call.op = "get_closed_orders"
  \/ kind # "binance" /\ call.op = "add_order_confirm"
  \/ /\ Adding
     /\ \/ kind = "binance" /\ call.order.type = "TAKE_PROFIT"
        \/ kind = "coinbase" /\ call.order.type = "TRAILING_STOP_LOSS"
        \/ kind = "digifinex" /\ call.order.type \notin {"LIMIT", "MARKET"}
        \/ kind = "kraken" /\ call.order.type = "TRAILING_STOP_LOSS"

\* Kraken answers with a name of its own for an old pair (exchange_common.h:41).
NotFound == kind = "kraken" /\ call.op = "get_prices" /\ call.pairs \cap OldNames # {}

\* A call fails for a reason: a message was lost, the exchange refused, the order to
\* cancel is not open any more, or it is one of what the class does not offer.  The
\* runners catch mb_exception only: anything else is one of the cases named here.
FailsForAReason ==
  /\ Thrown => \/ lost \/ refused \/ NotOffered \/ NotFound
               \/ call.op = "cancel_order" /\ ~ IsOpen(market, call.id)
  /\ Thrown /\ outcome.what # "mb_exception" => NotOffered \/ NotFound
  /\ Done /\ outcome.is = "undefined" =>
       kind = "kraken" /\ call.op \in {"get_order_book", "get_order_books"}

\* Every call returns or throws, however many requests it takes.
CallsReturn == phase # "idle" ~> phase = "idle"
=============================================================================
