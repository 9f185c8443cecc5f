---------------------------- MODULE StreamMessages ----------------------------
(***************************************************************************)
(* The streams of the five exchanges with their messages: what subscribing *)
(* sends, and what on_message makes of the JSON that comes back.  Messages *)
(* become calls of update_trade, update_ohlcv, initialise_order_book and   *)
(* update_order_book of exchange_websocket_stream, one after the other.    *)
(*                                                                         *)
(* One channel is looked at at a time.  The order book is StreamData's,    *)
(* and the steps here implement the ones there.  Trades and candles are    *)
(* numbered as the exchange makes them, and each has values of its own.    *)
(*                                                                         *)
(* Definitions marked `Fault' are what a plausible bug would make of the   *)
(* next definition; only the mutation checks use them.                     *)
(***************************************************************************)
EXTENDS StreamData, Wire

CONSTANTS BookPair,    \* the pair whose order book is looked at
          Intervals,   \* of candles
          MaxItems,    \* bound on the number of trades or candles
          LocalOffset  \* seconds that local time is ahead of UTC

ASSUME StreamMessagesAssumption ==
  /\ BookPair \in Pairs /\ MaxItems \in Nat /\ LocalOffset \in Int
  /\ IsFiniteSet(Prices)
  /\ "" \notin Intervals
  /\ \A i, j \in Intervals : Minutes(i) = Minutes(j) => i = j

VARIABLES
  channel,  \* the channel looked at
  on,       \* streams the exchange sends: [channel, interval, pair]
  pairs,    \* _pairs
  asked,    \* streams the strategy is subscribed to
  items,    \* the stream of each trade or candle the exchange made
  mail,     \* messages with them, on their way
  calls,    \* calls that on_message still makes
  filed,    \* _trades and _ohlcv
  told,     \* what the handlers were told
  due       \* items the strategy should be told of

itemVars == <<on, pairs, asked, items, mail, filed, told, due>>
vars == <<bookVars, channel, calls, itemVars>>

Channels == {"TRADE", "OHLCV", "ORDER_BOOK"}
Separator == CASE kind = "coinbase" -> "-" [] kind = "kraken" -> "/" [] kind = "digifinex" -> "_"
               [] OTHER -> ""

\* Fault: the separator of the exchange is left out.
Named_without_separator(p) == Name(p, "")

Named(p) == Name(p, Separator)

\* These two have no candles: a service makes them of the trades.
HasService == kind \in {"coinbase", "digifinex"}

Stream(chan, interval, p) == [channel |-> chan, interval |-> interval, pair |-> p]

-----------------------------------------------------------------------------
(***************************************************************************)
(* Subscribing.                                                            *)
(***************************************************************************)
Supported == kind = "digifinex" => channel # "ORDER_BOOK"

\* What is asked of the exchange: for the candles of the service, the trades.
get_channel == IF HasService /\ channel = "OHLCV" THEN "TRADE" ELSE channel

lower(name) == [lower |-> name]

create_message(verb, ps, interval) ==
  LET names == {Named(p) : p \in ps}
  IN
  CASE kind = "binance" ->
         [method |-> verb, id |-> 1,
          params |-> {<<lower(name), CASE channel = "TRADE" -> <<"trade">>
                                       [] channel = "OHLCV" -> <<"kline", interval>>
                                       [] OTHER -> <<"depth@100ms">> >> : name \in names}]
    [] kind = "bybit" ->
         [symbol |-> names, event |-> IF verb = "SUBSCRIBE" THEN "sub" ELSE "cancel",
          topic |-> CASE channel = "TRADE" -> <<"trade">> [] channel = "OHLCV" -> <<"kline", interval>>
                      [] OTHER -> <<"diffDepth">>]
    [] kind = "coinbase" ->
         [type |-> IF verb = "SUBSCRIBE" THEN "subscribe" ELSE "unsubscribe", product_ids |-> names,
          channels |-> {IF get_channel = "TRADE" THEN "ticker" ELSE "level2"}]
    [] kind = "kraken" ->
         [event |-> IF verb = "SUBSCRIBE" THEN "subscribe" ELSE "unsubscribe", pair |-> names,
          subscription |-> CASE channel = "TRADE" -> [name |-> "trade"]
                             [] channel = "OHLCV" -> [name |-> "ohlc", interval |-> Minutes(interval)]
                             [] OTHER -> [name |-> "book", depth |-> 100]]
    [] kind = "digifinex" ->
         [method |-> <<"trades", IF verb = "SUBSCRIBE" THEN "subscribe" ELSE "unsubscribe">>,
          params |-> names]

\* The exchanges: the streams that a message names.
MinutesNamed(n) == CHOOSE i \in Intervals : Minutes(i) = n

Chosen(json) ==
  CASE kind = "binance" ->
         {LET what == param[2]
          IN  CASE what[1] = "kline" -> <<"OHLCV", what[2], param[1].lower>>
                [] what[1] = "trade" -> <<"TRADE", "", param[1].lower>>
                [] OTHER -> <<"ORDER_BOOK", "", param[1].lower>> : param \in json.params}
    [] kind = "bybit" ->
         {LET what == json.topic
          IN  CASE what[1] = "kline" -> <<"OHLCV", what[2], name>>
                [] what[1] = "trade" -> <<"TRADE", "", name>>
                [] OTHER -> <<"ORDER_BOOK", "", name>> : name \in json.symbol}
    [] kind = "coinbase" ->
         {<<IF json.channels = {"ticker"} THEN "TRADE" ELSE "ORDER_BOOK", "", name>> :
            name \in json.product_ids}
    [] kind = "kraken" ->
         {LET what == json.subscription
          IN  CASE what.name = "ohlc" -> <<"OHLCV", MinutesNamed(what.interval), name>>
                [] what.name = "trade" -> <<"TRADE", "", name>>
                [] OTHER -> <<"ORDER_BOOK", "", name>> : name \in json.pair}
    [] kind = "digifinex" -> {<<"TRADE", "", name>> : name \in json.params}

Streams(json) == {Stream(c[1], c[2], PairNamed(c[3], Separator)) :
                    c \in {d \in Chosen(json) : IsName(d[3], Separator)}}

-----------------------------------------------------------------------------
(***************************************************************************)
(* What the exchanges send.                                                *)
(***************************************************************************)
\* The trade and the candle of a number.
Trade(n) == [time |-> n, price |-> 10 + n, volume |-> 20 + n]
CandleOf(n) == Candle(n, 30 + n, 70 + n, 10 + n, 50 + n, 90 + n)

TradeJson(batch) ==
  LET name == Named(items[batch[1]].pair)
      t == Trade(batch[1])
  IN
  CASE kind = "binance" -> [e |-> "trade", s |-> name, p |-> Text(t.price), q |-> Text(t.volume),
                            T |-> Millis(t.time)]
    [] kind = "bybit" ->
         [topic |-> "trade", symbol |-> name,
          data |-> <<[p |-> Text(t.price), q |-> Text(t.volume), t |-> Millis(t.time)]>>]
    [] kind = "coinbase" -> [type |-> "ticker", product_id |-> name, price |-> Text(t.price),
                             last_size |-> Text(t.volume), time |-> [utc |-> t.time]]
    [] kind = "kraken" ->
         [array |-> <<7, Each(batch, LAMBDA n : LET u == Trade(n)
                                                IN  <<Text(u.price), Text(u.volume), Text(u.time)>>),
                      <<"trade">>, name>>]
    [] kind = "digifinex" ->
         [method |-> "trades.update",
          params |-> <<TRUE, Each(batch, LAMBDA n : LET u == Trade(n)
                                                    IN  [price |-> Text(u.price), amount |-> Text(u.volume),
                                                         time |-> u.time]), name>>]

OhlcvJson(n) ==
  LET name == Named(items[n].pair)
      interval == items[n].interval
      c == CandleOf(n)
      values == [t |-> Millis(c.time), o |-> Text(c.open), h |-> Text(c.high), l |-> Text(c.low),
                 c |-> Text(c.close), v |-> Text(c.volume), i |-> interval]
  IN
  CASE kind = "binance" -> [e |-> "kline", s |-> name, k |-> values]
    [] kind = "bybit" -> [topic |-> "kline", symbol |-> name, params |-> [klineType |-> interval],
                          data |-> <<values>>]
    [] kind = "kraken" ->
         [array |-> <<7, <<Text(c.time), Text(c.time + 59), Text(c.open), Text(c.high), Text(c.low),
                           Text(c.close), Text(c.close + 1), Text(c.volume), 3>>,
                      <<"ohlc", Minutes(interval)>>, name>>]

\* Rows of the levels of a side, cheapest first.
Rows(v, levels, side) ==
  Each(Sorted({p \in Prices : <<side, p>> \in levels}, <),
       LAMBDA p : <<Text(p), Text(books[v][<<side, p>>])>>)

OfBook(v) == {level \in Levels : books[v][level] # 0}

BookJson(m) ==
  LET name == Named(BookPair)
      snapshot == m.type = "snapshot"
      levels == IF snapshot THEN OfBook(m.to) ELSE Touched(m.from, m.to)
      asks == Rows(m.to, levels, "ASK")
      bids == Rows(m.to, levels, "BID")
      Array(updates) == [array |-> <<7>> \o updates \o << <<"book", 100>>, name>>]
  IN
  CASE kind = "binance" -> [e |-> "depthUpdate", s |-> name, u |-> m.to, a |-> asks, b |-> bids]
    [] kind = "bybit" -> [topic |-> "diffDepth", symbol |-> name, f |-> snapshot,
                          data |-> <<[a |-> asks, b |-> bids]>>]
    [] kind = "coinbase" /\ snapshot ->
         [type |-> "snapshot", product_id |-> name, asks |-> asks, bids |-> bids]
    [] kind = "coinbase" /\ ~ snapshot ->
         [type |-> "l2update", product_id |-> name,
          changes |-> Each(asks, LAMBDA row : <<"sell">> \o row) \o Each(bids, LAMBDA row : <<"buy">> \o row)]
    [] kind = "kraken" /\ snapshot -> Array(<<[as |-> asks, bs |-> bids]>>)
    [] kind = "kraken" /\ ~ snapshot ->
         Array((IF asks = <<>> THEN <<>> ELSE <<[a |-> asks]>>)
               \o (IF bids = <<>> THEN <<>> ELSE <<[b |-> bids]>>))

-----------------------------------------------------------------------------
(***************************************************************************)
(* on_message.                                                             *)
(***************************************************************************)
UpdateTrade(name, time, price, volume) ==
  [call |-> "update_trade", name |-> name,
   trade |-> [time |-> time, price |-> Stod(price), volume |-> Stod(volume)]]

UpdateOhlcv(name, interval, time, open, high, low, close, volume) ==
  [call |-> "update_ohlcv", name |-> name, interval |-> interval,
   candle |-> Candle(time, Stod(open), Stod(high), Stod(low), Stod(close), Stod(volume))]

create_order_book_entry(side, row) == Entry(Stod(row[1]), Stod(row[2]), side)

UpdateBook(side, row) == [call |-> "update_order_book", entry |-> create_order_book_entry(side, row)]

Updates(side, rows) == Each(rows, LAMBDA row : UpdateBook(side, row))

\* Fault: the loop ends with the asks.
create_order_book_cache_of_asks(asks, bids) ==
  <<[call |-> "initialise_order_book", asks |-> Each(asks, LAMBDA row : create_order_book_entry("ASK", row)),
     bids |-> Each(First(bids, Len(asks)), LAMBDA row : create_order_book_entry("BID", row))]>>

\* The loop runs to the end of the longer side.
create_order_book_cache(asks, bids) ==
  <<[call |-> "initialise_order_book", asks |-> Each(asks, LAMBDA row : create_order_book_entry("ASK", row)),
     bids |-> Each(bids, LAMBDA row : create_order_book_entry("BID", row))]>>

\* An ask, a bid, an ask, ... and the rest of the longer side.
Alternately(asks, bids) ==
  LET both == IF Len(asks) < Len(bids) THEN Len(asks) ELSE Len(bids)
      longer == IF Len(asks) < Len(bids) THEN bids ELSE asks
  IN  [i \in 1 .. Len(asks) + Len(bids) |->
         IF i > 2 * both THEN longer[i - both]
         ELSE IF i % 2 = 1 THEN asks[(i + 1) \div 2] ELSE bids[i \div 2]]

binance_calls(json) ==
  CASE json.e = "trade" -> <<UpdateTrade(json.s, json.T \div 1000, json.p, json.q)>>
    [] json.e = "kline" ->
         LET k == json.k
         IN  <<UpdateOhlcv(json.s, k.i, k.t \div 1000, k.o, k.h, k.l, k.c, k.v)>>
    [] json.e = "depthUpdate" -> Updates("ASK", json.a) \o Updates("BID", json.b)

bybit_calls(json) ==
  LET data == json.data[1]
  IN
  CASE json.topic = "trade" -> <<UpdateTrade(json.symbol, data.t \div 1000, data.p, data.q)>>
    [] json.topic = "kline" ->
         <<UpdateOhlcv(json.symbol, json.params.klineType, data.t \div 1000,
                       data.o, data.h, data.l, data.c, data.v)>>
    [] json.topic = "diffDepth" ->
         IF json.f THEN create_order_book_cache(data.a, data.b)
         ELSE Alternately(Updates("ASK", data.a), Updates("BID", data.b))

\* mktime takes the broken-down time, which is UTC, for local time.
coinbase_calls(json) ==
  CASE json.type = "ticker" ->
         <<UpdateTrade(json.product_id, json.time.utc - LocalOffset, json.price, json.last_size)>>
    [] json.type = "snapshot" -> create_order_book_cache(json.asks, json.bids)
    [] json.type = "l2update" ->
         Each(json.changes, LAMBDA change :
           UpdateBook(IF change[1] = "buy" THEN "BID" ELSE "ASK", Tail(change)))

process_order_book_updates(update) ==
  IF "a" \in DOMAIN update THEN Updates("ASK", update.a) ELSE Updates("BID", update.b)

kraken_book_calls(array) ==
  IF Len(array) = 4
  THEN IF "as" \in DOMAIN array[2] THEN create_order_book_cache(array[2].as, array[2].bs)
       ELSE process_order_book_updates(array[2])
  ELSE process_order_book_updates(array[2]) \o process_order_book_updates(array[3])

\* Fault: only the last trade of a message is read.
kraken_trade_calls_last(name, rows) ==
  LET row == Last(rows) IN <<UpdateTrade(name, Stod(row[3]), row[1], row[2])>>

kraken_trade_calls(name, rows) == Each(rows, LAMBDA row : UpdateTrade(name, Stod(row[3]), row[1], row[2]))

kraken_calls(json) ==
  LET array == json.array
      channelName == array[Len(array) - 1]
      name == array[Len(array)]
      row == array[2]
  IN
  CASE channelName[1] = "trade" -> kraken_trade_calls(name, row)
    [] channelName[1] = "ohlc" ->
         <<UpdateOhlcv(name, MinutesNamed(channelName[2]), Stod(row[1]), row[3], row[4], row[5], row[6], row[8])>>
    [] channelName[1] = "book" -> kraken_book_calls(array)

\* Only the last trade of a message.
digifinex_calls(json) ==
  LET trade == Last(json.params[2])
  IN  <<UpdateTrade(json.params[3], trade.time, trade.price, trade.amount)>>

Calls(json) ==
  CASE kind = "binance" -> binance_calls(json) [] kind = "bybit" -> bybit_calls(json)
    [] kind = "coinbase" -> coinbase_calls(json) [] kind = "kraken" -> kraken_calls(json)
    [] kind = "digifinex" -> digifinex_calls(json)

-----------------------------------------------------------------------------
(***************************************************************************)
(* The strategy thread.                                                    *)
(***************************************************************************)
Init ==
  /\ BookInit
  /\ channel \in Channels
  /\ calls = <<>> /\ on = {} /\ pairs = {} /\ asked = {}
  /\ items = <<>> /\ mail = <<>> /\ filed = <<>> /\ told = <<>> /\ due = {}

IntervalsOf == IF channel = "OHLCV" THEN Intervals ELSE {""}
Wanted(ps, interval) == {Stream(get_channel, IF HasService THEN "" ELSE interval, p) : p \in ps}
BookStream == Stream("ORDER_BOOK", "", BookPair)

\* send_subscribe throws, and the pairs stay.
SubscribeUnsupported(ps) ==
  /\ ~ Supported
  /\ pairs' = pairs \cup ps
  /\ UNCHANGED <<bookVars, channel, calls, on, asked, items, mail, filed, told, due>>

Subscribe(ps, interval) ==
  /\ Supported
  /\ pairs' = pairs \cup ps
  /\ on' = on \cup Streams(create_message("SUBSCRIBE", ps, interval))
  /\ asked' = asked \cup Wanted(ps, interval)
  /\ UNCHANGED <<channel, calls, items, mail, filed, told, due>>

SubscribeItems(ps, interval) ==
  /\ channel # "ORDER_BOOK" /\ Subscribe(ps, interval) /\ UNCHANGED bookVars

SubscribeBook ==
  /\ channel = "ORDER_BOOK" /\ Subscribe({BookPair}, "")
  /\ IF BookStream \in on' THEN subscribe ELSE UNCHANGED bookVars

\* With the service, only the service forgets the pairs.
Unsubscribe(ps, interval) ==
  /\ asked' = asked \ Wanted(ps, interval)
  /\ on' = IF HasService /\ channel = "OHLCV" THEN on
           ELSE on \ Streams(create_message("UNSUBSCRIBE", ps, interval))
  /\ UNCHANGED <<channel, calls, pairs, items, mail, filed, told, due>>

UnsubscribeItems(ps, interval) ==
  /\ channel # "ORDER_BOOK" /\ Unsubscribe(ps, interval) /\ UNCHANGED bookVars

UnsubscribeBook ==
  /\ channel = "ORDER_BOOK" /\ Unsubscribe({BookPair}, "")
  /\ IF BookStream \notin on' THEN unsubscribe ELSE UNCHANGED bookVars

\* The histories begin again with the connection.
Reset ==
  /\ calls = <<>> /\ reset
  /\ on' = {} /\ asked' = {} /\ mail' = <<>> /\ filed' = <<>> /\ told' = <<>> /\ due' = {}
  /\ UNCHANGED <<channel, calls, pairs, items>>

-----------------------------------------------------------------------------
(***************************************************************************)
(* The exchange.                                                           *)
(***************************************************************************)
ChangeBook(level, volume) ==
  channel = "ORDER_BOOK" /\ Change(level, volume) /\ UNCHANGED <<channel, calls, itemVars>>

EmitChanges == Emit /\ UNCHANGED <<channel, calls, itemVars>>

Batched == channel = "TRADE" /\ kind \in {"kraken", "digifinex"}

\* A trade or a new candle; Kraken and Digifinex may add a trade to the last message.
Make(s, joined) ==
  LET n == Len(items) + 1
      sent1 == s \in on
  IN
  /\ n <= MaxItems
  /\ joined => sent1 /\ Batched /\ mail # <<>> /\ items[Last(mail)[1]] = s
  /\ items' = Append(items, s)
  /\ mail' = IF joined THEN Front(mail) \o <<Append(Last(mail), n)>>
             ELSE IF sent1 THEN Append(mail, <<n>>) ELSE mail
  \* of a message of Digifinex, the last trade only
  /\ due' = (IF joined /\ kind = "digifinex" THEN due \ ToSet(Last(mail)) ELSE due)
            \cup (IF s \in asked THEN {n} ELSE {})
  /\ UNCHANGED <<bookVars, channel, calls, on, pairs, asked, filed, told>>

-----------------------------------------------------------------------------
(***************************************************************************)
(* The websocket thread.                                                   *)
(***************************************************************************)
\* from_snapshot and the constructor of order_book_cache.
VolumeIn(entries, price) ==
  IF \E e \in ToSet(entries) : e.price = price
  THEN (CHOOSE e \in ToSet(entries) : e.price = price).volume ELSE 0

initialise_order_book(c) ==
  known' = TRUE
  /\ cache' = [level \in Levels |-> VolumeIn(IF level[1] = "ASK" THEN c.asks ELSE c.bids, level[2])]

LevelOf(entry) == <<entry.side, entry.price>>

Take(m, json, made) ==
  /\ phase = "idle"
  /\ wire' = Tail(wire)
  /\ IF kind = "binance" /\ ids = 0
     THEN phase' = "asking" /\ UNCHANGED <<known, cache, at, pending, calls>>
     ELSE IF kind = "binance" /\ AlreadyHad([m EXCEPT !.to = json.u])
     THEN UNCHANGED <<known, cache, at, phase, pending, calls>>
     ELSE IF made[1].call = "update_order_book"
     THEN /\ phase' = "applying" /\ calls' = made /\ at' = m.to
          /\ pending' = {LevelOf(made[i].entry) : i \in DOMAIN made}
          /\ UNCHANGED <<known, cache>>
     ELSE initialise_order_book(made[1]) /\ at' = m.to /\ UNCHANGED <<phase, pending, calls>>
  /\ UNCHANGED <<kind, exchangeVars, ids, subscriptions, missed, channel, itemVars>>

TakeBookMessage ==
  \E m \in ToSet(First(wire, 1)) : \E json \in {BookJson(m)} : \E made \in {Calls(json)} : Take(m, json, made)

SnapshotAnswer == SnapshotArrives /\ UNCHANGED <<channel, calls, itemVars>>
SnapshotError == SnapshotFails /\ UNCHANGED <<channel, calls, itemVars>>

\* Fault: a volume of 0 does not remove the level.
Updated_keeps_empty(levels, entry) ==
  IF entry.volume = 0 THEN levels ELSE [levels EXCEPT ![LevelOf(entry)] = entry.volume]

\* update_cache: the entry at the price goes, and a volume comes in its place.
Updated(levels, entry) == [levels EXCEPT ![LevelOf(entry)] = entry.volume]

UpdateOrderBook ==
  LET entry == Head(calls).entry
  IN
  /\ phase = "applying" /\ calls # <<>>
  /\ known' = TRUE
  /\ cache' = Updated(cache, entry)
  /\ pending' = pending \ {LevelOf(entry)} /\ calls' = Tail(calls)
  /\ UNCHANGED <<kind, exchangeVars, wire, at, ids, phase, subscriptions, missed, channel, itemVars>>

FinishMessage ==
  /\ phase = "applying" /\ calls = <<>>
  /\ phase' = "idle" /\ ids' = IF kind = "binance" THEN at ELSE ids
  /\ UNCHANGED <<kind, exchangeVars, wire, known, cache, at, pending, subscriptions, missed,
                 channel, calls, itemVars>>

TakeItems ==
  /\ calls = <<>> /\ mail # <<>>
  /\ calls' = Calls(IF channel = "TRADE" \/ HasService THEN TradeJson(Head(mail)) ELSE OhlcvJson(Head(mail)[1]))
  /\ mail' = Tail(mail)
  /\ UNCHANGED <<bookVars, channel, on, pairs, asked, items, filed, told, due>>

Key(name, interval) == <<name, interval>>

\* The value is filed; for the handlers the pair is looked up in _pairs, at() throws.
UpdateItem ==
  LET c == Head(calls)
      interval == IF c.call = "update_ohlcv" THEN c.interval ELSE ""
      value == IF c.call = "update_ohlcv" THEN c.candle ELSE c.trade
      whose == {p \in pairs : Named(p) = c.name}
  IN
  /\ channel # "ORDER_BOOK" /\ calls # <<>>
  /\ filed' = [k \in DOMAIN filed \cup {Key(c.name, interval)} |->
                 IF k = Key(c.name, interval) THEN value ELSE filed[k]]
  /\ IF whose = {} THEN calls' = <<>> /\ UNCHANGED told
     ELSE /\ calls' = Tail(calls)
          /\ told' = Append(told, [pair |-> CHOOSE p \in whose : TRUE, interval |-> interval, value |-> value])
  /\ UNCHANGED <<bookVars, channel, on, pairs, asked, items, mail, due>>

on_message == TakeBookMessage \/ SnapshotAnswer \/ SnapshotError \/ UpdateOrderBook \/ FinishMessage
              \/ TakeItems \/ UpdateItem

Next ==
  \/ \E ps \in (SUBSET Pairs) \ {{}}, interval \in IntervalsOf :
       SubscribeItems(ps, interval) \/ UnsubscribeItems(ps, interval)
  \/ SubscribeUnsupported({BookPair})
  \/ SubscribeBook \/ UnsubscribeBook \/ Reset
  \/ \E level \in Levels, volume \in Volumes : ChangeBook(level, volume)
  \/ EmitChanges
  \/ \E p \in Pairs, interval \in IntervalsOf, joined \in BOOLEAN :
       channel # "ORDER_BOOK" /\ \E s \in Wanted({p}, interval) : Make(s, joined)
  \/ on_message

\* The exchange sends what it announced, and the websocket thread runs.
Fairness == WF_vars(EmitChanges) /\ WF_vars(on_message)

Spec == Init /\ [][Next]_vars /\ Fairness

-----------------------------------------------------------------------------
(***************************************************************************)
(* Readers.                                                                *)
(***************************************************************************)
\* order_book_cache: asks from the cheapest, bids from the dearest.
Side(side) ==
  LET prices == {p \in Prices : cache[<<side, p>>] # 0}
  IN  Each(IF side = "ASK" THEN Sorted(prices, <) ELSE Sorted(prices, >),
           LAMBDA p : Entry(p, cache[<<side, p>>], side))

\* Fault: depth 0 is as many as there are asks.
snapshot_asks_deep(depth) ==
  LET d == IF depth = 0 THEN Len(Side("ASK")) ELSE depth
  IN  [asks |-> First(Side("ASK"), d), bids |-> First(Side("BID"), d)]

snapshot(depth) ==
  LET longest == IF Len(Side("ASK")) > Len(Side("BID")) THEN Len(Side("ASK")) ELSE Len(Side("BID"))
      d == IF depth = 0 THEN longest ELSE depth
  IN  [asks |-> First(Side("ASK"), d), bids |-> First(Side("BID"), d)]

get_order_book(depth) == IF known THEN snapshot(depth) ELSE [asks |-> <<>>, bids |-> <<>>]

NoValue == [time |-> 0]

\* get_last_trade and get_last_candle: find_or_default.
get_last(p, interval) ==
  IF Key(Named(p), interval) \in DOMAIN filed THEN filed[Key(Named(p), interval)] ELSE NoValue

-----------------------------------------------------------------------------
(***************************************************************************)
(* Properties.                                                             *)
(***************************************************************************)
IsBest(r, side, levels, depth, Better(_, _)) ==
  LET prices == {p \in Prices : levels[<<side, p>>] # 0}
      listed == {r[i].price : i \in DOMAIN r}
  IN  /\ listed \subseteq prices
      /\ \A i \in DOMAIN r : r[i].volume = levels[<<side, r[i].price>>] /\ r[i].side = side
      /\ \A i, j \in DOMAIN r : i < j => Better(r[i].price, r[j].price)
      /\ \A p \in prices \ listed : depth # 0 /\ Len(r) = depth /\ \A q \in listed : Better(q, p)

\* get_order_book returns the best levels of the exchange's book, best first and as many
\* as were asked for on each side, all of them for depth 0 however uneven the sides are;
\* get_last_trade and get_last_candle the newest that the handlers were told.
ReadersSeeTheBestAndTheLast ==
  /\ known /\ ~ missed /\ phase # "applying" =>
       \A depth \in 0 .. Cardinality(Prices) :
         LET book == get_order_book(depth)
         IN  /\ IsBest(book.asks, "ASK", books[at], depth, <)
             /\ IsBest(book.bids, "BID", books[at], depth, >)
  /\ channel # "ORDER_BOOK" =>
       \A p \in Pairs, interval \in IntervalsOf \cup {""} :
         LET heard == {i \in DOMAIN told : told[i].pair = p /\ told[i].interval = interval}
         IN  /\ heard = {} => get_last(p, interval) = NoValue
             /\ \A i \in heard : (\A j \in heard : j <= i) => get_last(p, interval) = told[i].value

\* Exception of the code: Coinbase's times are off by the local time zone.
Said(n) ==
  LET s == items[n]
      value == IF s.interval = "" THEN Trade(n) ELSE CandleOf(n)
  IN  [pair |-> s.pair, interval |-> s.interval,
       value |-> IF kind = "coinbase" THEN [value EXCEPT !.time = @ - LocalOffset] ELSE value]

\* The handlers are told of trades and candles with their own pair, interval and values,
\* of none twice or out of order, and when no message is on its way of every one that
\* was made while the strategy was subscribed.  Exception of the code: Digifinex takes
\* the last trade of a message only (digifinex_websocket.cpp:64).
HandlersAreToldEverything ==
  /\ \A i \in DOMAIN told : \E n \in DOMAIN items : told[i] = Said(n)
  /\ \A i, j \in DOMAIN told : i < j => told[i].value.time < told[j].value.time
  /\ mail = <<>> /\ calls = <<>> => \A n \in due : \E i \in DOMAIN told : told[i] = Said(n)

\* Whatever the messages look like, each step on the order book is one of StreamData's.
ImplementsBook == BookSpec

\* While the strategy stays subscribed, the cached book comes to be the exchange's.
\* Binance: once it has a snapshot, which it asks for when a change arrives.
CatchesUp ==
  <>[](BookStream \in asked /\ ~ missed /\ (kind = "binance" => ids # 0))
    => <>[](known /\ cache = books[Current])
=============================================================================
