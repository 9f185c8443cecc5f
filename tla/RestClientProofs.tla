-------------------------- MODULE RestClientProofs --------------------------
(***************************************************************************)
(* Theorems about a call of the REST clients: what it returns, what it     *)
(* leaves at the exchange and why it fails, for any exchange, calls and    *)
(* filters, however prices move, orders are filled and messages are lost   *)
(* meanwhile.                                                              *)
(*                                                                         *)
(* First the five classes as one (Answers, AddsTo, IsRead).  The inductive *)
(* invariant RestInv then ties what a call has gathered to what the        *)
(* exchange knew when it was asked, the request under way to what the call *)
(* is missing, and the answer under way to what was served.  One lemma for *)
(* each step.                                                              *)
(***************************************************************************)
EXTENDS RestExchangeProofs

-----------------------------------------------------------------------------
(***************************************************************************)
(* The exchange that `kind' speaks to.                                     *)
(***************************************************************************)
\* What send_http_request reads of an answer to the request of a call.
ReadOf(c, json) ==
  CASE kind = "binance" -> Binance!Read(c, json) [] kind = "bybit" -> Bybit!Read(c, json)
    [] kind = "coinbase" -> Coinbase!Read(c, json)
    [] kind = "digifinex" -> Digifinex!Read(c, json) [] kind = "kraken" -> Kraken!Read(c, json)

\* The price and the name of a pair that the request of a call is made of.
PriceFor(c) == IF c.op = "add_order" /\ AsksPrice(c.order) THEN gathered[PriceOf(c.order.pair)] ELSE 0
NameListed == IF Listed = {} THEN None ELSE (CHOOSE o \in Listed : TRUE).pair_name

\* ReadBody reads an answer as that of the inner call.
LEMMA ReadsInner == \A json : ReadBody(json) = ReadOf(inner, json)
BY Zenon DEF ReadBody, ReadOf

\* `kind' is one of the five exchanges.
LEMMA FiveKinds ==
  ASSUME kind \in Kinds
  PROVE  kind \in {"binance", "bybit", "coinbase", "digifinex", "kraken"}
BY RestAssumption

\* The definitions for the exchange, for Binance.
LEMMA IsBinance ==
  ASSUME kind = "binance"
  PROVE  /\ \A r : (Refuses(r) <=> Binance!Refuses(market, r)) /\ Effect(r) = Binance!Effect(market, r)
                   /\ Body(r) = Binance!Body(market, r)
         /\ \A c, json : ReadOf(c, json) = Binance!Read(c, json)
         /\ \A c : HttpRequest(c) = Binance!Ask(c, NameListed, FilterFor(c))
         /\ ErrorBody = Binance!Error
<1>1. \A r : (Refuses(r) <=> Binance!Refuses(market, r)) /\ Effect(r) = Binance!Effect(market, r)
             /\ Body(r) = Binance!Body(market, r)
  BY Zenon DEF Refuses, Effect, Body
<1>2. \A c, json : ReadOf(c, json) = Binance!Read(c, json)
  BY Zenon DEF ReadOf
<1>3. \A c : HttpRequest(c) = Binance!Ask(c, NameListed, FilterFor(c))
  BY Zenon DEF HttpRequest, NameListed
<1>4. ErrorBody = Binance!Error
  BY Zenon DEF ErrorBody
<1> QED BY <1>1, <1>2, <1>3, <1>4

\* The definitions for the exchange, for Bybit.
LEMMA IsBybit ==
  ASSUME kind = "bybit"
  PROVE  /\ \A r : (Refuses(r) <=> Bybit!Refuses(market, r)) /\ Effect(r) = Bybit!Effect(market, r)
                   /\ Body(r) = Bybit!Body(market, r)
         /\ \A c, json : ReadOf(c, json) = Bybit!Read(c, json)
         /\ \A c : HttpRequest(c) = Bybit!Ask(c, PriceFor(c))
         /\ ErrorBody = Bybit!Error
<1>1. \A r : (Refuses(r) <=> Bybit!Refuses(market, r)) /\ Effect(r) = Bybit!Effect(market, r)
             /\ Body(r) = Bybit!Body(market, r)
  BY Zenon DEF Refuses, Effect, Body
<1>2. \A c, json : ReadOf(c, json) = Bybit!Read(c, json)
  BY Zenon DEF ReadOf
<1>3. \A c : HttpRequest(c) = Bybit!Ask(c, PriceFor(c))
  BY Zenon DEF HttpRequest, PriceFor
<1>4. ErrorBody = Bybit!Error
  BY Zenon DEF ErrorBody
<1> QED BY <1>1, <1>2, <1>3, <1>4

\* The definitions for the exchange, for Coinbase.
LEMMA IsCoinbase ==
  ASSUME kind = "coinbase"
  PROVE  /\ \A r : (Refuses(r) <=> Coinbase!Refuses(market, r)) /\ Effect(r) = Coinbase!Effect(market, r)
                   /\ Body(r) = Coinbase!Body(market, r)
         /\ \A c, json : ReadOf(c, json) = Coinbase!Read(c, json)
         /\ \A c : HttpRequest(c) = Coinbase!Ask(c)
         /\ ErrorBody = Coinbase!Error
<1>1. \A r : (Refuses(r) <=> Coinbase!Refuses(market, r)) /\ Effect(r) = Coinbase!Effect(market, r)
             /\ Body(r) = Coinbase!Body(market, r)
  BY Zenon DEF Refuses, Effect, Body
<1>2. \A c, json : ReadOf(c, json) = Coinbase!Read(c, json)
  BY Zenon DEF ReadOf
<1>3. \A c : HttpRequest(c) = Coinbase!Ask(c)
  BY Zenon DEF HttpRequest
<1>4. ErrorBody = Coinbase!Error
  BY Zenon DEF ErrorBody
<1> QED BY <1>1, <1>2, <1>3, <1>4

\* The definitions for the exchange, for Digifinex.
LEMMA IsDigifinex ==
  ASSUME kind = "digifinex"
  PROVE  /\ \A r : (Refuses(r) <=> Digifinex!Refuses(market, r)) /\ Effect(r) = Digifinex!Effect(market, r)
                   /\ Body(r) = Digifinex!Body(market, r)
         /\ \A c, json : ReadOf(c, json) = Digifinex!Read(c, json)
         /\ \A c : HttpRequest(c) = Digifinex!Ask(c, PriceFor(c))
         /\ ErrorBody = Digifinex!Error
<1>1. \A r : (Refuses(r) <=> Digifinex!Refuses(market, r)) /\ Effect(r) = Digifinex!Effect(market, r)
             /\ Body(r) = Digifinex!Body(market, r)
  BY Zenon DEF Refuses, Effect, Body
<1>2. \A c, json : ReadOf(c, json) = Digifinex!Read(c, json)
  BY Zenon DEF ReadOf
<1>3. \A c : HttpRequest(c) = Digifinex!Ask(c, PriceFor(c))
  BY Zenon DEF HttpRequest, PriceFor
<1>4. ErrorBody = Digifinex!Error
  BY Zenon DEF ErrorBody
<1> QED BY <1>1, <1>2, <1>3, <1>4

\* The definitions for the exchange, for Kraken.
LEMMA IsKraken ==
  ASSUME kind = "kraken"
  PROVE  /\ \A r : (Refuses(r) <=> Kraken!Refuses(market, r)) /\ Effect(r) = Kraken!Effect(market, r)
                   /\ Body(r) = Kraken!Body(market, r)
         /\ \A c, json : ReadOf(c, json) = Kraken!Read(c, json)
         /\ \A c : HttpRequest(c) = Kraken!Ask(c)
         /\ ErrorBody = Kraken!Error
<1>1. \A r : (Refuses(r) <=> Kraken!Refuses(market, r)) /\ Effect(r) = Kraken!Effect(market, r)
             /\ Body(r) = Kraken!Body(market, r)
  BY Zenon DEF Refuses, Effect, Body
<1>2. \A c, json : ReadOf(c, json) = Kraken!Read(c, json)
  BY Zenon DEF ReadOf
<1>3. \A c : HttpRequest(c) = Kraken!Ask(c)
  BY Zenon DEF HttpRequest
<1>4. ErrorBody = Kraken!Error
  BY Zenon DEF ErrorBody
<1> QED BY <1>1, <1>2, <1>3, <1>4

\* The exchange's own error is read as a failure.
LEMMA ErrorsFail ==
  ASSUME kind \in Kinds
  PROVE  \A c : ReadOf(c, ErrorBody) = Fail
<1>1. CASE kind = "binance" BY <1>1, IsBinance, BinanceError, Zenon
<1>2. CASE kind = "bybit" BY <1>2, IsBybit, BybitError, Zenon
<1>3. CASE kind = "coinbase" BY <1>3, IsCoinbase, CoinbaseError, Zenon
<1>4. CASE kind = "digifinex" BY <1>4, IsDigifinex, DigifinexError, Zenon
<1>5. CASE kind = "kraken" BY <1>5, IsKraken, KrakenError, Zenon
<1> QED BY <1>1, <1>2, <1>3, <1>4, <1>5, FiveKinds

\* A cancellation does nothing but cancel, an order that is open is cancelled, and the
\* answer reads as that.
LEMMA Cancels ==
  ASSUME kind \in Kinds, NEW c, c.op = "cancel_order", NEW r, r = HttpRequest(c)
  PROVE  /\ r.is = "http" /\ Effect(r) = Cancel(market, c.id)
         /\ IsOpen(market, c.id) /\ (kind = "binance" => IsName(NameListed, "")) => ~ Refuses(r)
         /\ ReadOf(c, Body(r)) = Success("void")
<1> DEFINE P(is, effect, refuses, read) ==
             /\ is = "http" /\ effect = Cancel(market, c.id)
             /\ IsOpen(market, c.id) /\ (kind = "binance" => IsName(NameListed, "")) => ~ refuses
             /\ read = Success("void")
<1>1. CASE kind = "binance"
  <2>1. r = Binance!Ask(c, NameListed, FilterFor(c)) BY <1>1, IsBinance, Zenon
  <2>2. P(r.is, Binance!Effect(market, r), Binance!Refuses(market, r), Binance!Read(c, Binance!Body(market, r)))
    BY <1>1, <2>1, BinanceCancels, Zenon
  <2> QED BY <1>1, <2>2, IsBinance, Zenon
<1>2. CASE kind = "bybit"
  <2>1. r = Bybit!Ask(c, PriceFor(c)) BY <1>2, IsBybit, Zenon
  <2>2. P(r.is, Bybit!Effect(market, r), Bybit!Refuses(market, r), Bybit!Read(c, Bybit!Body(market, r)))
    BY <1>2, <2>1, BybitCancels, Zenon
  <2> QED BY <1>2, <2>2, IsBybit, Zenon
<1>3. CASE kind = "coinbase"
  <2>1. r = Coinbase!Ask(c) BY <1>3, IsCoinbase, Zenon
  <2>2. P(r.is, Coinbase!Effect(market, r), Coinbase!Refuses(market, r), Coinbase!Read(c, Coinbase!Body(market, r)))
    BY <1>3, <2>1, CoinbaseCancels, Zenon
  <2> QED BY <1>3, <2>2, IsCoinbase, Zenon
<1>4. CASE kind = "digifinex"
  <2>1. r = Digifinex!Ask(c, PriceFor(c)) BY <1>4, IsDigifinex, Zenon
  <2>2. P(r.is, Digifinex!Effect(market, r), Digifinex!Refuses(market, r), Digifinex!Read(c, Digifinex!Body(market, r)))
    BY <1>4, <2>1, DigifinexCancels, Zenon
  <2> QED BY <1>4, <2>2, IsDigifinex, Zenon
<1>5. CASE kind = "kraken"
  <2>1. r = Kraken!Ask(c) BY <1>5, IsKraken, Zenon
  <2>2. P(r.is, Kraken!Effect(market, r), Kraken!Refuses(market, r), Kraken!Read(c, Kraken!Body(market, r)))
    BY <1>5, <2>1, KrakenCancels, Zenon
  <2> QED BY <1>5, <2>2, IsKraken, Zenon
<1> QED BY <1>1, <1>2, <1>3, <1>4, <1>5, FiveKinds

\* Whether a class offers a call; a call that is answered without a request of its own
\* needs none.
NotOfferedFor(c) ==
  \/ kind = "binance" /\ c.op = "get_closed_orders"
  \/ kind # "binance" /\ c.op = "add_order_confirm"
  \/ /\ c.op \in {"add_order", "add_order_confirm"}
     /\ \/ kind = "binance" /\ c.order.type = "TAKE_PROFIT"
        \/ kind = "coinbase" /\ c.order.type = "TRAILING_STOP_LOSS"
        \/ kind = "digifinex" /\ c.order.type \notin {"LIMIT", "MARKET"}
        \/ kind = "kraken" /\ c.order.type = "TRAILING_STOP_LOSS"

\* Throws makes an exception.
LEMMA ThrownIsThrown == \A x : Throws(x).is = "thrown"
BY DEF Throws

\* A call that the exchange does not offer throws.
LEMMA NotOfferedIsThrown ==
  ASSUME kind \in Kinds, NEW c, NotOfferedFor(c), NEW r, r = HttpRequest(c)
  PROVE  r.is = "thrown"
<1>0. \/ c.op = "get_closed_orders" \/ c.op = "add_order" \/ c.op = "add_order_confirm"
  BY DEF NotOfferedFor
<1>1. CASE kind = "binance"
  <2>1. r = Binance!Ask(c, NameListed, FilterFor(c)) BY <1>1, IsBinance, Zenon
  <2>2. \/ c.op = "get_closed_orders"
        \/ c.op \in {"add_order", "add_order_confirm"} /\ c.order.type = "TAKE_PROFIT"
    BY <1>1 DEF NotOfferedFor
  <2>3. r = Binance!Throws("not_implemented") \/ r = Binance!Throws("mb_exception")
    BY <2>1, <2>2, Zenon DEF Binance!Ask
  <2> QED BY <2>3, BinanceShares, ThrownIsThrown, Zenon
<1>2. CASE kind = "bybit"
  <2>1. r = Bybit!Ask(c, PriceFor(c)) BY <1>2, IsBybit, Zenon
  <2>2. c.op = "add_order_confirm"
    BY <1>2 DEF NotOfferedFor
  <2>3. r = Bybit!Throws("not_implemented")
    BY <2>1, <2>2, Zenon DEF Bybit!Ask
  <2> QED BY <2>3, BybitShares, ThrownIsThrown, Zenon
<1>3. CASE kind = "coinbase"
  <2>1. r = Coinbase!Ask(c) BY <1>3, IsCoinbase, Zenon
  <2>2. \/ c.op = "add_order_confirm"
        \/ c.op = "add_order" /\ c.order.type = "TRAILING_STOP_LOSS"
    BY <1>3 DEF NotOfferedFor
  <2>3. r = Coinbase!Throws("not_implemented") \/ r = Coinbase!Throws("mb_exception")
    BY <2>1, <2>2, Zenon DEF Coinbase!Ask
  <2> QED BY <2>3, CoinbaseShares, ThrownIsThrown, Zenon
<1>4. CASE kind = "digifinex"
  <2>1. r = Digifinex!Ask(c, PriceFor(c)) BY <1>4, IsDigifinex, Zenon
  <2>2. \/ c.op = "add_order_confirm"
        \/ c.op = "add_order" /\ c.order.type \notin {"LIMIT", "MARKET"}
    BY <1>4 DEF NotOfferedFor
  <2>3. r = Digifinex!Throws("not_implemented") \/ r = Digifinex!Throws("mb_exception")
    BY <2>1, <2>2, Zenon DEF Digifinex!Ask
  <2> QED BY <2>3, DigifinexShares, ThrownIsThrown, Zenon
<1>5. CASE kind = "kraken"
  <2>1. r = Kraken!Ask(c) BY <1>5, IsKraken, Zenon
  <2>2. \/ c.op = "add_order_confirm"
        \/ c.op = "add_order" /\ c.order.type = "TRAILING_STOP_LOSS"
    BY <1>5 DEF NotOfferedFor
  <2>3. r = Kraken!Throws("not_implemented") \/ r = Kraken!Throws("invalid_argument")
    BY <2>1, <2>2, Zenon DEF Kraken!Ask
  <2> QED BY <2>3, KrakenShares, ThrownIsThrown, Zenon
<1> QED BY <1>1, <1>2, <1>3, <1>4, <1>5, FiveKinds

\* An order that is asked for is entered as it was asked, its request is served, and the
\* answer reads as the id that the order gets.
LEMMA Adds ==
  ASSUME kind \in Kinds, IsExchange(market), NEW c, IsAdding(c),
         IsOrderRequest(c.order), ~ NotOfferedFor(c), PriceFor(c) \in Nat,
         IsFilter(c, FilterFor(c), filters), NEW r, r = HttpRequest(c)
  PROVE  AddsTo(market, c, PriceFor(c), filters, r.is, Refuses(r), Effect(r), ReadOf(c, Body(r)))
<1> DEFINE P(is, refuses, effect, read) == AddsTo(market, c, PriceFor(c), filters, is, refuses, effect, read)
<1> SUFFICES P(r.is, Refuses(r), Effect(r), ReadOf(c, Body(r)))
  OBVIOUS
<1>1. CASE kind = "binance"
  <2>1. r = Binance!Ask(c, NameListed, FilterFor(c)) BY <1>1, IsBinance, Zenon
  <2>2. c.order.type # "TAKE_PROFIT"
    BY <1>1, Zenon DEF NotOfferedFor, IsAdding
  <2>3. P(r.is, Binance!Refuses(market, r), Binance!Effect(market, r), Binance!Read(c, Binance!Body(market, r)))
    BY <1>1, <2>1, <2>2, BinanceAdds, Zenon
  <2> QED BY <1>1, <2>3, IsBinance DEF AddsTo
<1>2. CASE kind = "bybit"
  <2>1. r = Bybit!Ask(c, PriceFor(c)) BY <1>2, IsBybit, Zenon
  <2>2. c.op = "add_order"
    BY <1>2 DEF NotOfferedFor, IsAdding
  <2>3. P(r.is, Bybit!Refuses(market, r), Bybit!Effect(market, r), Bybit!Read(c, Bybit!Body(market, r)))
    BY <1>2, <2>1, <2>2, BybitAdds, Zenon
  <2> QED BY <1>2, <2>3, IsBybit DEF AddsTo
<1>3. CASE kind = "coinbase"
  <2>1. r = Coinbase!Ask(c) BY <1>3, IsCoinbase, Zenon
  <2>2. c.op = "add_order" /\ c.order.type # "TRAILING_STOP_LOSS"
    BY <1>3 DEF NotOfferedFor, IsAdding
  <2>3. P(r.is, Coinbase!Refuses(market, r), Coinbase!Effect(market, r), Coinbase!Read(c, Coinbase!Body(market, r)))
    BY <1>3, <2>1, <2>2, CoinbaseAdds, Zenon
  <2> QED BY <1>3, <2>3, IsCoinbase DEF AddsTo
<1>4. CASE kind = "digifinex"
  <2>1. r = Digifinex!Ask(c, PriceFor(c)) BY <1>4, IsDigifinex, Zenon
  <2>2. c.op = "add_order" /\ c.order.type \in {"LIMIT", "MARKET"}
    BY <1>4 DEF NotOfferedFor, IsAdding
  <2>3. P(r.is, Digifinex!Refuses(market, r), Digifinex!Effect(market, r), Digifinex!Read(c, Digifinex!Body(market, r)))
    BY <1>4, <2>1, <2>2, DigifinexAdds, Zenon
  <2> QED BY <1>4, <2>3, IsDigifinex DEF AddsTo
<1>5. CASE kind = "kraken"
  <2>1. r = Kraken!Ask(c) BY <1>5, IsKraken, Zenon
  <2>2. c.op = "add_order" /\ c.order.type # "TRAILING_STOP_LOSS"
    BY <1>5 DEF NotOfferedFor, IsAdding
  <2>3. P(r.is, Kraken!Refuses(market, r), Kraken!Effect(market, r), Kraken!Read(c, Kraken!Body(market, r)))
    BY <1>5, <2>1, <2>2, KrakenAdds, Zenon
  <2> QED BY <1>5, <2>3, IsKraken DEF AddsTo
<1> QED BY <1>1, <1>2, <1>3, <1>4, <1>5, FiveKinds

\* A request that changes nothing and is answered with v.
Answers(c, r, v) ==
  /\ r.is = "http" /\ ~ Refuses(r) /\ Effect(r) = market
  /\ ReadOf(c, Body(r)) = Success(v)

\* Binance's answers are answers of the exchange.
LEMMA BinanceIsAnswered ==
  ASSUME kind = "binance", NEW c
  PROVE  /\ \A r, v : BinanceAnswers(market, c, r, v) => Answers(c, r, v)
         /\ HttpRequest(c) = Binance!Ask(c, NameListed, FilterFor(c))
BY IsBinance, Zenon DEF BinanceAnswers, Answers

\* Bybit's answers are answers of the exchange.
LEMMA BybitIsAnswered ==
  ASSUME kind = "bybit", NEW c
  PROVE  /\ \A r, v : BybitAnswers(market, c, r, v) => Answers(c, r, v)
         /\ HttpRequest(c) = Bybit!Ask(c, PriceFor(c))
BY IsBybit, Zenon DEF BybitAnswers, Answers

\* Coinbase's answers are answers of the exchange.
LEMMA CoinbaseIsAnswered ==
  ASSUME kind = "coinbase", NEW c
  PROVE  /\ \A r, v : CoinbaseAnswers(market, c, r, v) => Answers(c, r, v)
         /\ HttpRequest(c) = Coinbase!Ask(c)
BY IsCoinbase, Zenon DEF CoinbaseAnswers, Answers

\* Digifinex's answers are answers of the exchange.
LEMMA DigifinexIsAnswered ==
  ASSUME kind = "digifinex", NEW c
  PROVE  /\ \A r, v : DigifinexAnswers(market, c, r, v) => Answers(c, r, v)
         /\ HttpRequest(c) = Digifinex!Ask(c, PriceFor(c))
BY IsDigifinex, Zenon DEF DigifinexAnswers, Answers

\* Kraken's answers are answers of the exchange.
LEMMA KrakenIsAnswered ==
  ASSUME kind = "kraken", NEW c
  PROVE  /\ \A r, v : KrakenAnswers(market, c, r, v) => Answers(c, r, v)
         /\ HttpRequest(c) = Kraken!Ask(c)
BY IsKraken, Zenon DEF KrakenAnswers, Answers

\* Only Kraken tells its status.
LEMMA StatusIs ==
  ASSUME kind \in Kinds, IsExchange(market), NEW c, c.op = "get_status", kind # "coinbase",
         NEW r, r = HttpRequest(c)
  PROVE  \E v : Answers(c, r, v) /\ (kind = "kraken" => v = market.status)
<1>1. CASE kind = "binance"
  <2>1. r = Binance!Ask(c, NameListed, FilterFor(c)) BY <1>1, BinanceIsAnswered, Zenon
  <2>2. \E v : BinanceAnswers(market, c, r, v) /\ (kind = "kraken" => v = market.status)
    BY <1>1, <2>1, BinanceStatus, Zenon
  <2> QED BY <1>1, <2>2, BinanceIsAnswered, Zenon
<1>2. CASE kind = "bybit"
  <2>1. r = Bybit!Ask(c, PriceFor(c)) BY <1>2, BybitIsAnswered, Zenon
  <2>2. \E v : BybitAnswers(market, c, r, v) /\ (kind = "kraken" => v = market.status)
    BY <1>2, <2>1, BybitStatus, Zenon
  <2> QED BY <1>2, <2>2, BybitIsAnswered, Zenon
<1>3. CASE kind = "digifinex"
  <2>1. r = Digifinex!Ask(c, PriceFor(c)) BY <1>3, DigifinexIsAnswered, Zenon
  <2>2. \E v : DigifinexAnswers(market, c, r, v) /\ (kind = "kraken" => v = market.status)
    BY <1>3, <2>1, DigifinexStatus, Zenon
  <2> QED BY <1>3, <2>2, DigifinexIsAnswered, Zenon
<1>4. CASE kind = "kraken"
  <2>1. r = Kraken!Ask(c) BY <1>4, KrakenIsAnswered, Zenon
  <2>2. \E v : KrakenAnswers(market, c, r, v) /\ (kind = "kraken" => v = market.status)
    BY <1>4, <2>1, KrakenStatus, Zenon
  <2> QED BY <1>4, <2>2, KrakenIsAnswered, Zenon
<1> QED BY <1>1, <1>2, <1>3, <1>4, FiveKinds

\* The price of a pair.
LEMMA PriceIs ==
  ASSUME kind \in Kinds, IsExchange(market), NEW c, c.op = "get_price", c.pair \in Pairs,
         NEW r, r = HttpRequest(c)
  PROVE  \E v : Answers(c, r, v) /\ (v = market.price[c.pair])
<1>1. CASE kind = "binance"
  <2>1. r = Binance!Ask(c, NameListed, FilterFor(c)) BY <1>1, BinanceIsAnswered, Zenon
  <2>2. \E v : BinanceAnswers(market, c, r, v) /\ (v = market.price[c.pair])
    BY <1>1, <2>1, BinancePrice, Zenon
  <2> QED BY <1>1, <2>2, BinanceIsAnswered, Zenon
<1>2. CASE kind = "bybit"
  <2>1. r = Bybit!Ask(c, PriceFor(c)) BY <1>2, BybitIsAnswered, Zenon
  <2>2. \E v : BybitAnswers(market, c, r, v) /\ (v = market.price[c.pair])
    BY <1>2, <2>1, BybitPrice, Zenon
  <2> QED BY <1>2, <2>2, BybitIsAnswered, Zenon
<1>3. CASE kind = "coinbase"
  <2>1. r = Coinbase!Ask(c) BY <1>3, CoinbaseIsAnswered, Zenon
  <2>2. \E v : CoinbaseAnswers(market, c, r, v) /\ (v = market.price[c.pair])
    BY <1>3, <2>1, CoinbasePrice, Zenon
  <2> QED BY <1>3, <2>2, CoinbaseIsAnswered, Zenon
<1>4. CASE kind = "digifinex"
  <2>1. r = Digifinex!Ask(c, PriceFor(c)) BY <1>4, DigifinexIsAnswered, Zenon
  <2>2. \E v : DigifinexAnswers(market, c, r, v) /\ (v = market.price[c.pair])
    BY <1>4, <2>1, DigifinexPrice, Zenon
  <2> QED BY <1>4, <2>2, DigifinexIsAnswered, Zenon
<1>5. CASE kind = "kraken"
  <2>1. r = Kraken!Ask(c) BY <1>5, KrakenIsAnswered, Zenon
  <2>2. \E v : KrakenAnswers(market, c, r, v) /\ (v = market.price[c.pair])
    BY <1>5, <2>1, KrakenPrice, Zenon
  <2> QED BY <1>5, <2>2, KrakenIsAnswered, Zenon
<1> QED BY <1>1, <1>2, <1>3, <1>4, <1>5, FiveKinds

\* The balances.
LEMMA BalancesAre ==
  ASSUME kind \in Kinds, IsExchange(market), NEW c, c.op = "get_balances",
         NEW r, r = HttpRequest(c)
  PROVE  \E v : Answers(c, r, v) /\ (v = market.balances)
<1>1. CASE kind = "binance"
  <2>1. r = Binance!Ask(c, NameListed, FilterFor(c)) BY <1>1, BinanceIsAnswered, Zenon
  <2>2. \E v : BinanceAnswers(market, c, r, v) /\ (v = market.balances)
    BY <1>1, <2>1, BinanceBalances, Zenon
  <2> QED BY <1>1, <2>2, BinanceIsAnswered, Zenon
<1>2. CASE kind = "bybit"
  <2>1. r = Bybit!Ask(c, PriceFor(c)) BY <1>2, BybitIsAnswered, Zenon
  <2>2. \E v : BybitAnswers(market, c, r, v) /\ (v = market.balances)
    BY <1>2, <2>1, BybitBalances, Zenon
  <2> QED BY <1>2, <2>2, BybitIsAnswered, Zenon
<1>3. CASE kind = "coinbase"
  <2>1. r = Coinbase!Ask(c) BY <1>3, CoinbaseIsAnswered, Zenon
  <2>2. \E v : CoinbaseAnswers(market, c, r, v) /\ (v = market.balances)
    BY <1>3, <2>1, CoinbaseBalances, Zenon
  <2> QED BY <1>3, <2>2, CoinbaseIsAnswered, Zenon
<1>4. CASE kind = "digifinex"
  <2>1. r = Digifinex!Ask(c, PriceFor(c)) BY <1>4, DigifinexIsAnswered, Zenon
  <2>2. \E v : DigifinexAnswers(market, c, r, v) /\ (v = market.balances)
    BY <1>4, <2>1, DigifinexBalances, Zenon
  <2> QED BY <1>4, <2>2, DigifinexIsAnswered, Zenon
<1>5. CASE kind = "kraken"
  <2>1. r = Kraken!Ask(c) BY <1>5, KrakenIsAnswered, Zenon
  <2>2. \E v : KrakenAnswers(market, c, r, v) /\ (v = market.balances)
    BY <1>5, <2>1, KrakenBalances, Zenon
  <2> QED BY <1>5, <2>2, KrakenIsAnswered, Zenon
<1> QED BY <1>1, <1>2, <1>3, <1>4, <1>5, FiveKinds

\* The pairs; Binance reads their filters with them.
LEMMA PairsAre ==
  ASSUME kind \in Kinds, IsExchange(market), NEW c, c.op = "get_tradable_pairs",
         NEW r, r = HttpRequest(c)
  PROVE  \E v : Answers(c, r, v) /\ (v = IF kind = "binance" THEN [p \in Pairs |-> Binance!FilterOf(p)] ELSE Pairs)
<1>1. CASE kind = "binance"
  <2>1. r = Binance!Ask(c, NameListed, FilterFor(c)) BY <1>1, BinanceIsAnswered, Zenon
  <2>2. \E v : BinanceAnswers(market, c, r, v) /\ (v = IF kind = "binance" THEN [p \in Pairs |-> Binance!FilterOf(p)] ELSE Pairs)
    BY <1>1, <2>1, BinancePairsAre, Zenon
  <2> QED BY <1>1, <2>2, BinanceIsAnswered, Zenon
<1>2. CASE kind = "bybit"
  <2>1. r = Bybit!Ask(c, PriceFor(c)) BY <1>2, BybitIsAnswered, Zenon
  <2>2. \E v : BybitAnswers(market, c, r, v) /\ (v = IF kind = "binance" THEN [p \in Pairs |-> Binance!FilterOf(p)] ELSE Pairs)
    BY <1>2, <2>1, BybitPairsAre, Zenon
  <2> QED BY <1>2, <2>2, BybitIsAnswered, Zenon
<1>3. CASE kind = "coinbase"
  <2>1. r = Coinbase!Ask(c) BY <1>3, CoinbaseIsAnswered, Zenon
  <2>2. \E v : CoinbaseAnswers(market, c, r, v) /\ (v = IF kind = "binance" THEN [p \in Pairs |-> Binance!FilterOf(p)] ELSE Pairs)
    BY <1>3, <2>1, CoinbasePairsAre, Zenon
  <2> QED BY <1>3, <2>2, CoinbaseIsAnswered, Zenon
<1>4. CASE kind = "digifinex"
  <2>1. r = Digifinex!Ask(c, PriceFor(c)) BY <1>4, DigifinexIsAnswered, Zenon
  <2>2. \E v : DigifinexAnswers(market, c, r, v) /\ (v = IF kind = "binance" THEN [p \in Pairs |-> Binance!FilterOf(p)] ELSE Pairs)
    BY <1>4, <2>1, DigifinexPairsAre, Zenon
  <2> QED BY <1>4, <2>2, DigifinexIsAnswered, Zenon
<1>5. CASE kind = "kraken"
  <2>1. r = Kraken!Ask(c) BY <1>5, KrakenIsAnswered, Zenon
  <2>2. \E v : KrakenAnswers(market, c, r, v) /\ (v = IF kind = "binance" THEN [p \in Pairs |-> Binance!FilterOf(p)] ELSE Pairs)
    BY <1>5, <2>1, KrakenPairsAre, Zenon
  <2> QED BY <1>5, <2>2, KrakenIsAnswered, Zenon
<1> QED BY <1>1, <1>2, <1>3, <1>4, <1>5, FiveKinds

\* The fee, of the exchanges that tell it.
LEMMA FeeIs ==
  ASSUME kind \in Kinds, IsExchange(market), NEW c, c.op = "get_fee", c.pair \in Pairs, kind \notin {"bybit", "digifinex"},
         NEW r, r = HttpRequest(c)
  PROVE  \E v : Answers(c, r, v) /\ (v = 100 * market.fee)
<1>1. CASE kind = "binance"
  <2>1. r = Binance!Ask(c, NameListed, FilterFor(c)) BY <1>1, BinanceIsAnswered, Zenon
  <2>2. \E v : BinanceAnswers(market, c, r, v) /\ (v = 100 * market.fee)
    BY <1>1, <2>1, BinanceFee, Zenon
  <2> QED BY <1>1, <2>2, BinanceIsAnswered, Zenon
<1>2. CASE kind = "coinbase"
  <2>1. r = Coinbase!Ask(c) BY <1>2, CoinbaseIsAnswered, Zenon
  <2>2. \E v : CoinbaseAnswers(market, c, r, v) /\ (v = 100 * market.fee)
    BY <1>2, <2>1, CoinbaseFee, Zenon
  <2> QED BY <1>2, <2>2, CoinbaseIsAnswered, Zenon
<1>3. CASE kind = "kraken"
  <2>1. r = Kraken!Ask(c) BY <1>3, KrakenIsAnswered, Zenon
  <2>2. \E v : KrakenAnswers(market, c, r, v) /\ (v = 100 * market.fee)
    <3>1. KrakenAnswers(market, c, r, market.fee * 100)
      BY <2>1, KrakenFee, Zenon
    <3>2. market.fee * 100 = 100 * market.fee
      BY DEF IsExchange
    <3> QED BY <3>1, <3>2
  <2> QED BY <1>3, <2>2, KrakenIsAnswered, Zenon
<1> QED BY <1>1, <1>2, <1>3, FiveKinds

\* The newest candles, except those of Digifinex.
LEMMA CandlesAre ==
  ASSUME kind \in Kinds, IsExchange(market), NEW c, c.op = "get_ohlcv", c.pair \in Pairs,
         c.interval \in Intervals, c.count \in Nat,
         NEW r, r = HttpRequest(c)
  PROVE  \E v : Answers(c, r, v) /\ (\/ kind = "digifinex" /\ c.count < Len(market.candles[c.pair][c.interval])
                             \/ v = Newest(market.candles[c.pair][c.interval], c.count))
<1>1. CASE kind = "binance"
  <2>1. r = Binance!Ask(c, NameListed, FilterFor(c)) BY <1>1, BinanceIsAnswered, Zenon
  <2>2. \E v : BinanceAnswers(market, c, r, v) /\ (\/ kind = "digifinex" /\ c.count < Len(market.candles[c.pair][c.interval])
                             \/ v = Newest(market.candles[c.pair][c.interval], c.count))
    BY <1>1, <2>1, BinanceCandlesAre, Zenon
  <2> QED BY <1>1, <2>2, BinanceIsAnswered, Zenon
<1>2. CASE kind = "bybit"
  <2>1. r = Bybit!Ask(c, PriceFor(c)) BY <1>2, BybitIsAnswered, Zenon
  <2>2. \E v : BybitAnswers(market, c, r, v) /\ (\/ kind = "digifinex" /\ c.count < Len(market.candles[c.pair][c.interval])
                             \/ v = Newest(market.candles[c.pair][c.interval], c.count))
    BY <1>2, <2>1, BybitCandlesAre, Zenon
  <2> QED BY <1>2, <2>2, BybitIsAnswered, Zenon
<1>3. CASE kind = "coinbase"
  <2>1. r = Coinbase!Ask(c) BY <1>3, CoinbaseIsAnswered, Zenon
  <2>2. \E v : CoinbaseAnswers(market, c, r, v) /\ (\/ kind = "digifinex" /\ c.count < Len(market.candles[c.pair][c.interval])
                             \/ v = Newest(market.candles[c.pair][c.interval], c.count))
    BY <1>3, <2>1, CoinbaseCandlesAre, Zenon
  <2> QED BY <1>3, <2>2, CoinbaseIsAnswered, Zenon
<1>4. CASE kind = "digifinex"
  <2>1. r = Digifinex!Ask(c, PriceFor(c)) BY <1>4, DigifinexIsAnswered, Zenon
  <2>2. \E v : DigifinexAnswers(market, c, r, v) /\ (\/ kind = "digifinex" /\ c.count < Len(market.candles[c.pair][c.interval])
                             \/ v = Newest(market.candles[c.pair][c.interval], c.count))
    BY <1>4, <2>1, DigifinexCandlesAre, Zenon
  <2> QED BY <1>4, <2>2, DigifinexIsAnswered, Zenon
<1>5. CASE kind = "kraken"
  <2>1. r = Kraken!Ask(c) BY <1>5, KrakenIsAnswered, Zenon
  <2>2. \E v : KrakenAnswers(market, c, r, v) /\ (\/ kind = "digifinex" /\ c.count < Len(market.candles[c.pair][c.interval])
                             \/ v = Newest(market.candles[c.pair][c.interval], c.count))
    BY <1>5, <2>1, KrakenCandlesAre, Zenon
  <2> QED BY <1>5, <2>2, KrakenIsAnswered, Zenon
<1> QED BY <1>1, <1>2, <1>3, <1>4, <1>5, FiveKinds

\* The orders that are open.
LEMMA OpenOrdersAre ==
  ASSUME kind \in Kinds, IsExchange(market), HoldsOnly(market, kind), NEW c, c.op = "get_open_orders",
         NEW r, r = HttpRequest(c)
  PROVE  \E v : Answers(c, r, v) /\ (SameOrders(v, InState(market, {"open"})))
<1>1. CASE kind = "binance"
  <2>1. r = Binance!Ask(c, NameListed, FilterFor(c)) BY <1>1, BinanceIsAnswered, Zenon
  <2>2. \E v : BinanceAnswers(market, c, r, v) /\ (SameOrders(v, InState(market, {"open"})))
    BY <1>1, <2>1, BinanceOpenOrders, Zenon
  <2> QED BY <1>1, <2>2, BinanceIsAnswered, Zenon
<1>2. CASE kind = "bybit"
  <2>1. r = Bybit!Ask(c, PriceFor(c)) BY <1>2, BybitIsAnswered, Zenon
  <2>2. \E v : BybitAnswers(market, c, r, v) /\ (SameOrders(v, InState(market, {"open"})))
    BY <1>2, <2>1, BybitOpenOrders, Zenon
  <2> QED BY <1>2, <2>2, BybitIsAnswered, Zenon
<1>3. CASE kind = "coinbase"
  <2>1. r = Coinbase!Ask(c) BY <1>3, CoinbaseIsAnswered, Zenon
  <2>2. \E v : CoinbaseAnswers(market, c, r, v) /\ (SameOrders(v, InState(market, {"open"})))
    BY <1>3, <2>1, CoinbaseOrdersListed, Zenon
  <2> QED BY <1>3, <2>2, CoinbaseIsAnswered, Zenon
<1>4. CASE kind = "digifinex"
  <2>1. r = Digifinex!Ask(c, PriceFor(c)) BY <1>4, DigifinexIsAnswered, Zenon
  <2>2. \E v : DigifinexAnswers(market, c, r, v) /\ (SameOrders(v, InState(market, {"open"})))
    BY <1>4, <2>1, DigifinexOpenOrders, Zenon
  <2> QED BY <1>4, <2>2, DigifinexIsAnswered, Zenon
<1>5. CASE kind = "kraken"
  <2>1. r = Kraken!Ask(c) BY <1>5, KrakenIsAnswered, Zenon
  <2>2. \E v : KrakenAnswers(market, c, r, v) /\ (SameOrders(v, InState(market, {"open"})))
    BY <1>5, <2>1, KrakenOpenOrders, Zenon
  <2> QED BY <1>5, <2>2, KrakenIsAnswered, Zenon
<1> QED BY <1>1, <1>2, <1>3, <1>4, <1>5, FiveKinds

\* The orders that are closed.
LEMMA ClosedOrdersAre ==
  ASSUME kind \in Kinds, IsExchange(market), HoldsOnly(market, kind), kind # "binance",
         NEW c, c.op = "get_closed_orders",
         NEW r, r = HttpRequest(c)
  PROVE  \E v : Answers(c, r, v) /\ (SameOrders(v, InState(market, {"closed"})))
<1>1. CASE kind = "bybit"
  <2>1. r = Bybit!Ask(c, PriceFor(c)) BY <1>1, BybitIsAnswered, Zenon
  <2>2. \E v : BybitAnswers(market, c, r, v) /\ (SameOrders(v, InState(market, {"closed"})))
    BY <1>1, <2>1, BybitClosedOrders, Zenon
  <2> QED BY <1>1, <2>2, BybitIsAnswered, Zenon
<1>2. CASE kind = "coinbase"
  <2>1. r = Coinbase!Ask(c) BY <1>2, CoinbaseIsAnswered, Zenon
  <2>2. \E v : CoinbaseAnswers(market, c, r, v) /\ (SameOrders(v, InState(market, {"closed"})))
    BY <1>2, <2>1, CoinbaseOrdersListed, Zenon
  <2> QED BY <1>2, <2>2, CoinbaseIsAnswered, Zenon
<1>3. CASE kind = "digifinex"
  <2>1. r = Digifinex!Ask(c, PriceFor(c)) BY <1>3, DigifinexIsAnswered, Zenon
  <2>2. \E v : DigifinexAnswers(market, c, r, v) /\ (SameOrders(v, InState(market, {"closed"})))
    BY <1>3, <2>1, DigifinexClosedOrders, Zenon
  <2> QED BY <1>3, <2>2, DigifinexIsAnswered, Zenon
<1>4. CASE kind = "kraken"
  <2>1. r = Kraken!Ask(c) BY <1>4, KrakenIsAnswered, Zenon
  <2>2. \E v : KrakenAnswers(market, c, r, v) /\ (SameOrders(v, InState(market, {"closed"})))
    BY <1>4, <2>1, KrakenClosedOrders, Zenon
  <2> QED BY <1>4, <2>2, KrakenIsAnswered, Zenon
<1> QED BY <1>1, <1>2, <1>3, <1>4, FiveKinds

\* The prices of all the pairs in one answer.
LEMMA PricesAre ==
  ASSUME kind \in {"binance", "kraken"}, NEW c, c.op = "get_prices", c.pairs \subseteq Pairs,
         NEW r, r = HttpRequest(c)
  PROVE  \E v : /\ Answers(c, r, v)
                /\ PricesRead(v, market, c.pairs) \/ (kind = "kraken" /\ OldNameRead(v, c.pairs))
<1>1. CASE kind = "binance"
  <2>1. r = Binance!Ask(c, NameListed, FilterFor(c)) BY <1>1, BinanceIsAnswered, Zenon
  <2>2. \E v : BinanceAnswers(market, c, r, v) /\ PricesRead(v, market, c.pairs)
    BY <2>1, BinancePricesAre
  <2> QED BY <1>1, <2>2, BinanceIsAnswered, Zenon
<1>2. CASE kind = "kraken"
  <2>1. r = Kraken!Ask(c) BY <1>2, KrakenIsAnswered, Zenon
  <2>2. \E v : /\ KrakenAnswers(market, c, r, v)
               /\ PricesRead(v, market, c.pairs) \/ OldNameRead(v, c.pairs)
    BY <2>1, KrakenPricesAre
  <2> QED BY <1>2, <2>2, KrakenIsAnswered, Zenon
<1> QED BY <1>1, <1>2

\* The order book; Kraken's bids may be read past their end.
LEMMA BookIs ==
  ASSUME kind \in Kinds, IsExchange(market), NEW c, c.op = "get_order_book", c.pair \in Pairs,
         c.depth \in Nat \ {0}, NEW r, r = HttpRequest(c)
  PROVE  /\ r.is = "http" /\ ~ Refuses(r) /\ Effect(r) = market
         /\ \/ kind = "kraken" /\ ReadOf(c, Body(r)) = Undefined
            \/ \E v : ReadOf(c, Body(r)) = Success(v) /\ SameBook(v, market.book[c.pair], c.depth)
<1>0. c.depth \in Nat
  OBVIOUS
<1>1. CASE kind = "binance"
  <2>1. r = Binance!Ask(c, NameListed, FilterFor(c)) BY <1>1, BinanceIsAnswered, Zenon
  <2>2. PICK v : BinanceAnswers(market, c, r, v) /\ SameBook(v, market.book[c.pair], c.depth)
    BY <1>0, <1>1, <2>1, BinanceBookIs, Zenon
  <2>3. Answers(c, r, v)
    BY <1>1, <2>2, BinanceIsAnswered, Zenon
  <2> QED BY <2>2, <2>3, Zenon DEF Answers
<1>2. CASE kind = "bybit"
  <2>1. r = Bybit!Ask(c, PriceFor(c)) BY <1>2, BybitIsAnswered, Zenon
  <2>2. PICK v : BybitAnswers(market, c, r, v) /\ SameBook(v, market.book[c.pair], c.depth)
    BY <1>0, <1>2, <2>1, BybitBookIs, Zenon
  <2>3. Answers(c, r, v)
    BY <1>2, <2>2, BybitIsAnswered, Zenon
  <2> QED BY <2>2, <2>3, Zenon DEF Answers
<1>3. CASE kind = "coinbase"
  <2>1. r = Coinbase!Ask(c) BY <1>3, CoinbaseIsAnswered, Zenon
  <2>2. PICK v : CoinbaseAnswers(market, c, r, v) /\ SameBook(v, market.book[c.pair], c.depth)
    BY <1>0, <1>3, <2>1, CoinbaseBookIs, Zenon
  <2>3. Answers(c, r, v)
    BY <1>3, <2>2, CoinbaseIsAnswered, Zenon
  <2> QED BY <2>2, <2>3, Zenon DEF Answers
<1>4. CASE kind = "digifinex"
  <2>1. r = Digifinex!Ask(c, PriceFor(c)) BY <1>4, DigifinexIsAnswered, Zenon
  <2>2. PICK v : DigifinexAnswers(market, c, r, v) /\ SameBook(v, market.book[c.pair], c.depth)
    BY <1>0, <1>4, <2>1, DigifinexBookIs, Zenon
  <2>3. Answers(c, r, v)
    BY <1>4, <2>2, DigifinexIsAnswered, Zenon
  <2> QED BY <2>2, <2>3, Zenon DEF Answers
<1>5. CASE kind = "kraken"
  <2>1. r = Kraken!Ask(c) BY <1>5, KrakenIsAnswered, Zenon
  <2>2. /\ r.is = "http" /\ ~ Kraken!Refuses(market, r) /\ Kraken!Effect(market, r) = market
        /\ \/ Kraken!Read(c, Kraken!Body(market, r)) = Undefined
           \/ \E v : /\ Kraken!Read(c, Kraken!Body(market, r)) = Success(v)
                     /\ SameBook(v, market.book[c.pair], c.depth)
    BY <1>0, <1>5, <2>1, KrakenBookIs, Zenon
  <2> QED BY <1>5, <2>2, IsKraken, Zenon
<1> QED BY <1>1, <1>2, <1>3, <1>4, <1>5, FiveKinds

-----------------------------------------------------------------------------
(***************************************************************************)
(* What the answer of a request is worth.                                  *)
(***************************************************************************)
\* The answer that was read is what the exchange knew, up to the exceptions of the code.
Fits(c, v, known) ==
  /\ c.op = "get_status" /\ kind = "kraken" => v = known
  /\ c.op = "get_tradable_pairs" => v = IF kind = "binance" THEN [p \in Pairs |-> Binance!FilterOf(p)] ELSE Pairs
  /\ c.op = "get_ohlcv" => \/ kind = "digifinex" /\ c.count < Len(Market.candles[c.pair][c.interval])
                           \/ v = known
  /\ c.op = "get_price" => v = known /\ v \in Nat
  /\ c.op = "get_prices" =>
       /\ known = [p \in c.pairs |-> known[p]]
       /\ \/ /\ DOMAIN v = {Name(p, "") : p \in c.pairs}
             /\ \A p \in c.pairs : v[Name(p, "")] = known[p]
          \/ kind = "kraken" /\ OldNameRead(v, c.pairs)
  /\ c.op = "get_order_book" => SameBook(v, known, c.depth)
  /\ c.op = "get_fee" => v = 100 * Market.fee
  /\ c.op = "get_balances" => v = known
  /\ c.op \in {"get_open_orders", "get_closed_orders"} => SameOrders(v, known)

IsRead(c, result, known) ==
  \/ kind = "kraken" /\ c.op = "get_order_book" /\ result = Undefined
  \/ result.is = "success" /\ Fits(c, result.value, known)

\* A success, a failure and an exception differ.
LEMMA ResultsTold ==
  /\ \A v : Success(v).is = "success" /\ Success(v).value = v
  /\ Fail.is = "fail" /\ Undefined.is = "undefined"
BY DEF Success, Fail, Undefined

Queries == {"get_status", "get_tradable_pairs", "get_ohlcv", "get_price", "get_prices", "get_order_book",
            "get_fee", "get_balances", "get_open_orders", "get_closed_orders"}

\* A query that sends a request of its own.
IsQuery(c) ==
  /\ c.op \in Queries
  /\ c.op = "get_prices" => kind \in {"binance", "kraken"}
  /\ c.op = "get_fee" => kind \notin {"bybit", "digifinex"}
  /\ c.op = "get_status" => kind # "coinbase"
  /\ c.op = "get_closed_orders" => kind # "binance"

\* The exchange holds what its class can hold; its candles and its fee stay.
MarketInv ==
  /\ kind \in Kinds /\ IsExchange(market) /\ HoldsOnly(market, kind)
  /\ market.candles = Market.candles /\ market.fee = Market.fee

\* The arguments of a call.
LEMMA CallHas ==
  ASSUME NEW c, IsCall(c)
  PROVE  /\ c.op \in Queries \cup {"get_order_books", "cancel_order", "add_order", "add_order_confirm"}
         /\ c.op \in {"get_ohlcv", "get_price", "get_fee", "get_order_book"} => c.pair \in Pairs
         /\ c.op = "get_ohlcv" => c.interval \in Intervals /\ c.count \in Nat
         /\ c.op \in {"get_prices", "get_order_books"} => c.pairs \subseteq Pairs
         /\ c.op \in {"get_order_book", "get_order_books"} => c.depth \in Nat \ {0}
         /\ c.op \in {"add_order", "add_order_confirm"} => IsOrderRequest(c.order)
<1>1. CASE c \in [op : {"get_status", "get_tradable_pairs", "get_balances", "get_open_orders", "get_closed_orders"}]
  BY <1>1 DEF Queries
<1>2. CASE c \in [op : {"get_ohlcv"}, pair : Pairs, interval : Intervals, count : Nat]
  BY <1>2 DEF Queries
<1>3. CASE c \in [op : {"get_price", "get_fee"}, pair : Pairs]
  BY <1>3 DEF Queries
<1>4. CASE c \in [op : {"get_prices"}, pairs : SUBSET Pairs]
  BY <1>4 DEF Queries
<1>5. CASE c \in [op : {"get_order_book"}, pair : Pairs, depth : Nat \ {0}]
  BY <1>5 DEF Queries
<1>6. CASE c \in [op : {"get_order_books"}, pairs : SUBSET Pairs, depth : Nat \ {0}]
  BY <1>6 DEF Queries
<1>7. CASE c.op = "cancel_order"
  BY <1>7 DEF Queries
<1>8. CASE c.op \in {"add_order", "add_order_confirm"} /\ IsOrderRequest(c.order)
  BY <1>8 DEF Queries
<1> QED BY <1>1, <1>2, <1>3, <1>4, <1>5, <1>6, <1>7, <1>8, Zenon DEF IsCall

\* The call that a call for the open orders makes.
LEMMA OpenOrdersCall == [op |-> "get_open_orders"].op = "get_open_orders" /\ IsCall([op |-> "get_open_orders"])
<1>1. [op |-> "get_open_orders"] \in [op : {"get_status", "get_tradable_pairs", "get_balances", "get_open_orders",
                                            "get_closed_orders"}]
  OBVIOUS
<1> QED BY <1>1, Zenon DEF IsCall

\* The call that a call for a price makes.
LEMMA PriceCall ==
  ASSUME NEW p \in Pairs
  PROVE  IsCall(PriceOf(p)) /\ PriceOf(p).op = "get_price" /\ PriceOf(p).pair = p
<1>1. PriceOf(p) \in [op : {"get_price", "get_fee"}, pair : Pairs]
  BY DEF PriceOf
<1> QED BY <1>1, Zenon DEF IsCall, PriceOf

\* The call that a call for a book makes.
LEMMA BookCall ==
  ASSUME NEW p \in Pairs, NEW depth \in Nat \ {0}
  PROVE  /\ IsCall(BookOf(p, depth)) /\ BookOf(p, depth).op = "get_order_book"
         /\ BookOf(p, depth).pair = p /\ BookOf(p, depth).depth = depth
<1>1. BookOf(p, depth) \in [op : {"get_order_book"}, pair : Pairs, depth : Nat \ {0}]
  BY DEF BookOf
<1>2. IsCall(BookOf(p, depth))
  BY <1>1, Zenon DEF IsCall
<1> QED BY <1>2 DEF BookOf

\* A query changes nothing, it is served, and what is read of the answer fits.
LEMMA QueryIsServed ==
  ASSUME MarketInv, NEW c, IsCall(c), IsQuery(c), NEW r, r = HttpRequest(c)
  PROVE  /\ r.is = "http" /\ ~ Refuses(r) /\ Effect(r) = market
         /\ IsRead(c, ReadOf(c, Body(r)), Known(c))
<1>0. kind \in Kinds /\ IsExchange(market) /\ HoldsOnly(market, kind)
  BY DEF MarketInv
<1>k. market.candles = Market.candles /\ market.fee = Market.fee
  BY DEF MarketInv
<1>a. \A v : Answers(c, r, v) /\ Fits(c, v, Known(c)) =>
               /\ r.is = "http" /\ ~ Refuses(r) /\ Effect(r) = market
               /\ IsRead(c, ReadOf(c, Body(r)), Known(c))
  BY ResultsTold, Zenon DEF Answers, IsRead
<1>1. CASE c.op = "get_status"
  <2>1. kind # "coinbase"
    BY <1>1 DEF IsQuery
  <2>2. PICK v : Answers(c, r, v) /\ (kind = "kraken" => v = market.status)
    BY <1>0, <1>1, <2>1, StatusIs, Zenon
  <2>3. Known(c) = market.status
    BY <1>1, Zenon DEF Known
  <2>4. Fits(c, v, Known(c))
    BY <1>1, <2>2, <2>3, Zenon DEF Fits
  <2> QED BY <1>a, <2>2, <2>4, Zenon
<1>2. CASE c.op = "get_tradable_pairs"
  <2>2. PICK v : Answers(c, r, v) /\ v = IF kind = "binance" THEN [p \in Pairs |-> Binance!FilterOf(p)] ELSE Pairs
    BY <1>0, <1>2, PairsAre, Zenon
  <2>4. Fits(c, v, Known(c))
    BY <1>2, <2>2, Zenon DEF Fits
  <2> QED BY <1>a, <2>2, <2>4, Zenon
<1>3. CASE c.op = "get_ohlcv"
  <2>1. c.pair \in Pairs /\ c.interval \in Intervals /\ c.count \in Nat
    BY <1>3, CallHas
  <2>2. PICK v : /\ Answers(c, r, v)
                 /\ \/ kind = "digifinex" /\ c.count < Len(market.candles[c.pair][c.interval])
                    \/ v = Newest(market.candles[c.pair][c.interval], c.count)
    BY <1>0, <1>3, <2>1, CandlesAre, Zenon
  <2>3. Known(c) = Newest(market.candles[c.pair][c.interval], c.count)
    BY <1>3, Zenon DEF Known
  <2>4. Fits(c, v, Known(c))
    BY <1>3, <1>k, <2>2, <2>3, Zenon DEF Fits
  <2> QED BY <1>a, <2>2, <2>4, Zenon
<1>4. CASE c.op = "get_price"
  <2>1. c.pair \in Pairs
    BY <1>4, CallHas
  <2>2. PICK v : Answers(c, r, v) /\ v = market.price[c.pair]
    BY <1>0, <1>4, <2>1, PriceIs, Zenon
  <2>3. Known(c) = market.price[c.pair]
    BY <1>4, Zenon DEF Known
  <2>4. v \in Nat
    BY <1>0, <2>1, <2>2 DEF IsExchange
  <2>5. Fits(c, v, Known(c))
    BY <1>4, <2>2, <2>3, <2>4, Zenon DEF Fits
  <2> QED BY <1>a, <2>2, <2>5, Zenon
<1>5. CASE c.op = "get_prices"
  <2>1. c.pairs \subseteq Pairs /\ kind \in {"binance", "kraken"}
    BY <1>5, CallHas DEF IsQuery
  <2>2. PICK v : /\ Answers(c, r, v)
                 /\ PricesRead(v, market, c.pairs) \/ (kind = "kraken" /\ OldNameRead(v, c.pairs))
    BY <1>5, <2>1, PricesAre, Zenon
  <2>3. Known(c) = [p \in c.pairs |-> market.price[p]]
    BY <1>5, Zenon DEF Known
  <2> DEFINE known == Known(c)
  <2>4. known = [p \in c.pairs |-> known[p]] /\ \A p \in c.pairs : known[p] = market.price[p]
    BY <2>3
  <2> HIDE DEF known
  <2>5. Fits(c, v, known)
    BY <1>5, <2>2, <2>4, Zenon DEF Fits, PricesRead
  <2> QED BY <1>a, <2>2, <2>5, Zenon DEF known
<1>6. CASE c.op = "get_order_book"
  <2>1. c.pair \in Pairs /\ c.depth \in Nat \ {0}
    BY <1>6, CallHas
  <2>2. /\ r.is = "http" /\ ~ Refuses(r) /\ Effect(r) = market
        /\ \/ kind = "kraken" /\ ReadOf(c, Body(r)) = Undefined
           \/ \E v : ReadOf(c, Body(r)) = Success(v) /\ SameBook(v, market.book[c.pair], c.depth)
    BY <1>0, <1>6, <2>1, BookIs, Zenon
  <2>3. Known(c) = market.book[c.pair]
    BY <1>6, Zenon DEF Known
  <2>4. \A v : SameBook(v, market.book[c.pair], c.depth) => Fits(c, v, Known(c))
    BY <1>6, <2>3, Zenon DEF Fits
  <2> QED BY <1>6, <2>2, <2>4, ResultsTold, Zenon DEF IsRead
<1>7. CASE c.op = "get_fee"
  <2>1. c.pair \in Pairs /\ kind \notin {"bybit", "digifinex"}
    BY <1>7, CallHas DEF IsQuery
  <2>2. PICK v : Answers(c, r, v) /\ v = 100 * market.fee
    BY <1>0, <1>7, <2>1, FeeIs, Zenon
  <2>4. Fits(c, v, Known(c))
    BY <1>7, <1>k, <2>2, Zenon DEF Fits
  <2> QED BY <1>a, <2>2, <2>4, Zenon
<1>8. CASE c.op = "get_balances"
  <2>2. PICK v : Answers(c, r, v) /\ v = market.balances
    BY <1>0, <1>8, BalancesAre, Zenon
  <2>3. Known(c) = market.balances
    BY <1>8, Zenon DEF Known
  <2>4. Fits(c, v, Known(c))
    BY <1>8, <2>2, <2>3, Zenon DEF Fits
  <2> QED BY <1>a, <2>2, <2>4, Zenon
<1>9. CASE c.op = "get_open_orders"
  <2>2. PICK v : Answers(c, r, v) /\ SameOrders(v, InState(market, {"open"}))
    BY <1>0, <1>9, OpenOrdersAre, Zenon
  <2>3. Known(c) = InState(market, {"open"})
    BY <1>9, Zenon DEF Known
  <2>4. Fits(c, v, Known(c))
    BY <1>9, <2>2, <2>3, Zenon DEF Fits
  <2> QED BY <1>a, <2>2, <2>4, Zenon
<1>10. CASE c.op = "get_closed_orders"
  <2>1. kind # "binance"
    BY <1>10 DEF IsQuery
  <2>2. PICK v : Answers(c, r, v) /\ SameOrders(v, InState(market, {"closed"}))
    BY <1>0, <1>10, <2>1, ClosedOrdersAre, Zenon
  <2>3. Known(c) = InState(market, {"closed"})
    BY <1>10, Zenon DEF Known
  <2>4. Fits(c, v, Known(c))
    BY <1>10, <2>2, <2>3, Zenon DEF Fits
  <2> QED BY <1>a, <2>2, <2>4, Zenon
<1>n. c.op \in Queries
  BY DEF IsQuery
<1> QED BY <1>1, <1>2, <1>3, <1>4, <1>5, <1>6, <1>7, <1>8, <1>9, <1>10, <1>n DEF Queries

-----------------------------------------------------------------------------
(***************************************************************************)
(* The invariant.                                                          *)
(***************************************************************************)
OpenOrdersOf == [op |-> "get_open_orders"]

\* The filters that the client has are those of the exchange.
FiltersInv == \/ filters = None
              \/ kind = "binance" /\ filters = [p \in Pairs |-> Binance!FilterOf(p)]

CallInv == /\ phase \in {"idle", "asking", "sent", "answered"}
           /\ phase # "idle" \/ outcome.is # "none" => call \in Calls

\* What a call has gathered fits what the exchange knew.
GatheredInv ==
  phase # "idle" =>
    /\ DOMAIN gathered \subseteq Before(call) /\ DOMAIN gathered \subseteq DOMAIN truth
    /\ \A c \in DOMAIN gathered : \A v \in {gathered[c]}, known \in {truth[c]} : Fits(c, v, known)

\* A request belongs to what is missing, or to the call when nothing is.
SentInv ==
  /\ phase \in {"sent", "answered"} => \/ inner \in Missing
                                       \/ Missing = {} /\ inner = call /\ ~ AnswersItself
  /\ phase = "sent" => /\ \A c \in {inner} : request = HttpRequest(c)
                       /\ request.is # "thrown"

\* Binance listed every order that is still open.
ListedInv ==
  phase # "idle" /\ kind = "binance" /\ call.op = "cancel_order" /\ OpenOrdersOf \in DOMAIN truth =>
    /\ truth[OpenOrdersOf] \in Seq(Orders)
    /\ \A i \in DOMAIN market.orders : market.orders[i].state = "open" =>
         \E j \in DOMAIN truth[OpenOrdersOf] : truth[OpenOrdersOf][j].id = market.orders[i].id

\* Nothing is entered before the request is served; what is entered is the order asked for.
EnteredInv ==
  /\ phase \in {"asking", "sent"} => entered = {}
  /\ \/ entered = {}
     \/ Adding /\ \E id \in DOMAIN market.orders :
                     /\ entered = {id}
                     /\ \A o \in {market.orders[id]} : AsAsked(o)

\* The id that a call to add an order returns.
IdIn(v) == IF call.op = "add_order" THEN v ELSE v.order_id

ReadsFail(c, json) == ReadOf(c, json) = Fail
ReadsAs(c, json, known) == IsRead(c, ReadOf(c, json), known)
ReadsId(c, json, id) == Text(id) = IdIn(ReadOf(c, json).value)

\* What is read of the answer, and the id in it.
FailsToRead == \A c \in {inner}, json \in {response.body} : ReadsFail(c, json)
ReadsRight == \A c \in {inner}, json \in {response.body}, known \in {truth[inner]} : ReadsAs(c, json, known)
ReadsEntered == \A c \in {inner}, json \in {response.body} :
                  \E id \in DOMAIN market.orders : entered = {id} /\ ReadsId(c, json, id)

WasRefused ==
  /\ response.code # 200 \/ FailsToRead
  /\ refused \/ (call.op = "cancel_order" /\ ~ IsOpen(market, call.id))
  /\ entered = {}

WasServed ==
  /\ response.code = 200 /\ inner \in DOMAIN truth /\ ReadsRight
  /\ inner.op = "cancel_order" => ~ IsOpen(market, inner.id)
  /\ IF IsAdding(inner) THEN ReadsEntered ELSE entered = {}

AnsweredInv == phase = "answered" => WasRefused \/ WasServed

\* What holds when a call has ended.
EndedInv ==
  /\ Returned => \A v \in {outcome.value} : Agrees(v)
  /\ Returned /\ Adding =>
       \A v \in {outcome.value} : \E id \in DOMAIN market.orders : entered = {id} /\ Text(id) = IdIn(v)
  /\ Thrown /\ ~ lost => entered = {}
  /\ CancelledIsNotOpen
  /\ FailsForAReason

RestInv ==
  /\ MarketInv /\ FiltersInv /\ CallInv /\ GatheredInv /\ SentInv /\ ListedInv /\ EnteredInv /\ AnsweredInv
  /\ EndedInv

-----------------------------------------------------------------------------
(* What depends on nothing that a step changes. *)
LEMMA KindStays ==
  ASSUME kind' = kind
  PROVE  /\ \A c, v, known : Fits(c, v, known)' <=> Fits(c, v, known)
         /\ \A c, json : ReadOf(c, json)' = ReadOf(c, json)
<1>1. \A book : SidesAreNamed(book)' <=> SidesAreNamed(book)
  BY DEF SidesAreNamed
<1>2. \A x, y : SameLevels(x, y)' <=> SameLevels(x, y)
  BY DEF SameLevels
<1>3. ASSUME NEW v, NEW known, NEW depth
      PROVE  SameBook(v, known, depth)' <=> SameBook(v, known, depth)
  BY <1>1, <1>2, Zenon DEF SameBook
<1>4. \A type : TypeRead(type)' = TypeRead(type)
  BY Zenon DEF TypeRead
<1>5. \A p : Named(p)' = Named(p)
  BY Zenon DEF Named
<1>6. ASSUME NEW v, NEW known
      PROVE  SameOrders(v, known)' <=> SameOrders(v, known)
  BY <1>4, <1>5, Zenon DEF SameOrders
<1>7. ASSUME NEW c, NEW v, NEW known
      PROVE  Fits(c, v, known)' <=> Fits(c, v, known)
  BY <1>3, <1>6, Zenon DEF Fits
<1>8. ASSUME NEW c, NEW json
      PROVE  ReadOf(c, json)' = ReadOf(c, json)
  BY Zenon DEF ReadOf
<1> QED BY <1>7, <1>8, Zenon

\* What a call sends depends on the exchange, its filters, the call and what was gathered.
LEMMA RequestStays ==
  ASSUME UNCHANGED <<kind, filters, call, gathered>>
  PROVE  /\ \A c : HttpRequest(c)' = HttpRequest(c)
         /\ Missing' = Missing /\ (AnswersItself' <=> AnswersItself)
         /\ \A o : AsAsked(o)' <=> AsAsked(o)
<1>0. kind' = kind /\ filters' = filters /\ call' = call /\ gathered' = gathered
  OBVIOUS
<1>1. \A o : AsksPrice(o)' <=> AsksPrice(o)
  BY <1>0, Zenon DEF AsksPrice
<1>2. \A c : Loops(c)' <=> Loops(c)
  BY <1>0, Zenon DEF Loops
<1>3. \A c : Before(c)' = Before(c)
  BY <1>0, <1>1, <1>2, Zenon DEF Before
<1>4. Missing' = Missing
  BY <1>0, <1>3, Zenon DEF Missing
<1>5. Listed' = Listed
  BY <1>0, <1>4, Zenon DEF Listed
<1>6. AnswersItself' <=> AnswersItself
  BY <1>0, <1>2, <1>5, Zenon DEF AnswersItself
<1>7. \A c : FilterFor(c)' = FilterFor(c)
  BY <1>0, Zenon DEF FilterFor
<1>8. ASSUME NEW c
      PROVE  HttpRequest(c)' = HttpRequest(c)
  BY <1>0, <1>1, <1>5, <1>7, Zenon DEF HttpRequest
<1>9. ASSUME NEW o
      PROVE  AsAsked(o)' <=> AsAsked(o)
  BY <1>0, <1>1, Zenon DEF AsAsked
<1> QED BY <1>4, <1>6, <1>8, <1>9, Zenon

-----------------------------------------------------------------------------
(***************************************************************************)
(* What happens to the orders of the exchange.                             *)
(***************************************************************************)
\* An order that is not open stays so, and keeps its terms.
Evolves(class, m, n) ==
  /\ IsExchange(n) /\ HoldsOnly(n, class) /\ n.candles = m.candles /\ n.fee = m.fee
  /\ DOMAIN n.orders = DOMAIN m.orders
  /\ \A i \in DOMAIN m.orders :
       /\ SameTerms(n.orders[i], m.orders[i]) /\ n.orders[i].id = m.orders[i].id
       /\ n.orders[i].state = "open" => m.orders[i].state = "open"

\* Whether an exchange can hold an order depends on its terms.
LEMMA SameTermsSameHeld ==
  ASSUME NEW o, NEW n, SameTerms(o, n), NEW class
  PROVE  IsHeld(class, n) => IsHeld(class, o)
BY Zenon DEF SameTerms, IsHeld

\* A market that stays as it is evolves.
LEMMA StaysEvolves ==
  ASSUME NEW class, NEW m, IsExchange(m), HoldsOnly(m, class)
  PROVE  Evolves(class, m, m)
BY Zenon DEF Evolves, SameTerms

\* An order that is not open does not open again.
LEMMA NotOpenStays ==
  ASSUME NEW class, NEW m, IsExchange(m), NEW n, Evolves(class, m, n), NEW id, ~ IsOpen(m, id)
  PROVE  ~ IsOpen(n, id)
<1>1. IsExchange(n)
  BY DEF Evolves
<1>2. \A i \in DOMAIN m.orders : ~ (m.orders[i].state = "open" /\ Text(m.orders[i].id) = id)
  BY OpenIs
<1>3. \A i \in DOMAIN n.orders : ~ (n.orders[i].state = "open" /\ Text(n.orders[i].id) = id)
  BY <1>2, Zenon DEF Evolves
<1> QED BY <1>1, <1>3, OpenIs

\* A cancelled order makes a market that has evolved.
LEMMA CancelEvolves ==
  ASSUME NEW class, NEW m, IsExchange(m), HoldsOnly(m, class), NEW id
  PROVE  Evolves(class, m, Cancel(m, id))
<1> DEFINE n == Cancel(m, id)
<1>1. /\ IsExchange(n) /\ DOMAIN n.orders = DOMAIN m.orders
      /\ \A k \in DOMAIN m \ {"orders"} : n[k] = m[k]
      /\ \A i \in DOMAIN m.orders :
           /\ SameTerms(n.orders[i], m.orders[i]) /\ n.orders[i].id = m.orders[i].id
           /\ n.orders[i].state = "open" => m.orders[i].state = "open" /\ Text(m.orders[i].id) # id
  BY CancelIs
<1>2. DOMAIN m = {"status", "time", "fee", "price", "candles", "book", "balances", "orders"}
  BY DEF IsExchange
<1> HIDE DEF n
<1>3. n.candles = m.candles /\ n.fee = m.fee
  BY <1>1, <1>2
<1>4. HoldsOnly(n, class)
  BY <1>1, SameTermsSameHeld, Zenon DEF HoldsOnly
<1> QED BY <1>1, <1>3, <1>4, Zenon DEF Evolves, n

\* A new price makes a market that has evolved.
LEMMA PriceEvolves ==
  ASSUME NEW class, NEW m, IsExchange(m), HoldsOnly(m, class), NEW p \in Pairs, NEW x \in Nat \ {0}
  PROVE  Evolves(class, m, [m EXCEPT !.price[p] = x])
<1> DEFINE n == [m EXCEPT !.price[p] = x]
           prices == [m.price EXCEPT ![p] = x]
<1>1. /\ m = [k \in DOMAIN m |-> m[k]]
      /\ DOMAIN m = {"status", "time", "fee", "price", "candles", "book", "balances", "orders"}
      /\ m.price \in [Pairs -> Nat \ {0}]
  BY DEF IsExchange
<1>2. prices \in [Pairs -> Nat \ {0}]
  BY <1>1
<1>3. n = [m EXCEPT !.price = prices]
  BY <1>1
<1> HIDE DEF prices
<1>4. /\ n = [k \in DOMAIN m |-> n[k]] /\ n.price = prices
      /\ n.status = m.status /\ n.time = m.time /\ n.fee = m.fee /\ n.candles = m.candles
      /\ n.book = m.book /\ n.balances = m.balances /\ n.orders = m.orders
  BY <1>1, <1>3
<1> HIDE DEF n
<1>5. IsExchange(n)
  <2>1. n = [part \in {"status", "time", "fee", "price", "candles", "book", "balances", "orders"} |-> n[part]]
    BY <1>1, <1>4, Zenon
  <2> QED BY <1>2, <1>4, <2>1 DEF IsExchange
<1>6. HoldsOnly(n, class)
  BY <1>4, Zenon DEF HoldsOnly
<1> QED BY <1>4, <1>5, <1>6, Zenon DEF Evolves, SameTerms, n

\* An order filled makes a market that has evolved.
LEMMA FillEvolves ==
  ASSUME NEW class, NEW m, IsExchange(m), HoldsOnly(m, class), NEW i \in DOMAIN m.orders
  PROVE  Evolves(class, m, [m EXCEPT !.orders[i].state = "closed"])
<1> DEFINE n == [m EXCEPT !.orders[i].state = "closed"]
           o == [m.orders[i] EXCEPT !.state = "closed"]
           s == [m.orders EXCEPT ![i] = o]
<1>1. /\ m = [k \in DOMAIN m |-> m[k]]
      /\ DOMAIN m = {"status", "time", "fee", "price", "candles", "book", "balances", "orders"}
      /\ m.orders \in Seq(Orders)
  BY DEF IsExchange
<1>2. n = [m EXCEPT !.orders = s]
  BY <1>1, Zenon
<1>3. m.orders[i] \in Orders
  BY <1>1
<1>4. o \in Orders /\ SameTerms(o, m.orders[i]) /\ o.id = m.orders[i].id /\ o.state = "closed"
  BY <1>3 DEF Orders, SameTerms
<1> HIDE DEF o
<1>5. s \in Seq(Orders) /\ DOMAIN s = DOMAIN m.orders
      /\ \A k \in DOMAIN m.orders : s[k] = IF k = i THEN o ELSE m.orders[k]
  BY <1>1, <1>4
<1> HIDE DEF s
<1>6. /\ n = [k \in DOMAIN m |-> n[k]] /\ n.orders = s
      /\ n.status = m.status /\ n.time = m.time /\ n.fee = m.fee /\ n.candles = m.candles
      /\ n.book = m.book /\ n.balances = m.balances /\ n.price = m.price
  BY <1>1, <1>2
<1> HIDE DEF n
<1>7. IsExchange(n)
  <2>1. n = [part \in {"status", "time", "fee", "price", "candles", "book", "balances", "orders"} |-> n[part]]
    BY <1>1, <1>6, Zenon
  <2> QED BY <1>5, <1>6, <2>1 DEF IsExchange
<1>8. \A k \in DOMAIN m.orders :
        /\ SameTerms(n.orders[k], m.orders[k]) /\ n.orders[k].id = m.orders[k].id
        /\ n.orders[k].state = "open" => m.orders[k].state = "open"
  <2>1. \A x : SameTerms(x, x)
    BY DEF SameTerms
  <2> QED BY <1>4, <1>5, <1>6, <2>1
<1>9. HoldsOnly(n, class)
  BY <1>5, <1>6, <1>8, SameTermsSameHeld, Zenon DEF HoldsOnly
<1> QED BY <1>5, <1>6, <1>7, <1>8, <1>9, Zenon DEF Evolves, n

\* An answer agrees as before while the candles and the fee stay.
LEMMA AgreesStays ==
  ASSUME UNCHANGED <<kind, call, truth>>, market'.candles = market.candles, market'.fee = market.fee
  PROVE  \A v : Agrees(v)' <=> Agrees(v)
<1>0. kind' = kind /\ call' = call /\ truth' = truth
  OBVIOUS
<1>1. \A book : SidesAreNamed(book)' <=> SidesAreNamed(book)
  BY DEF SidesAreNamed
<1>2. \A x, y : SameLevels(x, y)' <=> SameLevels(x, y)
  BY DEF SameLevels
<1>3. \A type : TypeRead(type)' = TypeRead(type)
  BY <1>0, Zenon DEF TypeRead
<1>4. \A p : Named(p)' = Named(p)
  BY <1>0, Zenon DEF Named
<1>5. \A c : Loops(c)' <=> Loops(c)
  BY <1>0, Zenon DEF Loops
<1>6. ASSUME NEW v
      PROVE  Agrees(v)' <=> Agrees(v)
  BY <1>0, <1>1, <1>2, <1>3, <1>4, <1>5, Zenon DEF Agrees, SameBook, SameOrders
<1> QED BY <1>6

\* A market that has evolved preserves the invariant, nothing else having changed.
LEMMA MarketMoves ==
  ASSUME RestInv, Evolves(kind, market, market'),
         UNCHANGED <<kind, filters, call, phase, inner, request, response, gathered, outcome, history>>
  PROVE  RestInv'
<1>0. /\ kind' = kind /\ filters' = filters /\ call' = call /\ phase' = phase /\ inner' = inner
      /\ request' = request /\ response' = response /\ gathered' = gathered /\ outcome' = outcome
      /\ truth' = truth /\ entered' = entered /\ lost' = lost /\ refused' = refused
  BY DEF history
<1>1. /\ MarketInv /\ FiltersInv /\ CallInv /\ GatheredInv /\ SentInv /\ ListedInv /\ EnteredInv /\ AnsweredInv
      /\ EndedInv
  BY DEF RestInv
<1>2. /\ IsExchange(market') /\ HoldsOnly(market', kind) /\ market'.candles = market.candles /\ market'.fee = market.fee
      /\ DOMAIN market'.orders = DOMAIN market.orders
      /\ \A i \in DOMAIN market.orders :
           /\ SameTerms(market'.orders[i], market.orders[i]) /\ market'.orders[i].id = market.orders[i].id
           /\ market'.orders[i].state = "open" => market.orders[i].state = "open"
  BY DEF Evolves
<1>3. \A id : ~ IsOpen(market, id) => ~ IsOpen(market', id)
  <2>1. IsExchange(market)
    BY <1>1 DEF MarketInv
  <2> QED BY <2>1, NotOpenStays
<1>4. /\ \A c, v, known : Fits(c, v, known)' <=> Fits(c, v, known)
      /\ \A c, json : ReadOf(c, json)' = ReadOf(c, json)
  BY <1>0, KindStays
<1>5. /\ \A c : HttpRequest(c)' = HttpRequest(c)
      /\ Missing' = Missing /\ (AnswersItself' <=> AnswersItself)
      /\ \A o : AsAsked(o)' <=> AsAsked(o)
  BY <1>0, RequestStays
<1>6. \A v : Agrees(v)' <=> Agrees(v)
  BY <1>0, <1>2, AgreesStays
<1>7. /\ \A c, json, known : ReadsAs(c, json, known)' <=> ReadsAs(c, json, known)
      /\ \A c, json : ReadsFail(c, json)' <=> ReadsFail(c, json)
      /\ \A c, json, id : ReadsId(c, json, id)' <=> ReadsId(c, json, id)
  BY <1>0, <1>4, Zenon DEF ReadsAs, ReadsFail, ReadsId, IdIn, IsRead
<1>8. /\ (Adding' <=> Adding) /\ (Returned' <=> Returned) /\ (Thrown' <=> Thrown)
      /\ \A v : IdIn(v)' = IdIn(v)
  BY <1>0, Zenon DEF Adding, Returned, Thrown, IdIn
<1>10. MarketInv'
  BY <1>0, <1>1, <1>2, Zenon DEF MarketInv
<1>11. FiltersInv' /\ CallInv'
  BY <1>0, <1>1, Zenon DEF FiltersInv, CallInv
<1>12. GatheredInv'
  <2>1. Before(call)' = Before(call)
    BY <1>0, Zenon DEF Before, Loops, AsksPrice
  <2> QED BY <1>0, <1>1, <1>4, <2>1, Zenon DEF GatheredInv
<1>13. SentInv'
  BY <1>0, <1>1, <1>5, Zenon DEF SentInv
<1>14. ListedInv'
  BY <1>0, <1>1, <1>2, Zenon DEF ListedInv
<1>15. EnteredInv'
  <2>1. ASSUME NEW id \in DOMAIN market.orders, entered = {id}, \A o \in {market.orders[id]} : AsAsked(o)
        PROVE  \A o \in {market'.orders[id]} : AsAsked(o)'
    <3>1. SameTerms(market'.orders[id], market.orders[id]) /\ AsAsked(market.orders[id])
      BY <1>2, <2>1
    <3>2. AsAsked(market'.orders[id])
      BY <3>1, Zenon DEF AsAsked, SameTerms
    <3> QED BY <1>5, <3>2, Zenon
  <2> QED BY <1>0, <1>1, <1>2, <1>8, <2>1, Zenon DEF EnteredInv
<1>16. AnsweredInv'
  <2>1. FailsToRead => FailsToRead'
    BY <1>0, <1>7, Zenon DEF FailsToRead
  <2>2. ReadsRight => ReadsRight'
    BY <1>0, <1>7, Zenon DEF ReadsRight
  <2>3. ReadsEntered => ReadsEntered'
    BY <1>0, <1>2, <1>7, Zenon DEF ReadsEntered
  <2>4. WasRefused => WasRefused'
    BY <1>0, <1>3, <2>1, Zenon DEF WasRefused
  <2>5. WasServed => WasServed'
    BY <1>0, <1>3, <2>2, <2>3, Zenon DEF WasServed, IsAdding
  <2> QED BY <1>0, <1>1, <2>4, <2>5, Zenon DEF AnsweredInv
<1>17. EndedInv'
  <2>1. CancelledIsNotOpen'
    BY <1>0, <1>1, <1>3, <1>8, Zenon DEF EndedInv, CancelledIsNotOpen
  <2>2. FailsForAReason'
    BY <1>0, <1>1, <1>3, <1>8, Zenon DEF EndedInv, FailsForAReason, Done, NotOffered, NotFound
  <2> QED BY <1>0, <1>1, <1>2, <1>6, <1>8, <2>1, <2>2, Zenon DEF EndedInv
<1> QED BY <1>10, <1>11, <1>12, <1>13, <1>14, <1>15, <1>16, <1>17 DEF RestInv

-----------------------------------------------------------------------------
(***************************************************************************)
(* The requests of a call.                                                 *)
(***************************************************************************)
LEMMA BeforeIs ==
  \A c :
    /\ c.op = "get_prices" /\ Loops(c) => Before(c) = {PriceOf(p) : p \in c.pairs}
    /\ c.op = "get_order_books" => Before(c) = {BookOf(p, c.depth) : p \in c.pairs}
    /\ c.op = "add_order" /\ AsksPrice(c.order) => Before(c) = {PriceOf(c.order.pair)}
    /\ c.op = "cancel_order" /\ kind = "binance" => Before(c) = {OpenOrdersOf}
    /\ c.op \notin {"get_prices", "get_order_books", "add_order", "cancel_order"} => Before(c) = {}
    /\ c.op = "get_prices" /\ ~ Loops(c) => Before(c) = {}
    /\ c.op = "add_order" /\ ~ AsksPrice(c.order) => Before(c) = {}
    /\ c.op = "cancel_order" /\ kind # "binance" => Before(c) = {}
<1> TAKE c
<1>1. c.op = "get_prices" /\ Loops(c) => Before(c) = {PriceOf(p) : p \in c.pairs}
  BY Zenon DEF Before
<1>2. c.op = "get_order_books" => Before(c) = {BookOf(p, c.depth) : p \in c.pairs}
  BY Zenon DEF Before
<1>3. c.op = "add_order" /\ AsksPrice(c.order) => Before(c) = {PriceOf(c.order.pair)}
  BY Zenon DEF Before
<1>4. c.op = "cancel_order" /\ kind = "binance" => Before(c) = {OpenOrdersOf}
  BY Zenon DEF Before, OpenOrdersOf
<1>5. c.op \notin {"get_prices", "get_order_books", "add_order", "cancel_order"} => Before(c) = {}
  BY Zenon DEF Before
<1>6. c.op = "get_prices" /\ ~ Loops(c) => Before(c) = {}
  BY Zenon DEF Before
<1>7. c.op = "add_order" /\ ~ AsksPrice(c.order) => Before(c) = {}
  BY Zenon DEF Before
<1>8. c.op = "cancel_order" /\ kind # "binance" => Before(c) = {}
  BY Zenon DEF Before
<1> QED BY <1>1, <1>2, <1>3, <1>4, <1>5, <1>6, <1>7, <1>8, Zenon

\* What a call needs first are prices, books or the open orders.
LEMMA BeforeHas ==
  ASSUME NEW c, IsCall(c), NEW b \in Before(c)
  PROVE  /\ IsCall(b) /\ b.op \in {"get_price", "get_order_book", "get_open_orders"}
         /\ b.op = "get_order_book" => c.op = "get_order_books"
         /\ c.op \in {"get_prices", "get_order_books", "add_order", "cancel_order"}
<1>1. CASE c.op = "get_prices" /\ Loops(c)
  <2>1. PICK p \in c.pairs : b = PriceOf(p)
    BY <1>1, BeforeIs
  <2>2. p \in Pairs
    BY <1>1, CallHas
  <2>3. IsCall(b) /\ b.op = "get_price"
    BY <2>1, <2>2, PriceCall, Zenon
  <2> QED BY <1>1, <2>3
<1>2. CASE c.op = "get_order_books"
  <2>1. PICK p \in c.pairs : b = BookOf(p, c.depth)
    BY <1>2, BeforeIs
  <2>2. p \in Pairs /\ c.depth \in Nat \ {0}
    BY <1>2, CallHas
  <2>3. IsCall(b) /\ b.op = "get_order_book"
    BY <2>1, <2>2, BookCall, Zenon
  <2> QED BY <1>2, <2>3
<1>3. CASE c.op = "add_order" /\ AsksPrice(c.order)
  <2>1. b = PriceOf(c.order.pair)
    BY <1>3, BeforeIs
  <2>2. c.order.pair \in Pairs
    <3>1. IsOrderRequest(c.order)
      BY <1>3, CallHas
    <3> QED BY <3>1 DEF IsOrderRequest
  <2>3. IsCall(b) /\ b.op = "get_price"
    BY <2>1, <2>2, PriceCall, Zenon
  <2> QED BY <1>3, <2>3
<1>4. CASE c.op = "cancel_order" /\ kind = "binance"
  <2>1. b = OpenOrdersOf
    BY <1>4, BeforeIs
  <2>2. IsCall(b) /\ b.op = "get_open_orders"
    BY <2>1, OpenOrdersCall DEF OpenOrdersOf
  <2> QED BY <1>4, <2>2
<1>5. Before(c) # {}
  OBVIOUS
<1> QED BY <1>1, <1>2, <1>3, <1>4, <1>5, BeforeIs

\* The request that is sent is a query's, a cancellation or an order that the class offers.
RequestIs ==
  \/ IsQuery(inner) /\ ~ IsAdding(inner) /\ inner.op # "cancel_order"
  \/ inner = call /\ inner.op = "cancel_order"
  \/ inner = call /\ IsAdding(inner) /\ ~ NotOfferedFor(inner)

\* What a request that is out was made of.
LEMMA SentIs ==
  ASSUME RestInv, phase = "sent"
  PROVE  IsCall(inner) /\ RequestIs /\ request = HttpRequest(inner) /\ (inner # call => IsQuery(inner))
<1>1. /\ \/ inner \in Missing
         \/ Missing = {} /\ inner = call /\ ~ AnswersItself
      /\ request = HttpRequest(inner) /\ request.is # "thrown"
  BY Zenon DEF RestInv, SentInv
<1>2. kind \in Kinds /\ IsCall(call)
  BY CallsAssumption, Zenon DEF RestInv, MarketInv, CallInv
<1>3. CASE inner \in Missing
  <2>1. inner \in Before(call)
    BY <1>3 DEF Missing
  <2>2. IsCall(inner) /\ inner.op \in {"get_price", "get_order_book", "get_open_orders"}
    BY <1>2, <2>1, BeforeHas
  <2> QED BY <1>1, <2>2 DEF RequestIs, IsQuery, IsAdding, Queries
<1>4. CASE Missing = {} /\ inner = call /\ ~ AnswersItself
  <2>1. ~ NotOfferedFor(inner)
    BY <1>1, <1>2, NotOfferedIsThrown
  <2>2. inner.op \in Queries \cup {"get_order_books", "cancel_order", "add_order", "add_order_confirm"}
    BY <1>2, <1>4, CallHas, Zenon
  <2>3. ~ Loops(inner) /\ ~ (inner.op = "get_fee" /\ kind \in {"bybit", "digifinex"})
        /\ ~ (inner.op = "get_status" /\ kind = "coinbase")
    BY <1>4, Zenon DEF AnswersItself
  <2>4. inner.op # "get_order_books"
    BY <2>3 DEF Loops
  <2>5. inner.op \in Queries => IsQuery(inner)
    BY <2>1, <2>3, Zenon DEF IsQuery, Loops, NotOfferedFor
  <2>6. inner.op \in Queries => ~ IsAdding(inner) /\ inner.op # "cancel_order"
    BY DEF IsAdding, Queries
  <2>7. IsCall(inner)
    BY <1>2, <1>4
  <2> QED BY <1>1, <1>4, <2>1, <2>2, <2>4, <2>5, <2>6, <2>7 DEF RequestIs, IsAdding
<1> QED BY <1>1, <1>3, <1>4

\* Nothing has been gathered when a call begins.
LEMMA NoneIsEmpty == DOMAIN None = {} /\ None = <<>>
BY DEF None

\* The filter of a pair is the one that the exchange has, or the default.
LEMMA FilterRight ==
  ASSUME FiltersInv, NEW c, IsAdding(c), IsOrderRequest(c.order)
  PROVE  IsFilter(c, FilterFor(c), filters)
<1>1. c.order.pair \in Pairs
  BY DEF IsOrderRequest
<1>2. CASE filters = None
  <2>1. FilterFor(c) = Binance!DefaultFilter
    BY <1>2, NoneIsEmpty, Zenon DEF FilterFor
  <2> QED BY <1>2, <2>1, Zenon DEF IsFilter
<1>3. CASE filters # None
  <2>1. filters = [p \in Pairs |-> Binance!FilterOf(p)]
    BY <1>3, Zenon DEF FiltersInv
  <2>2. c.order.pair \in DOMAIN filters /\ filters[c.order.pair] = Binance!FilterOf(c.order.pair)
    BY <1>1, <2>1
  <2>3. FilterFor(c) = Binance!FilterOf(c.order.pair)
    BY <2>2, Zenon DEF FilterFor, IsAdding
  <2> QED BY <1>3, <2>3, Zenon DEF IsFilter
<1> QED BY <1>2, <1>3

\* A call is not one of what it needs first.
LEMMA NotBefore ==
  ASSUME NEW c, IsCall(c)
  PROVE  c \notin Before(c)
<1> SUFFICES ASSUME c \in Before(c)
             PROVE  FALSE
  OBVIOUS
<1>1. c.op \in {"get_price", "get_order_book", "get_open_orders"}
      /\ c.op \in {"get_prices", "get_order_books", "add_order", "cancel_order"}
  BY BeforeHas
<1> QED BY <1>1

\* A call whose own request is out has gathered all it needs.
LEMMA InnerOfCall ==
  ASSUME RestInv, phase \in {"sent", "answered"}, inner = call
  PROVE  Missing = {} /\ ~ AnswersItself
<1>1. \/ inner \in Missing
      \/ Missing = {} /\ inner = call /\ ~ AnswersItself
  BY Zenon DEF RestInv, SentInv
<1>2. IsCall(call)
  <2>1. phase # "idle"
    OBVIOUS
  <2> QED BY <2>1, CallsAssumption, Zenon DEF RestInv, CallInv
<1>3. inner \notin Missing
  BY <1>2, NotBefore DEF Missing
<1> QED BY <1>1, <1>3

\* The price of an order is the one that the exchange told.
LEMMA PriceRight ==
  ASSUME RestInv, phase # "idle", Missing = {}, IsAdding(call), ~ NotOfferedFor(call)
  PROVE  PriceFor(call) \in Nat /\ \A o : EnteredAs(o, call, PriceFor(call), filters) => AsAsked(o)
<1>2. IsOrderRequest(call.order)
  <2>1. IsCall(call)
    BY CallsAssumption, Zenon DEF RestInv, CallInv
  <2> QED BY <2>1, CallHas DEF IsAdding
<1>3. CASE call.op = "add_order" /\ AsksPrice(call.order)
  <2> DEFINE p == PriceOf(call.order.pair)
  <2>1. p \in DOMAIN gathered
    BY <1>3, BeforeIs DEF Missing
  <2>2. Fits(p, gathered[p], truth[p])
    BY <2>1 DEF RestInv, GatheredInv
  <2>3. p.op = "get_price"
    BY <1>2, PriceCall DEF IsOrderRequest
  <2>4. gathered[p] \in Nat
    BY <2>2, <2>3 DEF Fits
  <2>5. PriceFor(call) = gathered[p]
    BY <1>3, Zenon DEF PriceFor
  <2>6. ASSUME NEW o, EnteredAs(o, call, gathered[p], filters)
        PROVE  AsAsked(o)
    BY <2>6, Zenon DEF EnteredAs, AsAsked
  <2> QED BY <2>4, <2>5, <2>6
<1>4. CASE ~ (call.op = "add_order" /\ AsksPrice(call.order))
  <2>1. PriceFor(call) = 0
    BY <1>4, Zenon DEF PriceFor
  <2>2. ~ AsksPrice(call.order)
    <3>1. CASE call.op = "add_order_confirm"
      <4>1. kind = "binance"
        BY <3>1, Zenon DEF NotOfferedFor
      <4> QED BY <4>1 DEF AsksPrice
    <3> QED BY <1>4, <3>1 DEF IsAdding
  <2>3. ASSUME NEW o, EnteredAs(o, call, 0, filters)
        PROVE  AsAsked(o)
    BY <2>2, <2>3, Zenon DEF EnteredAs, AsAsked
  <2> QED BY <2>1, <2>3
<1> QED BY <1>3, <1>4

\* The open orders that Binance listed for a cancellation.
LEMMA ListedIs ==
  ASSUME RestInv, phase # "idle", Missing = {}, kind = "binance", call.op = "cancel_order"
  PROVE  /\ Listed # {} => IsName(NameListed, "")
         /\ Listed = {} => ~ IsOpen(market, call.id)
<1> DEFINE g == gathered[OpenOrdersOf]
           t == truth[OpenOrdersOf]
<1>1. OpenOrdersOf \in DOMAIN gathered
  BY BeforeIs DEF Missing
<1>2. OpenOrdersOf \in DOMAIN truth /\ Fits(OpenOrdersOf, g, t)
  BY <1>1 DEF RestInv, GatheredInv
<1>3. SameOrders(g, t)
  BY <1>2, OpenOrdersCall, Zenon DEF Fits, OpenOrdersOf
<1>4. /\ t \in Seq(Orders)
      /\ \A i \in DOMAIN market.orders : market.orders[i].state = "open" =>
           \E j \in DOMAIN t : t[j].id = market.orders[i].id
  BY <1>2 DEF RestInv, ListedInv
<1>5. Listed = {o \in ToSet(g) : o.id = call.id}
  BY Zenon DEF Listed, OpenOrdersOf
<1>6. /\ DOMAIN g = DOMAIN t
      /\ \A j \in DOMAIN t : g[j].id = Text(t[j].id) /\ g[j].pair_name = Named(t[j].pair)
  BY <1>3, Zenon DEF SameOrders
<1> HIDE DEF g, t
<1>7. \A o : o \in ToSet(g) <=> \E j \in DOMAIN g : o = g[j]
  BY Zenon DEF ToSet
<1>8. \A j \in DOMAIN t : t[j].pair \in Pairs
  <2>1. \A j \in DOMAIN t : t[j] \in Orders
    BY <1>4
  <2> QED BY <2>1 DEF Orders
<1>9. Listed # {} => IsName(NameListed, "")
  <2> SUFFICES ASSUME Listed # {}
               PROVE  IsName(NameListed, "")
    OBVIOUS
  <2>1. PICK o \in Listed : NameListed = o.pair_name
    BY Zenon DEF NameListed
  <2>2. PICK j \in DOMAIN t : o = g[j]
    BY <1>5, <1>6, <1>7
  <2>3. NameListed = Named(t[j].pair) /\ t[j].pair \in Pairs
    BY <1>6, <1>8, <2>1, <2>2
  <2>4. Named(t[j].pair) = Name(t[j].pair, "")
    BY Zenon DEF Named
  <2> QED BY <2>3, <2>4, NameOfAPair
<1>10. Listed = {} => ~ IsOpen(market, call.id)
  <2> SUFFICES ASSUME IsOpen(market, call.id)
               PROVE  Listed # {}
    OBVIOUS
  <2>1. IsExchange(market)
    BY DEF RestInv, MarketInv
  <2>2. PICK i \in DOMAIN market.orders : market.orders[i].state = "open" /\ Text(market.orders[i].id) = call.id
    BY <2>1, OpenIs
  <2>3. PICK j \in DOMAIN t : t[j].id = market.orders[i].id
    BY <1>4, <2>2
  <2>4. g[j] \in ToSet(g) /\ g[j].id = call.id
    BY <1>6, <1>7, <2>2, <2>3, Zenon
  <2> QED BY <1>5, <2>4
<1> QED BY <1>9, <1>10

-----------------------------------------------------------------------------
(***************************************************************************)
(* The steps.                                                              *)
(***************************************************************************)
\* Nothing is said of the end of a call that has not ended.
LEMMA NotEnded ==
  ASSUME phase' # "idle" \/ outcome'.is = "none"
  PROVE  EndedInv'
<1>1. ~ Returned' /\ ~ Thrown' /\ ~ (Done /\ outcome.is = "undefined")'
  BY DEF Returned, Thrown, Done
<1>2. CancelledIsNotOpen'
  BY <1>1, Zenon DEF CancelledIsNotOpen
<1>3. FailsForAReason'
  BY <1>1, Zenon DEF FailsForAReason
<1> QED BY <1>1, <1>2, <1>3, Zenon DEF EndedInv

\* While a call is not under way, nothing is said of its requests.
LEMMA Idle ==
  ASSUME phase' = "idle"
  PROVE  GatheredInv' /\ SentInv' /\ ListedInv' /\ AnsweredInv'
<1>1. phase' \notin {"sent", "answered"} /\ phase' # "sent" /\ phase' # "answered"
  OBVIOUS
<1> QED BY <1>1, Zenon DEF GatheredInv, SentInv, ListedInv, AnsweredInv

\* The invariant holds initially.
LEMMA InitRight == Init => RestInv
<1> SUFFICES ASSUME Init
             PROVE  RestInv
  OBVIOUS
<1> USE DEF Init
<1>1. MarketInv
  BY MarketAssumption DEF MarketInv, HoldsOnly
<1>2. FiltersInv /\ CallInv /\ GatheredInv /\ SentInv /\ ListedInv /\ EnteredInv /\ AnsweredInv
  BY DEF FiltersInv, CallInv, GatheredInv, SentInv, ListedInv, EnteredInv, AnsweredInv
<1>3. ~ Returned /\ ~ Thrown /\ ~ (Done /\ outcome.is = "undefined")
  BY DEF Returned, Thrown, Done
<1>4. CancelledIsNotOpen /\ FailsForAReason
  BY <1>3, Zenon DEF CancelledIsNotOpen, FailsForAReason
<1>5. EndedInv
  BY <1>3, <1>4, Zenon DEF EndedInv
<1> QED BY <1>1, <1>2, <1>5 DEF RestInv

\* A call that begins preserves the invariant.
LEMMA CallStep ==
  ASSUME RestInv, NEW c \in Calls, Call(c)
  PROVE  RestInv'
<1>0. /\ phase = "idle" /\ call' = c /\ phase' = "asking" /\ gathered' = None /\ outcome' = [is |-> "none"]
      /\ truth' = None /\ entered' = {} /\ kind' = kind /\ market' = market /\ filters' = filters
  BY DEF Call
<1>1. MarketInv'
  BY <1>0, Zenon DEF RestInv, MarketInv
<1>2. FiltersInv' /\ CallInv'
  <2>1. FiltersInv'
    BY <1>0, Zenon DEF RestInv, FiltersInv
  <2>2. CallInv'
    BY <1>0 DEF CallInv
  <2> QED BY <2>1, <2>2
<1>3. DOMAIN gathered' = {} /\ DOMAIN truth' = {}
  BY <1>0, NoneIsEmpty
<1>4. GatheredInv'
  BY <1>3 DEF GatheredInv
<1>5. SentInv' /\ AnsweredInv'
  <2>1. phase' \notin {"sent", "answered"} /\ phase' # "sent" /\ phase' # "answered"
    BY <1>0
  <2> QED BY <2>1, Zenon DEF SentInv, AnsweredInv
<1>6. ListedInv'
  BY <1>3 DEF ListedInv
<1>7. EnteredInv'
  BY <1>0, Zenon DEF EnteredInv
<1>8. EndedInv'
  <2>1. phase' # "idle"
    BY <1>0
  <2> QED BY <2>1, NotEnded
<1> QED BY <1>1, <1>2, <1>4, <1>5, <1>6, <1>7, <1>8 DEF RestInv

\* What a failed call leaves.
LEMMA ThrownRight ==
  ASSUME phase' = "idle", NEW what, outcome' = Throws(what), lost' \/ entered' = {},
         \/ lost' \/ refused' \/ NotOffered' \/ NotFound'
         \/ (call.op = "cancel_order" /\ ~ IsOpen(market, call.id))',
         what # "mb_exception" => NotOffered' \/ NotFound'
  PROVE  EndedInv'
<1>1. outcome'.is = "thrown" /\ outcome'.what = what
  BY DEF Throws
<1>2. ~ Returned' /\ outcome'.is # "undefined"
  BY <1>1 DEF Returned
<1>3. CancelledIsNotOpen'
  BY <1>2, Zenon DEF CancelledIsNotOpen
<1>4. FailsForAReason'
  BY <1>1, <1>2, Zenon DEF FailsForAReason
<1> QED BY <1>2, <1>3, <1>4, Zenon DEF EndedInv

\* A lost request preserves the invariant.
LEMMA LoseRequestStep ==
  ASSUME RestInv, LoseRequest
  PROVE  RestInv'
<1>0. /\ phase = "sent" /\ phase' = "idle" /\ outcome' = Throws("mb_exception") /\ lost' = TRUE
      /\ kind' = kind /\ market' = market /\ filters' = filters /\ call' = call /\ gathered' = gathered
      /\ entered' = entered
  BY DEF LoseRequest, Return
<1>1. MarketInv'
  BY <1>0, Zenon DEF RestInv, MarketInv
<1>2. FiltersInv'
  BY <1>0, Zenon DEF RestInv, FiltersInv
<1>3. CallInv'
  <2>1. call \in Calls
    BY <1>0 DEF RestInv, CallInv
  <2> QED BY <1>0, <2>1 DEF CallInv
<1>4. EnteredInv'
  <2>1. entered = {}
    BY <1>0 DEF RestInv, EnteredInv
  <2> QED BY <1>0, <2>1, Zenon DEF EnteredInv
<1>5. EndedInv'
  BY <1>0, ThrownRight
<1> QED BY <1>0, <1>1, <1>2, <1>3, <1>4, <1>5, Idle DEF RestInv

\* A request that the exchange refuses, for a reason of the client's.
LEMMA RefusedIs ==
  ASSUME RestInv, phase = "sent", Refuses(request)
  PROVE  call.op = "cancel_order" /\ ~ IsOpen(market, call.id)
<1>1. IsCall(inner) /\ RequestIs /\ request = HttpRequest(inner)
  BY SentIs
<1>2. MarketInv /\ FiltersInv
  BY DEF RestInv
<1>3. kind \in Kinds /\ IsExchange(market)
  BY <1>2 DEF MarketInv
<1>4. ~ IsQuery(inner)
  BY <1>1, <1>2, QueryIsServed, Zenon
<1>5. ~ (inner = call /\ IsAdding(inner) /\ ~ NotOfferedFor(inner))
  <2> SUFFICES ASSUME inner = call, IsAdding(inner), ~ NotOfferedFor(inner)
               PROVE  ~ Refuses(request)
    BY Zenon
  <2>1. PriceFor(inner) \in Nat
    <3>1. Missing = {} /\ phase # "idle"
      BY InnerOfCall
    <3> QED BY <3>1, PriceRight
  <2>2. IsOrderRequest(inner.order)
    BY <1>1, CallHas DEF IsAdding
  <2>3. IsFilter(inner, FilterFor(inner), filters)
    BY <1>2, <2>2, FilterRight
  <2>4. AddsTo(market, inner, PriceFor(inner), filters, request.is, Refuses(request), Effect(request),
               ReadOf(inner, Body(request)))
    BY <1>1, <1>3, <2>1, <2>2, <2>3, Adds
  <2> QED BY <2>4, Zenon DEF AddsTo
<1>6. inner = call /\ inner.op = "cancel_order"
  BY <1>1, <1>4, <1>5, Zenon DEF RequestIs
<1>7. kind = "binance" => IsName(NameListed, "")
  <2> SUFFICES ASSUME kind = "binance"
               PROVE  IsName(NameListed, "")
    OBVIOUS
  <2>1. Missing = {} /\ ~ AnswersItself
    BY <1>6, InnerOfCall
  <2>2. Listed # {}
    BY <1>6, <2>1 DEF AnswersItself
  <2> QED BY <1>6, <2>1, <2>2, ListedIs
<1> QED BY <1>1, <1>3, <1>6, <1>7, Cancels, Zenon

\* Only the answer is new.
LEMMA AnswerIsNew ==
  ASSUME RestInv, phase \in {"sent", "answered"}, phase' = "answered",
         UNCHANGED <<kind, market, filters, call, inner, gathered, truth, entered>>,
         AnsweredInv'
  PROVE  RestInv'
<1>0. /\ kind' = kind /\ market' = market /\ filters' = filters /\ call' = call /\ inner' = inner
      /\ gathered' = gathered /\ truth' = truth /\ entered' = entered
      /\ phase # "idle" /\ phase' # "idle"
  OBVIOUS
<1>1. MarketInv'
  BY <1>0, Zenon DEF RestInv, MarketInv
<1>2. FiltersInv' /\ CallInv'
  <2>1. FiltersInv'
    BY <1>0, Zenon DEF RestInv, FiltersInv
  <2>2. call \in Calls
    BY <1>0 DEF RestInv, CallInv
  <2>3. CallInv'
    BY <1>0, <2>2 DEF CallInv
  <2> QED BY <2>1, <2>3
<1>3. /\ \A c, v, known : Fits(c, v, known)' <=> Fits(c, v, known)
      /\ Missing' = Missing /\ (AnswersItself' <=> AnswersItself)
      /\ \A o : AsAsked(o)' <=> AsAsked(o)
  BY <1>0, KindStays, RequestStays
<1>4. GatheredInv'
  <2>1. Before(call)' = Before(call)
    BY <1>0, Zenon DEF Before, Loops, AsksPrice
  <2> QED BY <1>0, <1>3, <2>1, Zenon DEF RestInv, GatheredInv
<1>5. SentInv'
  <2>1. phase' # "sent"
    OBVIOUS
  <2> QED BY <1>0, <1>3, <2>1, Zenon DEF RestInv, SentInv
<1>6. ListedInv'
  BY <1>0, Zenon DEF RestInv, ListedInv
<1>7. EnteredInv'
  <2>1. phase' \notin {"asking", "sent"}
    OBVIOUS
  <2>2. Adding' <=> Adding
    BY <1>0, Zenon DEF Adding
  <2> QED BY <1>0, <1>3, <2>1, <2>2, Zenon DEF RestInv, EnteredInv
<1>8. EndedInv'
  BY <1>0, NotEnded
<1> QED BY <1>1, <1>2, <1>4, <1>5, <1>6, <1>7, <1>8 DEF RestInv

\* A refused request preserves the invariant.
LEMMA RefuseStep ==
  ASSUME RestInv, NEW code, Refuse(code)
  PROVE  RestInv'
<1>0. /\ phase = "sent" /\ phase' = "answered"
      /\ response' = [code |-> code, body |-> ErrorBody] /\ refused' = ~ Refuses(request)
      /\ kind' = kind /\ market' = market /\ filters' = filters /\ call' = call /\ inner' = inner
      /\ gathered' = gathered /\ truth' = truth /\ entered' = entered
  BY DEF Refuse
<1>1. FailsToRead'
  <2>1. kind \in Kinds
    BY DEF RestInv, MarketInv
  <2>2. \A c : ReadOf(c, ErrorBody)' = ReadOf(c, ErrorBody)
    <3>1. ErrorBody' = ErrorBody
      BY <1>0, Zenon DEF ErrorBody
    <3> QED BY <1>0, <3>1, KindStays, Zenon
  <2>3. response'.body = ErrorBody
    BY <1>0
  <2>4. \A c : ReadsFail(c, ErrorBody)'
    <3>1. \A c : ReadOf(c, ErrorBody) = Fail
      BY <2>1, ErrorsFail
    <3>2. \A c, json : ReadOf(c, json)' = ReadOf(c, json)
      BY <1>0, KindStays
    <3> QED BY <2>2, <3>1, Zenon DEF ReadsFail
  <2>5. \A c : \A json \in {response'.body} : ReadsFail(c, json)'
    <3>1. ErrorBody' = ErrorBody
      BY <1>0, Zenon DEF ErrorBody
    <3> QED BY <2>3, <2>4, <3>1, Zenon
  <2> QED BY <2>5, Zenon DEF FailsToRead
<1>2. WasRefused'
  <2>1. refused' \/ (call.op = "cancel_order" /\ ~ IsOpen(market, call.id))
    BY <1>0, RefusedIs, Zenon
  <2>2. entered = {}
    BY <1>0 DEF RestInv, EnteredInv
  <2> QED BY <1>0, <1>1, <2>1, <2>2, Zenon DEF WasRefused
<1>3. AnsweredInv'
  BY <1>2, Zenon DEF AnsweredInv
<1> QED BY <1>0, <1>3, AnswerIsNew

-----------------------------------------------------------------------------
(***************************************************************************)
(* The request arrives.                                                    *)
(***************************************************************************)
\* The order that a call has entered, and the id that it reads.
IsEntered(m, id) == DOMAIN m.orders = DOMAIN market.orders \cup {id} /\ id \notin DOMAIN market.orders
                    /\ AsAsked(m.orders[id])
ReadsIdOf(c, json, id) == ReadOf(c, json).is = "success" /\ Text(id) = IdIn(ReadOf(c, json).value)

\* A request that only reads changes nothing, and its answer is read as what is known.
LEMMA QueryArrives ==
  ASSUME RestInv, phase = "sent", IsQuery(inner)
  PROVE  Effect(request) = market /\ IsRead(inner, ReadOf(inner, Body(request)), Known(inner))
<1>1. IsCall(inner) /\ request = HttpRequest(inner)
  BY SentIs
<1>2. MarketInv
  BY DEF RestInv
<1> QED BY <1>1, <1>2, QueryIsServed, Zenon

\* A cancellation that arrives leaves its order not open, and is read as done.
LEMMA CancelArrives ==
  ASSUME RestInv, phase = "sent", inner = call, inner.op = "cancel_order"
  PROVE  /\ Evolves(kind, market, Effect(request)) /\ ~ IsOpen(Effect(request), inner.id)
         /\ ReadOf(inner, Body(request)) = Success("void")
<1>1. request = HttpRequest(inner)
  BY SentIs
<1>2. kind \in Kinds /\ IsExchange(market) /\ HoldsOnly(market, kind)
  BY DEF RestInv, MarketInv
<1>3. Effect(request) = Cancel(market, inner.id) /\ ReadOf(inner, Body(request)) = Success("void")
  BY <1>1, <1>2, Cancels, Zenon
<1>4. Evolves(kind, market, Cancel(market, inner.id)) /\ ~ IsOpen(Cancel(market, inner.id), inner.id)
  BY <1>2, CancelEvolves, CancelCloses
<1> QED BY <1>3, <1>4

\* An order arrives, is entered as asked, and its id is the answer.
LEMMA OrderArrives ==
  ASSUME RestInv, phase = "sent", inner = call, IsAdding(inner), ~ NotOfferedFor(inner)
  PROVE  /\ IsExchange(Effect(request)) /\ HoldsOnly(Effect(request), kind)
         /\ Effect(request).candles = market.candles /\ Effect(request).fee = market.fee
         /\ \E id : IsEntered(Effect(request), id) /\ ReadsIdOf(inner, Body(request), id)
<1> DEFINE n == Effect(request)
           id == NextId(market)
           read == ReadOf(inner, Body(request))
<1>1. IsCall(inner) /\ request = HttpRequest(inner)
  BY SentIs
<1>2. kind \in Kinds /\ IsExchange(market) /\ HoldsOnly(market, kind) /\ FiltersInv
  BY DEF RestInv, MarketInv
<1>3. PriceFor(inner) \in Nat /\ \A o : EnteredAs(o, inner, PriceFor(inner), filters) => AsAsked(o)
  <2>1. Missing = {} /\ phase # "idle"
    BY InnerOfCall
  <2> QED BY <2>1, PriceRight
<1>4. IsOrderRequest(inner.order)
  BY <1>1, CallHas DEF IsAdding
<1>5. IsFilter(inner, FilterFor(inner), filters)
  BY <1>2, <1>4, FilterRight
<1>6. AddsTo(market, inner, PriceFor(inner), filters, request.is, Refuses(request), n, read)
  BY <1>1, <1>2, <1>3, <1>4, <1>5, Adds
<1>7. PICK o, v : /\ n = Enter(market, o) /\ IsNew(kind, o) /\ EnteredAs(o, inner, PriceFor(inner), filters)
                  /\ read = Success(v)
                  /\ Text(id) = IF inner.op = "add_order" THEN v ELSE v.order_id
  BY <1>6, Zenon DEF AddsTo
<1> HIDE DEF n, read
<1>8. /\ IsExchange(n) /\ DOMAIN n.orders = 1 .. Len(market.orders) + 1
      /\ \A i \in 1 .. Len(market.orders) : n.orders[i] = market.orders[i]
      /\ \A k \in DOMAIN market \ {"orders"} : n[k] = market[k]
      /\ id = Len(market.orders) + 1
      /\ SameTerms(n.orders[id], o) /\ IsHeld(kind, n.orders[id])
  BY <1>2, <1>7, EnterIs
<1> HIDE DEF id
<1>9. market.orders \in Seq(Orders)
      /\ DOMAIN market = {"status", "time", "fee", "price", "candles", "book", "balances", "orders"}
  BY <1>2 DEF IsExchange
<1>10. Len(market.orders) \in Nat /\ DOMAIN market.orders = 1 .. Len(market.orders)
  BY <1>9
<1>11. DOMAIN n.orders = DOMAIN market.orders \cup {id} /\ id \notin DOMAIN market.orders
  BY <1>8, <1>10
<1>12. n.candles = market.candles /\ n.fee = market.fee
  BY <1>8, <1>9
<1>13. HoldsOnly(n, kind)
  BY <1>2, <1>8, <1>10, <1>11 DEF HoldsOnly
<1>14. AsAsked(n.orders[id])
  <2>1. EnteredAs(n.orders[id], inner, PriceFor(inner), filters)
    BY <1>7, <1>8, SameTermsSameAsked
  <2> QED BY <1>3, <2>1
<1>15. IsEntered(n, id)
  BY <1>11, <1>14 DEF IsEntered
<1>16. ReadsIdOf(inner, Body(request), id)
  <2>1. read.is = "success" /\ read.value = v
    BY <1>7, ResultsTold
  <2>2. IdIn(v) = IF inner.op = "add_order" THEN v ELSE v.order_id
    BY Zenon DEF IdIn
  <2> QED BY <1>7, <2>1, <2>2, Zenon DEF ReadsIdOf, read
<1> QED BY <1>8, <1>12, <1>13, <1>15, <1>16, Zenon DEF n

\* What has arrived leaves the exchange as it must be.
LEMMA Arrived ==
  ASSUME RestInv, phase = "sent", Arrive, UNCHANGED <<kind, filters, call, gathered>>
  PROVE  /\ MarketInv' /\ FiltersInv'
         /\ \/ entered' = {}
            \/ Adding' /\ \E id \in DOMAIN market'.orders :
                             /\ entered' = {id}
                             /\ \A o \in {market'.orders[id]} : AsAsked(o)'
         /\ IsQuery(inner) => market' = market
         /\ inner = call /\ inner.op = "cancel_order" => Evolves(kind, market, market') /\ ~ IsOpen(market', inner.id)
         /\ ~ IsAdding(inner) => entered' = {}
         /\ IsAdding(inner) => \E id \in DOMAIN market'.orders :
                                  entered' = {id} /\ ReadsIdOf(inner, Body(request), id)
<1>0. /\ market' = Effect(request) /\ entered' = entered \cup (DOMAIN market'.orders \ DOMAIN market.orders)
      /\ kind' = kind /\ filters' = filters /\ call' = call /\ gathered' = gathered
  BY DEF Arrive
<1>1. RequestIs
  BY SentIs
<1>2. entered = {}
  BY DEF RestInv, EnteredInv
<1>3. /\ kind \in Kinds /\ IsExchange(market) /\ HoldsOnly(market, kind)
      /\ market.candles = Market.candles /\ market.fee = Market.fee /\ FiltersInv
  BY DEF RestInv, MarketInv
<1>4. FiltersInv'
  BY <1>0, <1>3, Zenon DEF FiltersInv
<1>5. CASE IsQuery(inner) /\ ~ IsAdding(inner) /\ inner.op # "cancel_order"
  <2>1. market' = market
    BY <1>0, <1>5, QueryArrives
  <2>2. entered' = {}
    BY <1>0, <1>2, <2>1
  <2>3. MarketInv'
    BY <1>0, <1>3, <2>1, Zenon DEF MarketInv
  <2> QED BY <1>4, <1>5, <2>1, <2>2, <2>3
<1>6. CASE inner = call /\ inner.op = "cancel_order"
  <2>1. Evolves(kind, market, market') /\ ~ IsOpen(market', inner.id)
    BY <1>0, <1>6, CancelArrives
  <2>2. entered' = {}
    BY <1>0, <1>2, <2>1 DEF Evolves
  <2>3. MarketInv'
    BY <1>0, <1>3, <2>1, Zenon DEF MarketInv, Evolves
  <2>4. ~ IsAdding(inner) /\ ~ IsQuery(inner)
    BY <1>6 DEF IsAdding, IsQuery, Queries
  <2> QED BY <1>4, <1>6, <2>1, <2>2, <2>3, <2>4
<1>7. CASE inner = call /\ IsAdding(inner) /\ ~ NotOfferedFor(inner)
  <2>1. /\ IsExchange(market') /\ HoldsOnly(market', kind)
        /\ market'.candles = market.candles /\ market'.fee = market.fee
        /\ \E id : IsEntered(market', id) /\ ReadsIdOf(inner, Body(request), id)
    BY <1>0, <1>7, OrderArrives, Zenon
  <2>2. PICK id : IsEntered(market', id) /\ ReadsIdOf(inner, Body(request), id)
    BY <2>1
  <2>3. id \in DOMAIN market'.orders /\ entered' = {id}
    BY <1>0, <1>2, <2>2 DEF IsEntered
  <2>4. MarketInv'
    BY <1>0, <1>3, <2>1, Zenon DEF MarketInv
  <2>5. \A o \in {market'.orders[id]} : AsAsked(o)'
    <3>1. \A o : AsAsked(o)' <=> AsAsked(o)
      BY <1>0, RequestStays
    <3>2. AsAsked(market'.orders[id])
      BY <2>2 DEF IsEntered
    <3> QED BY <3>1, <3>2, Zenon
  <2>6. Adding'
    BY <1>0, <1>7 DEF Adding, IsAdding
  <2>7. ~ IsQuery(inner) /\ inner.op # "cancel_order"
    BY <1>7 DEF IsAdding, IsQuery, Queries
  <2> QED BY <1>4, <1>7, <2>2, <2>3, <2>4, <2>5, <2>6, <2>7, Zenon
<1> QED BY <1>1, <1>5, <1>6, <1>7 DEF RequestIs

\* A lost answer preserves the invariant.
LEMMA LoseAnswerStep ==
  ASSUME RestInv, LoseAnswer
  PROVE  RestInv'
<1>0. /\ phase = "sent" /\ Arrive /\ phase' = "idle" /\ outcome' = Throws("mb_exception") /\ lost' = TRUE
      /\ kind' = kind /\ filters' = filters /\ call' = call /\ gathered' = gathered
  BY DEF LoseAnswer, Return
<1>1. /\ MarketInv' /\ FiltersInv'
      /\ \/ entered' = {}
         \/ Adding' /\ \E id \in DOMAIN market'.orders :
                          /\ entered' = {id}
                          /\ \A o \in {market'.orders[id]} : AsAsked(o)'
  BY <1>0, Arrived
<1>2. EnteredInv'
  <2>1. phase' \notin {"asking", "sent"}
    BY <1>0
  <2> QED BY <1>1, <2>1, Zenon DEF EnteredInv
<1>3. CallInv'
  <2>1. call \in Calls
    BY <1>0 DEF RestInv, CallInv
  <2> QED BY <1>0, <2>1 DEF CallInv
<1>4. EndedInv'
  BY <1>0, ThrownRight
<1> QED BY <1>0, <1>1, <1>2, <1>3, <1>4, Idle DEF RestInv

\* Whatever add_order and cancel_order return, it says nothing of the market.
LEMMA FitsNoQuery ==
  ASSUME NEW c, c.op = "cancel_order" \/ IsAdding(c)
  PROVE  \A v, known : Fits(c, v, known)
<1>1. c.op \notin Queries
  BY DEF IsAdding, Queries
<1> QED BY <1>1 DEF Fits, Queries

\* What the exchange answers is read as what it knew, or as the id it has given.
LEMMA AnswerIsRight ==
  ASSUME RestInv, phase = "sent"
  PROVE  IsRead(inner, ReadOf(inner, Body(request)), Known(inner))
<1>1. RequestIs
  BY SentIs
<1>2. CASE IsQuery(inner)
  BY <1>2, QueryArrives
<1>3. CASE inner = call /\ inner.op = "cancel_order"
  <2>1. ReadOf(inner, Body(request)) = Success("void")
    BY <1>3, CancelArrives
  <2> QED BY <1>3, <2>1, FitsNoQuery, ResultsTold, Zenon DEF IsRead
<1>4. CASE inner = call /\ IsAdding(inner) /\ ~ NotOfferedFor(inner)
  <2>1. ReadOf(inner, Body(request)).is = "success"
    BY <1>4, OrderArrives, Zenon DEF ReadsIdOf
  <2> QED BY <1>4, <2>1, FitsNoQuery, Zenon DEF IsRead
<1> QED BY <1>1, <1>2, <1>3, <1>4 DEF RequestIs

\* A request served preserves the invariant.
LEMMA ServeStep ==
  ASSUME RestInv, Serve
  PROVE  RestInv'
<1> DEFINE known0 == Known(inner)
           json0 == Body(request)
<1>0. /\ phase = "sent" /\ Arrive /\ phase' = "answered"
      /\ response' = [code |-> 200, body |-> json0] /\ truth' = With(truth, inner, known0)
      /\ kind' = kind /\ filters' = filters /\ call' = call /\ gathered' = gathered /\ inner' = inner
  BY DEF Serve
<1>a. IsRead(inner, ReadOf(inner, json0), known0)
  BY <1>0, AnswerIsRight
<1>1. /\ MarketInv' /\ FiltersInv'
      /\ \/ entered' = {}
         \/ Adding' /\ \E id \in DOMAIN market'.orders :
                          /\ entered' = {id}
                          /\ \A o \in {market'.orders[id]} : AsAsked(o)'
      /\ IsQuery(inner) => market' = market
      /\ inner = call /\ inner.op = "cancel_order" => Evolves(kind, market, market') /\ ~ IsOpen(market', inner.id)
      /\ ~ IsAdding(inner) => entered' = {}
      /\ IsAdding(inner) => \E id \in DOMAIN market'.orders :
                               entered' = {id} /\ ReadsIdOf(inner, json0, id)
  BY <1>0, Arrived
<1>2. IsCall(inner) /\ RequestIs
  BY <1>0, SentIs
<1>3. /\ \A c, v, known : Fits(c, v, known)' <=> Fits(c, v, known)
      /\ \A c, json : ReadOf(c, json)' = ReadOf(c, json)
      /\ Missing' = Missing /\ (AnswersItself' <=> AnswersItself)
  BY <1>0, KindStays, RequestStays
<1>k. inner = OpenOrdersOf => known0 = InState(market, {"open"})
  BY OpenOrdersCall, Zenon DEF Known, OpenOrdersOf
<1> HIDE DEF known0, json0
<1>4. /\ DOMAIN truth' = DOMAIN truth \cup {inner} /\ truth'[inner] = known0
      /\ \A c \in DOMAIN truth : c # inner => truth'[c] = truth[c]
  <2>1. truth' = With(truth, inner, known0)
    BY <1>0
  <2> QED BY <2>1 DEF With
<1>5. CallInv'
  <2>1. call \in Calls
    BY <1>0 DEF RestInv, CallInv
  <2> QED BY <1>0, <2>1 DEF CallInv
<1>6. /\ DOMAIN gathered \subseteq Before(call) /\ DOMAIN gathered \subseteq DOMAIN truth
      /\ \A c \in DOMAIN gathered : Fits(c, gathered[c], truth[c])
  BY <1>0 DEF RestInv, GatheredInv
<1>7. inner \notin DOMAIN gathered
  <2>1. inner \in Missing \/ inner = call
    BY <1>0 DEF RestInv, SentInv
  <2>2. inner \in Missing => inner \notin DOMAIN gathered
    BY DEF Missing
  <2>3. inner = call => inner \notin DOMAIN gathered
    BY <1>2, <1>6, NotBefore
  <2> QED BY <2>1, <2>2, <2>3
<1>8. GatheredInv'
  <2>1. Before(call)' = Before(call)
    BY <1>0, Zenon DEF Before, Loops, AsksPrice
  <2>2. DOMAIN gathered' \subseteq Before(call)' /\ DOMAIN gathered' \subseteq DOMAIN truth'
    BY <1>0, <1>4, <1>6, <2>1
  <2>3. \A c \in DOMAIN gathered : c # inner /\ truth'[c] = truth[c]
    BY <1>4, <1>6, <1>7
  <2>4. \A c \in DOMAIN gathered' : \A v \in {gathered'[c]}, known \in {truth'[c]} : Fits(c, v, known)'
    BY <1>0, <1>3, <1>6, <2>3, Zenon
  <2> QED BY <2>2, <2>4, Zenon DEF GatheredInv
<1>9. SentInv'
  <2>1. phase' # "sent"
    BY <1>0
  <2>2. \/ inner \in Missing
        \/ Missing = {} /\ inner = call /\ ~ AnswersItself
    BY <1>0 DEF RestInv, SentInv
  <2> QED BY <1>0, <1>3, <2>1, <2>2, Zenon DEF SentInv
<1>10. ListedInv'
  <2> SUFFICES ASSUME kind = "binance", call.op = "cancel_order", OpenOrdersOf \in DOMAIN truth'
               PROVE  /\ truth'[OpenOrdersOf] \in Seq(Orders)
                      /\ \A i \in DOMAIN market'.orders : market'.orders[i].state = "open" =>
                           \E j \in DOMAIN truth'[OpenOrdersOf] : truth'[OpenOrdersOf][j].id = market'.orders[i].id
    BY <1>0, Zenon DEF ListedInv
  <2>1. CASE inner = OpenOrdersOf
    <3>1. truth'[OpenOrdersOf] = InState(market, {"open"})
      BY <1>4, <1>k, <2>1
    <3>2. market' = market
      <4>1. IsQuery(inner)
        BY <2>1, OpenOrdersCall DEF IsQuery, Queries, OpenOrdersOf
      <4> QED BY <1>1, <4>1
    <3>3. IsExchange(market)
      BY DEF RestInv, MarketInv
    <3> DEFINE s == InState(market, {"open"})
    <3>4. /\ s \in Seq(Orders)
          /\ \A j \in 1 .. Len(market.orders) : market.orders[j].state \in {"open"} =>
               \E i \in 1 .. Len(s) : s[i] = market.orders[j]
      BY <3>3, OrdersInState
    <3> HIDE DEF s
    <3>5. DOMAIN s = 1 .. Len(s)
      BY <3>4
    <3>6. DOMAIN market.orders = 1 .. Len(market.orders)
      BY <3>3 DEF IsExchange
    <3>7. \A i \in DOMAIN market.orders : market.orders[i].state = "open" =>
             \E j \in DOMAIN s : s[j].id = market.orders[i].id
      BY <3>4, <3>5, <3>6
    <3> QED BY <3>1, <3>2, <3>4, <3>7, Zenon DEF s
  <2>2. CASE inner # OpenOrdersOf
    <3>1. OpenOrdersOf \in DOMAIN truth /\ truth'[OpenOrdersOf] = truth[OpenOrdersOf]
      BY <1>4, <2>2
    <3>2. /\ truth[OpenOrdersOf] \in Seq(Orders)
          /\ \A i \in DOMAIN market.orders : market.orders[i].state = "open" =>
               \E j \in DOMAIN truth[OpenOrdersOf] : truth[OpenOrdersOf][j].id = market.orders[i].id
      BY <1>0, <3>1 DEF RestInv, ListedInv
    <3>3. inner = call
      <4>1. inner \in Before(call) \/ inner = call
        BY <1>0 DEF RestInv, SentInv, Missing
      <4>2. Before(call) = {OpenOrdersOf}
        BY BeforeIs
      <4> QED BY <2>2, <4>1, <4>2
    <3>4. Evolves(kind, market, market')
      BY <1>1, <3>3
    <3>5. /\ DOMAIN market'.orders = DOMAIN market.orders
          /\ \A i \in DOMAIN market.orders :
               market'.orders[i].id = market.orders[i].id
               /\ (market'.orders[i].state = "open" => market.orders[i].state = "open")
      BY <3>4 DEF Evolves
    <3> QED BY <3>1, <3>2, <3>5, Zenon
  <2> QED BY <2>1, <2>2
<1>11. EnteredInv'
  <2>1. phase' \notin {"asking", "sent"}
    BY <1>0
  <2> QED BY <1>1, <2>1, Zenon DEF EnteredInv
<1>12. WasServed'
  <2>1. response'.code = 200 /\ response'.body = json0
    BY <1>0
  <2>2. inner' \in DOMAIN truth'
    BY <1>0, <1>4
  <2>3. ReadsRight'
    <3>1. \A c, json, known : ReadsAs(c, json, known)' <=> ReadsAs(c, json, known)
      BY <1>0, <1>3, Zenon DEF ReadsAs, IsRead
    <3>2. ReadsAs(inner, json0, known0)
      BY <1>a, Zenon DEF ReadsAs
    <3>3. \A c \in {inner}, json \in {json0}, known \in {known0} : ReadsAs(c, json, known)'
      BY <3>1, <3>2, Zenon
    <3> QED BY <1>0, <1>4, <2>1, <3>3, Zenon DEF ReadsRight
  <2>4. inner.op = "cancel_order" => ~ IsOpen(market', inner.id)
    <3>1. inner.op = "cancel_order" => inner = call
      BY <1>2 DEF RequestIs, IsQuery, Queries, IsAdding
    <3> QED BY <1>1, <3>1
  <2>5. CASE IsAdding(inner)
    <3>1. PICK id \in DOMAIN market'.orders : entered' = {id} /\ ReadsIdOf(inner, json0, id)
      BY <1>1, <2>5
    <3>2. \A c, json : ReadsId(c, json, id)' <=> ReadsId(c, json, id)
      BY <1>0, <1>3, Zenon DEF ReadsId, IdIn
    <3>3. ReadsId(inner, json0, id)
      BY <3>1, Zenon DEF ReadsIdOf, ReadsId
    <3>4. \A c \in {inner}, json \in {json0} : ReadsId(c, json, id)'
      BY <3>2, <3>3, Zenon
    <3>5. ReadsEntered'
      BY <1>0, <2>1, <3>1, <3>4, Zenon DEF ReadsEntered
    <3> QED BY <1>0, <2>1, <2>2, <2>3, <2>4, <2>5, <3>5, Zenon DEF WasServed, IsAdding
  <2>6. CASE ~ IsAdding(inner)
    BY <1>0, <1>1, <2>1, <2>2, <2>3, <2>4, <2>6, Zenon DEF WasServed, IsAdding
  <2> QED BY <2>5, <2>6
<1>13. AnsweredInv'
  BY <1>12, Zenon DEF AnsweredInv
<1>14. EndedInv'
  <2>1. phase' # "idle"
    BY <1>0
  <2> QED BY <2>1, NotEnded
<1> QED BY <1>1, <1>5, <1>8, <1>9, <1>10, <1>11, <1>13, <1>14 DEF RestInv

-----------------------------------------------------------------------------
(***************************************************************************)
(* The caller asks.                                                        *)
(***************************************************************************)
\* A call that needs no request of its own answers with what it has gathered.
LEMMA OwnAnswerAgrees ==
  ASSUME RestInv, phase # "idle", Missing = {}, AnswersItself
  PROVE  Agrees(OwnAnswer) /\ ~ Adding
<1>1. \A c \in Before(call) : c \in DOMAIN gathered /\ Fits(c, gathered[c], truth[c])
  BY DEF RestInv, GatheredInv, Missing
<1>2. IsCall(call)
  BY CallsAssumption, Zenon DEF RestInv, CallInv
<1>3. CASE call.op = "get_prices"
  <2>1. Loops(call)
    BY <1>3 DEF AnswersItself, Loops
  <2>2. Before(call) = {PriceOf(p) : p \in call.pairs}
    BY <1>3, <2>1, BeforeIs
  <2>3. \A p \in call.pairs : gathered[PriceOf(p)] = truth[PriceOf(p)]
    <3> TAKE p \in call.pairs
    <3>1. Fits(PriceOf(p), gathered[PriceOf(p)], truth[PriceOf(p)])
      BY <1>1, <2>2
    <3>2. PriceOf(p).op = "get_price"
      BY DEF PriceOf
    <3> QED BY <3>1, <3>2, Zenon DEF Fits
  <2>4. OwnAnswer = [p \in call.pairs |-> gathered[PriceOf(p)]]
    BY <1>3, Zenon DEF OwnAnswer
  <2>5. OwnAnswer = [p \in call.pairs |-> truth[PriceOf(p)]]
    BY <2>3, <2>4, Zenon
  <2> QED BY <1>3, <2>1, <2>5, Zenon DEF Agrees, Adding
<1>4. CASE call.op = "get_order_books"
  <2>1. Before(call) = {BookOf(p, call.depth) : p \in call.pairs}
    BY <1>4, BeforeIs
  <2>2. \A p \in call.pairs : SameBook(gathered[BookOf(p, call.depth)], truth[BookOf(p, call.depth)], call.depth)
    <3> TAKE p \in call.pairs
    <3> DEFINE b == BookOf(p, call.depth)
    <3>1. Fits(b, gathered[b], truth[b])
      BY <1>1, <2>1
    <3>2. b.op = "get_order_book" /\ b.depth = call.depth
      BY DEF BookOf
    <3> HIDE DEF b
    <3>3. SameBook(gathered[b], truth[b], call.depth)
      BY <3>1, <3>2, Zenon DEF Fits
    <3> QED BY <3>3 DEF b
  <2>3. OwnAnswer = [p \in call.pairs |-> gathered[BookOf(p, call.depth)]]
    BY <1>4, Zenon DEF OwnAnswer
  <2>4. \A p \in call.pairs : OwnAnswer[p] = gathered[BookOf(p, call.depth)]
    BY <2>3
  <2>5. \A p \in call.pairs : SameBook(OwnAnswer[p], truth[BookOf(p, call.depth)], call.depth)
    BY <2>2, <2>4, Zenon
  <2> QED BY <1>4, <2>5, Zenon DEF Agrees, Adding
<1>5. CASE call.op = "get_fee"
  <2>1. kind \in {"bybit", "digifinex"}
    BY <1>5 DEF AnswersItself, Loops
  <2> QED BY <1>5, <2>1, Zenon DEF Agrees, Adding
<1>6. CASE call.op = "get_status"
  <2>1. kind = "coinbase"
    BY <1>6 DEF AnswersItself, Loops
  <2> QED BY <1>6, <2>1, Zenon DEF Agrees, Adding
<1>7. CASE call.op = "cancel_order"
  BY <1>7, Zenon DEF Agrees, Adding
<1> QED BY <1>3, <1>4, <1>5, <1>6, <1>7 DEF AnswersItself, Loops

\* What a class offers is asked for over HTTP.
LEMMA OfferedIsAsked ==
  ASSUME RestInv, phase # "idle", Missing = {}, ~ AnswersItself, ~ NotOfferedFor(call)
  PROVE  HttpRequest(call).is = "http"
<1> DEFINE r == HttpRequest(call)
<1> HIDE DEF r
<1>0. MarketInv /\ FiltersInv /\ kind \in Kinds /\ IsExchange(market)
  BY DEF RestInv, MarketInv
<1>1. IsCall(call)
  BY CallsAssumption, Zenon DEF RestInv, CallInv
<1>2. call.op \in Queries \cup {"get_order_books", "cancel_order", "add_order", "add_order_confirm"}
  BY <1>1, CallHas, Zenon
<1>3. ~ Loops(call) /\ ~ (call.op = "get_fee" /\ kind \in {"bybit", "digifinex"})
      /\ ~ (call.op = "get_status" /\ kind = "coinbase")
  BY Zenon DEF AnswersItself
<1>4. CASE call.op \in Queries
  <2>1. IsQuery(call)
    BY <1>3, <1>4, Zenon DEF IsQuery, Loops, NotOfferedFor
  <2> QED BY <1>0, <1>1, <2>1, QueryIsServed, Zenon
<1>5. CASE call.op = "get_order_books"
  BY <1>3, <1>5 DEF Loops
<1>6. CASE call.op = "cancel_order"
  BY <1>0, <1>6, Cancels, Zenon
<1>7. CASE call.op \in {"add_order", "add_order_confirm"}
  <2>1. IsAdding(call) /\ IsOrderRequest(call.order)
    BY <1>1, <1>7, CallHas DEF IsAdding
  <2>2. PriceFor(call) \in Nat
    BY <2>1, PriceRight
  <2>3. IsFilter(call, FilterFor(call), filters)
    BY <1>0, <2>1, FilterRight
  <2>4. r = HttpRequest(call)
    BY DEF r
  <2>5. AddsTo(market, call, PriceFor(call), filters, r.is, Refuses(r), Effect(r), ReadOf(call, Body(r)))
    BY <1>0, <2>1, <2>2, <2>3, <2>4, Adds
  <2>6. r.is = "http"
    BY <2>5, Zenon DEF AddsTo
  <2> QED BY <2>4, <2>6
<1> QED BY <1>2, <1>4, <1>5, <1>6, <1>7

\* A request of the call, or of what it needs, is under way.
LEMMA SendRight ==
  ASSUME RestInv, phase = "asking", phase' = "sent", UNCHANGED <<kind, market, filters, call, gathered, history>>,
         NEW c, inner' = c, request' = HttpRequest(c), HttpRequest(c).is = "http",
         c \in Missing \/ (Missing = {} /\ c = call /\ ~ AnswersItself)
  PROVE  RestInv'
<1>0. /\ kind' = kind /\ market' = market /\ filters' = filters /\ call' = call
      /\ gathered' = gathered /\ truth' = truth /\ entered' = entered
      /\ phase # "idle" /\ phase' # "idle"
  BY DEF history
<1>1. MarketInv'
  BY <1>0, Zenon DEF RestInv, MarketInv
<1>2. FiltersInv' /\ CallInv'
  <2>1. FiltersInv'
    BY <1>0, Zenon DEF RestInv, FiltersInv
  <2>2. call \in Calls
    BY <1>0 DEF RestInv, CallInv
  <2>3. CallInv'
    BY <1>0, <2>2 DEF CallInv
  <2> QED BY <2>1, <2>3
<1>3. /\ \A x, v, known : Fits(x, v, known)' <=> Fits(x, v, known)
      /\ \A x : HttpRequest(x)' = HttpRequest(x)
      /\ Missing' = Missing /\ (AnswersItself' <=> AnswersItself)
  BY <1>0, KindStays, RequestStays
<1>4. GatheredInv'
  <2>1. Before(call)' = Before(call)
    BY <1>0, Zenon DEF Before, Loops, AsksPrice
  <2> QED BY <1>0, <1>3, <2>1, Zenon DEF RestInv, GatheredInv
<1>5. SentInv'
  <2>1. \A x \in {inner'} : request' = HttpRequest(x)'
    BY <1>3
  <2>2. request'.is # "thrown"
    OBVIOUS
  <2>3. \/ inner' \in Missing'
        \/ Missing' = {} /\ inner' = call' /\ ~ AnswersItself'
    BY <1>0, <1>3
  <2> QED BY <2>1, <2>2, <2>3, Zenon DEF SentInv
<1>6. ListedInv'
  BY <1>0, Zenon DEF RestInv, ListedInv
<1>7. EnteredInv'
  <2>1. entered = {}
    BY DEF RestInv, EnteredInv
  <2> QED BY <1>0, <2>1, Zenon DEF EnteredInv
<1>8. AnsweredInv'
  <2>1. phase' # "answered"
    OBVIOUS
  <2> QED BY <2>1, Zenon DEF AnsweredInv
<1>9. EndedInv'
  BY <1>0, NotEnded
<1> QED BY <1>1, <1>2, <1>4, <1>5, <1>6, <1>7, <1>8, <1>9 DEF RestInv

\* A call ends before it has entered an order.
LEMMA EndsRight ==
  ASSUME RestInv, phase \in {"asking", "sent"} \/ (phase = "answered" /\ entered = {}), phase' = "idle",
         UNCHANGED <<kind, market, call, entered>>, FiltersInv', EndedInv'
  PROVE  RestInv'
<1>1. entered = {}
  BY DEF RestInv, EnteredInv
<1>2. EnteredInv'
  BY <1>1, Zenon DEF EnteredInv
<1>3. call \in Calls
  BY DEF RestInv, CallInv
<1>4. CallInv'
  BY <1>3 DEF CallInv
<1>5. MarketInv'
  BY Zenon DEF RestInv, MarketInv
<1> QED BY <1>2, <1>4, <1>5, Idle DEF RestInv

\* A request sent preserves the invariant.
LEMMA AskStep ==
  ASSUME RestInv, Ask
  PROVE  RestInv'
<1>0. /\ phase = "asking" /\ phase # "idle" /\ kind' = kind /\ market' = market /\ filters' = filters /\ call' = call
      /\ gathered' = gathered /\ history' = history /\ truth' = truth /\ entered' = entered /\ lost' = lost
      /\ refused' = refused
  BY DEF Ask, history
<1>f. FiltersInv'
  BY <1>0, Zenon DEF RestInv, FiltersInv
<1>m. MarketInv
  BY DEF RestInv
<1>c. IsCall(call)
  BY <1>0, CallsAssumption, Zenon DEF RestInv, CallInv
<1>1. CASE Missing # {}
  <2>1. PICK c \in Missing : Send(c)
    BY <1>1 DEF Ask
  <2>2. IsCall(c) /\ c.op \in {"get_price", "get_order_book", "get_open_orders"}
    BY <1>c, BeforeHas DEF Missing
  <2>3. IsQuery(c)
    BY <2>2 DEF IsQuery, Queries
  <2>4. HttpRequest(c).is = "http"
    BY <1>m, <2>2, <2>3, QueryIsServed, Zenon
  <2>5. inner' = c /\ request' = HttpRequest(c) /\ phase' = "sent"
    BY <2>1, <2>4 DEF Send
  <2> QED BY <1>0, <2>4, <2>5, SendRight
<1>2. CASE Missing = {} /\ AnswersItself
  <2>1. phase' = "idle" /\ outcome' = Value(OwnAnswer)
    BY <1>2 DEF Ask, Return
  <2>2. Agrees(OwnAnswer) /\ ~ Adding
    BY <1>0, <1>2, OwnAnswerAgrees
  <2>3. outcome'.is = "value" /\ outcome'.value = OwnAnswer
    BY <2>1 DEF Value
  <2>4. \A v : Agrees(v)' <=> Agrees(v)
    BY <1>0, AgreesStays
  <2>5. ~ Adding' /\ ~ Thrown' /\ outcome'.is # "undefined"
    BY <1>0, <2>2, <2>3 DEF Adding, Thrown
  <2>6. CancelledIsNotOpen'
    <3>1. ASSUME call.op = "cancel_order"
          PROVE  ~ IsOpen(market, call.id)
      <4>1. kind = "binance" /\ Listed = {}
        BY <1>2, <3>1 DEF AnswersItself, Loops
      <4> QED BY <1>0, <1>2, <3>1, <4>1, ListedIs
    <3> QED BY <1>0, <3>1, Zenon DEF CancelledIsNotOpen
  <2>7. FailsForAReason'
    BY <2>5, Zenon DEF FailsForAReason
  <2>8. \A v \in {outcome'.value} : Agrees(v)'
    BY <2>2, <2>3, <2>4, Zenon
  <2>9. EndedInv'
    BY <2>5, <2>6, <2>7, <2>8, Zenon DEF EndedInv
  <2> QED BY <1>0, <1>f, <2>1, <2>9, EndsRight
<1>3. CASE Missing = {} /\ ~ AnswersItself
  <2>1. Send(call)
    BY <1>3 DEF Ask
  <2>2. CASE NotOfferedFor(call)
    <3>1. HttpRequest(call).is = "thrown"
      <4>1. kind \in Kinds
        BY <1>m DEF MarketInv
      <4> QED BY <2>2, <4>1, NotOfferedIsThrown
    <3>2. phase' = "idle" /\ outcome' = HttpRequest(call)
      BY <2>1, <3>1 DEF Send, Return
    <3>3. NotOffered'
      BY <1>0, <2>2, Zenon DEF NotOfferedFor, NotOffered, Adding
    <3>4. outcome'.is = "thrown"
      BY <3>1, <3>2
    <3>5. ~ Returned' /\ outcome'.is # "undefined"
      BY <3>4 DEF Returned
    <3>6. CancelledIsNotOpen' /\ FailsForAReason'
      BY <3>3, <3>5, Zenon DEF CancelledIsNotOpen, FailsForAReason
    <3>7. entered' = {}
      BY <1>0 DEF RestInv, EnteredInv
    <3>8. EndedInv'
      BY <3>5, <3>6, <3>7, Zenon DEF EndedInv
    <3> QED BY <1>0, <1>f, <3>2, <3>8, EndsRight
  <2>3. CASE ~ NotOfferedFor(call)
    <3>1. HttpRequest(call).is = "http"
      BY <1>0, <1>3, <2>3, OfferedIsAsked
    <3>2. inner' = call /\ request' = HttpRequest(call) /\ phase' = "sent"
      BY <2>1, <3>1 DEF Send
    <3> QED BY <1>0, <1>3, <3>1, <3>2, SendRight
  <2> QED BY <2>2, <2>3
<1> QED BY <1>1, <1>2, <1>3

-----------------------------------------------------------------------------
(***************************************************************************)
(* The caller receives.                                                    *)
(***************************************************************************)
\* get_prices of Binance and Kraken: the names of the answer are turned into pairs.
LEMMA PricesFinished ==
  ASSUME kind \in {"binance", "kraken"}, call.op = "get_prices", NEW v, NEW known, Fits(call, v, known)
  PROVE  \/ create_pair_result_map(call.pairs, v) = Throws("out_of_range") /\ NotFound
         \/ create_pair_result_map(call.pairs, v) = Value(known)
<1> DEFINE P == call.pairs
<1>1. \A p : Named(p) = Name(p, "")
  <2>1. CASE kind = "binance"
    BY <2>1, Zenon DEF Named
  <2>2. CASE kind = "kraken"
    BY <2>2, Zenon DEF Named
  <2> QED BY <2>1, <2>2
<1>2. /\ known = [p \in P |-> known[p]]
      /\ \/ /\ DOMAIN v = {Name(p, "") : p \in P}
            /\ \A p \in P : v[Name(p, "")] = known[p]
         \/ kind = "kraken" /\ OldNameRead(v, P)
  BY Zenon DEF Fits
<1>3. CASE kind = "kraken" /\ OldNameRead(v, P)
  <2>1. \E name \in DOMAIN v : \A p \in P : Named(p) # name
    BY <1>1, <1>3, Zenon DEF OldNameRead
  <2>2. create_pair_result_map(P, v) = Throws("out_of_range")
    BY <2>1, Zenon DEF create_pair_result_map
  <2>3. NotFound
    BY <1>3, Zenon DEF NotFound, OldNameRead
  <2> QED BY <2>2, <2>3
<1>4. CASE /\ DOMAIN v = {Name(p, "") : p \in P}
           /\ \A p \in P : v[Name(p, "")] = known[p]
  <2>1. ~ \E name \in DOMAIN v : \A p \in P : Named(p) # name
    BY <1>1, <1>4
  <2>2. {q \in P : Named(q) \in DOMAIN v} = P
    BY <1>1, <1>4
  <2>3. create_pair_result_map(P, v) = Value([p \in {q \in P : Named(q) \in DOMAIN v} |-> v[Named(p)]])
    BY <2>1, Zenon DEF create_pair_result_map
  <2>4. [p \in {q \in P : Named(q) \in DOMAIN v} |-> v[Named(p)]] = [p \in P |-> known[p]]
    BY <1>1, <1>4, <2>2
  <2> QED BY <1>2, <2>3, <2>4, Zenon
<1> QED BY <1>2, <1>3, <1>4

\* What a call returns is what the exchange knew, or a name is not found.
LEMMA FinishedRight ==
  ASSUME RestInv, phase # "idle", Missing = {}, ~ AnswersItself, NEW v, Fits(call, v, truth[call])
  PROVE  \/ Finished(v) = Throws("out_of_range") /\ NotFound
         \/ \E w : /\ Finished(v) = Value(w) /\ Agrees(w)
                   /\ call.op \in {"get_prices", "get_tradable_pairs"} \/ w = v
<1>0. market.candles = Market.candles /\ market.fee = Market.fee /\ kind \in Kinds
  BY DEF RestInv, MarketInv
<1>1. CASE call.op = "get_prices"
  <2>1. ~ Loops(call)
    BY <1>1 DEF AnswersItself
  <2>2. kind \in {"binance", "kraken"}
    BY <1>1, <2>1 DEF Loops
  <2>3. Finished(v) = create_pair_result_map(call.pairs, v)
    BY <1>1, Zenon DEF Finished
  <2>4. Agrees(truth[call])
    BY <1>1, <2>1, Zenon DEF Agrees
  <2> QED BY <1>1, <2>2, <2>3, <2>4, PricesFinished
<1>2. CASE call.op = "get_tradable_pairs"
  <2>1. CASE kind = "binance"
    <3>1. v = [p \in Pairs |-> Binance!FilterOf(p)]
      BY <1>2, <2>1, Zenon DEF Fits
    <3>2. DOMAIN v = Pairs
      BY <3>1
    <3>3. Finished(v) = Value(DOMAIN v)
      BY <1>2, <2>1, Zenon DEF Finished
    <3>4. Agrees(DOMAIN v)
      BY <1>2, <3>2, Zenon DEF Agrees
    <3> QED BY <1>2, <3>3, <3>4
  <2>2. CASE kind # "binance"
    <3>1. v = Pairs
      BY <1>2, <2>2, Zenon DEF Fits
    <3>2. Finished(v) = Value(v)
      BY <1>2, <2>2, Zenon DEF Finished
    <3>3. Agrees(v)
      BY <1>2, <3>1, Zenon DEF Agrees
    <3> QED BY <3>2, <3>3
  <2> QED BY <2>1, <2>2
<1>3. CASE call.op \notin {"get_prices", "get_tradable_pairs"}
  <2>1. Finished(v) = Value(v)
    BY <1>3, Zenon DEF Finished
  <2>2. Agrees(v)
    <3>1. CASE call.op = "get_status"
      BY <3>1, Zenon DEF Fits, Agrees
    <3>2. CASE call.op = "get_ohlcv"
      BY <1>0, <3>2, Zenon DEF Fits, Agrees
    <3>3. CASE call.op = "get_price"
      BY <3>3, Zenon DEF Fits, Agrees
    <3>4. CASE call.op = "get_order_book"
      BY <3>4, Zenon DEF Fits, Agrees
    <3>5. CASE call.op = "get_fee"
      <4>1. v = 100 * market.fee
        BY <1>0, <3>5, Zenon DEF Fits
      <4> QED BY <3>5, <4>1, Zenon DEF Agrees
    <3>6. CASE call.op = "get_balances"
      BY <3>6, Zenon DEF Fits, Agrees
    <3>7. CASE call.op \in {"get_open_orders", "get_closed_orders"}
      <4>1. SameOrders(v, truth[call])
        BY <3>7, Zenon DEF Fits
      <4>2. CASE call.op = "get_open_orders"
        BY <4>1, <4>2, Zenon DEF Agrees
      <4>3. CASE call.op = "get_closed_orders"
        BY <4>1, <4>3, Zenon DEF Agrees
      <4> QED BY <3>7, <4>2, <4>3
    <3>8. CASE call.op \in {"cancel_order", "add_order", "add_order_confirm"}
      <4>1. CASE call.op = "cancel_order"
        BY <4>1, Zenon DEF Agrees
      <4>2. CASE call.op = "add_order"
        BY <4>2, Zenon DEF Agrees
      <4>3. CASE call.op = "add_order_confirm"
        BY <4>3, Zenon DEF Agrees
      <4> QED BY <3>8, <4>1, <4>2, <4>3
    <3>9. call.op # "get_order_books"
      BY DEF AnswersItself, Loops
    <3>10. IsCall(call)
      BY CallsAssumption, Zenon DEF RestInv, CallInv
    <3> QED BY <1>3, <3>1, <3>2, <3>3, <3>4, <3>5, <3>6, <3>7, <3>8, <3>9, <3>10, CallHas DEF Queries
  <2> QED BY <2>1, <2>2
<1> QED BY <1>1, <1>2, <1>3

\* What send_http_request has read of the response.
ResultOf == IF response.code # 200 THEN Fail ELSE ReadBody(response.body)

\* The effect of Receive, by what was read.
LEMMA ReceiveIs ==
  ASSUME Receive, NEW result, result = ResultOf
  PROVE  /\ phase = "answered" /\ kind' = kind /\ market' = market /\ call' = call
         /\ truth' = truth /\ entered' = entered /\ lost' = lost /\ refused' = refused
         /\ filters' = IF result.is = "success" /\ kind = "binance" /\ inner.op = "get_tradable_pairs"
                       THEN result.value ELSE filters
         /\ result.is = "fail" => phase' = "idle" /\ outcome' = Throws("mb_exception")
         /\ result.is = "undefined" => phase' = "idle" /\ outcome' = result
         /\ result.is = "success" /\ inner \in Before(call) =>
              phase' = "asking" /\ gathered' = With(gathered, inner, result.value) /\ outcome' = outcome
         /\ result.is = "success" /\ inner \notin Before(call) =>
              phase' = "idle" /\ outcome' = Finished(result.value) /\ gathered' = gathered
<1>1. result = IF response.code # 200 THEN Fail ELSE ReadBody(response.body)
  BY DEF ResultOf
<1>2. /\ phase = "answered" /\ kind' = kind /\ market' = market /\ call' = call
      /\ truth' = truth /\ entered' = entered /\ lost' = lost /\ refused' = refused
  BY DEF Receive, history
<1>3. /\ filters' = IF result.is = "success" /\ kind = "binance" /\ inner.op = "get_tradable_pairs"
                    THEN result.value ELSE filters
      /\ IF result.is = "fail" THEN Return(Throws("mb_exception")) /\ UNCHANGED gathered
         ELSE IF result.is = "undefined" THEN Return(result) /\ UNCHANGED gathered
         ELSE IF inner \in Before(call)
         THEN /\ gathered' = With(gathered, inner, result.value)
              /\ phase' = "asking" /\ inner' = NoCall /\ request' = None /\ response' = None
              /\ UNCHANGED outcome
         ELSE Return(Finished(result.value)) /\ UNCHANGED gathered
  BY <1>1, Zenon DEF Receive
<1> QED BY <1>2, <1>3 DEF Return

\* A response was refused, or it reads as what the exchange knew.
LEMMA AnsweredIs ==
  ASSUME RestInv, phase = "answered", NEW result, result = ResultOf
  PROVE  \/ result = Fail /\ WasRefused
         \/ IsRead(inner, result, truth[inner]) /\ WasServed /\ result = ReadOf(inner, response.body)
<1>1. WasRefused \/ WasServed
  BY DEF RestInv, AnsweredInv
<1>2. ReadBody(response.body) = ReadOf(inner, response.body)
  BY ReadsInner
<1>3. CASE WasRefused
  <2>1. CASE response.code # 200
    BY <1>3, <2>1, Zenon DEF ResultOf
  <2>2. CASE FailsToRead
    <3>1. ReadOf(inner, response.body) = Fail
      BY <2>2, Zenon DEF FailsToRead, ReadsFail
    <3> QED BY <1>2, <1>3, <3>1, Zenon DEF ResultOf
  <2> QED BY <1>3, <2>1, <2>2, Zenon DEF WasRefused
<1>4. CASE WasServed
  <2>1. response.code = 200 /\ ReadsRight
    BY <1>4, Zenon DEF WasServed
  <2>2. result = ReadOf(inner, response.body)
    BY <1>2, <2>1, Zenon DEF ResultOf
  <2>3. IsRead(inner, ReadOf(inner, response.body), truth[inner])
    BY <2>1, Zenon DEF ReadsRight, ReadsAs
  <2> QED BY <1>4, <2>2, <2>3, Zenon
<1> QED BY <1>1, <1>3, <1>4

\* An answer to what a call needs first.
LEMMA GatherStep ==
  ASSUME RestInv, Receive, NEW result, result = ResultOf, result.is = "success", inner \in Before(call),
         Fits(inner, result.value, truth[inner]), WasServed, FiltersInv'
  PROVE  RestInv'
<1> DEFINE value == result.value
<1> HIDE DEF value
<1>0. /\ phase = "answered" /\ kind' = kind /\ market' = market /\ call' = call
      /\ truth' = truth /\ entered' = entered /\ phase' = "asking" /\ gathered' = With(gathered, inner, value)
  BY ReceiveIs, Zenon DEF value
<1>1. /\ DOMAIN gathered' = DOMAIN gathered \cup {inner} /\ gathered'[inner] = value
      /\ \A c \in DOMAIN gathered : c # inner => gathered'[c] = gathered[c]
  <2>1. gathered' = With(gathered, inner, value)
    BY <1>0
  <2> QED BY <2>1 DEF With
<1>2. call \in Calls /\ IsCall(call)
  BY <1>0, CallsAssumption DEF RestInv, CallInv
<1>3. entered = {}
  <2>1. ~ IsAdding(inner)
    BY <1>2, BeforeHas DEF IsAdding
  <2> QED BY <2>1 DEF WasServed
<1>4. MarketInv'
  BY <1>0, Zenon DEF RestInv, MarketInv
<1>5. CallInv'
  BY <1>0, <1>2 DEF CallInv
<1>6. GatheredInv'
  <2>1. /\ DOMAIN gathered \subseteq Before(call) /\ DOMAIN gathered \subseteq DOMAIN truth
        /\ \A c \in DOMAIN gathered : Fits(c, gathered[c], truth[c])
    BY <1>0 DEF RestInv, GatheredInv
  <2>2. Before(call)' = Before(call)
    BY <1>0, Zenon DEF Before, Loops, AsksPrice
  <2>3. inner \in DOMAIN truth
    BY DEF WasServed
  <2>4. \A c \in DOMAIN gathered' : Fits(c, gathered'[c], truth[c])
    <3> TAKE c \in DOMAIN gathered'
    <3>1. CASE c = inner
      BY <1>1, <3>1 DEF value
    <3>2. CASE c # inner
      BY <1>1, <2>1, <3>2
    <3> QED BY <3>1, <3>2
  <2>5. \A c, v, known : Fits(c, v, known)' <=> Fits(c, v, known)
    BY <1>0, KindStays
  <2>6. \A c \in DOMAIN gathered' : \A v \in {gathered'[c]}, known \in {truth'[c]} : Fits(c, v, known)'
    BY <1>0, <2>4, <2>5, Zenon
  <2>7. DOMAIN gathered' \subseteq Before(call)' /\ DOMAIN gathered' \subseteq DOMAIN truth'
    BY <1>0, <1>1, <2>1, <2>2, <2>3
  <2> QED BY <2>6, <2>7, Zenon DEF GatheredInv
<1>7. SentInv' /\ AnsweredInv'
  <2>1. phase' \notin {"sent", "answered"} /\ phase' # "sent" /\ phase' # "answered"
    BY <1>0
  <2> QED BY <2>1, Zenon DEF SentInv, AnsweredInv
<1>8. ListedInv'
  <2>1. phase # "idle"
    BY <1>0
  <2> QED BY <1>0, <2>1, Zenon DEF RestInv, ListedInv
<1>9. EnteredInv'
  BY <1>0, <1>3, Zenon DEF EnteredInv
<1>10. EndedInv'
  <2>1. phase' # "idle"
    BY <1>0
  <2> QED BY <2>1, NotEnded
<1> QED BY <1>4, <1>5, <1>6, <1>7, <1>8, <1>9, <1>10 DEF RestInv

\* The answer to the call.
LEMMA FinishStep ==
  ASSUME RestInv, Receive, NEW result, result = ResultOf, result.is = "success", inner \notin Before(call),
         result = ReadOf(inner, response.body), Fits(inner, result.value, truth[inner]), WasServed, FiltersInv'
  PROVE  RestInv'
<1> DEFINE value == result.value
<1> HIDE DEF value
<1>0. /\ phase = "answered" /\ phase # "idle" /\ kind' = kind /\ market' = market /\ call' = call
      /\ truth' = truth /\ entered' = entered /\ lost' = lost /\ refused' = refused
      /\ phase' = "idle" /\ gathered' = gathered /\ outcome' = Finished(value)
      /\ inner.op # "get_tradable_pairs" => filters' = filters
  BY ReceiveIs DEF value
<1>1. inner = call
  <2>1. inner \in Missing \/ inner = call
    BY <1>0 DEF RestInv, SentInv
  <2> QED BY <2>1 DEF Missing
<1>2. Missing = {} /\ ~ AnswersItself
  BY <1>0, <1>1, InnerOfCall
<1>3. \/ Finished(value) = Throws("out_of_range") /\ NotFound
      \/ \E w : /\ Finished(value) = Value(w) /\ Agrees(w)
                /\ call.op \in {"get_prices", "get_tradable_pairs"} \/ w = value
  <2>1. Fits(call, value, truth[call])
    BY <1>1 DEF value
  <2> QED BY <1>0, <1>2, <2>1, FinishedRight
<1>4. /\ inner.op = "cancel_order" => ~ IsOpen(market, inner.id)
      /\ IF IsAdding(inner) THEN ReadsEntered ELSE entered = {}
  BY Zenon DEF WasServed
<1>5. CallInv' /\ MarketInv'
  <2>1. call \in Calls
    BY <1>0 DEF RestInv, CallInv
  <2>2. CallInv'
    BY <1>0, <2>1 DEF CallInv
  <2>3. MarketInv'
    BY <1>0, Zenon DEF RestInv, MarketInv
  <2> QED BY <2>2, <2>3
<1>6. EnteredInv'
  <2>1. CASE IsAdding(inner)
    <3>1. inner.op # "get_tradable_pairs"
      BY <2>1 DEF IsAdding
    <3>2. \A o : AsAsked(o)' <=> AsAsked(o)
      BY <1>0, <3>1, RequestStays
    <3>3. phase' \notin {"asking", "sent"} /\ (Adding' <=> Adding)
      BY <1>0 DEF Adding
    <3> QED BY <1>0, <3>2, <3>3, Zenon DEF RestInv, EnteredInv
  <2>2. CASE ~ IsAdding(inner)
    BY <1>0, <1>4, <2>2, Zenon DEF EnteredInv
  <2> QED BY <2>1, <2>2
<1>7. EndedInv'
  <2>1. CASE Finished(value) = Throws("out_of_range") /\ NotFound
    <3>1. ~ IsAdding(inner)
      BY <1>1, <2>1 DEF NotFound, IsAdding
    <3>2. NotFound'
      BY <1>0, <2>1, Zenon DEF NotFound
    <3> QED BY <1>0, <1>4, <2>1, <3>1, <3>2, ThrownRight
  <2>2. CASE \E w : /\ Finished(value) = Value(w) /\ Agrees(w)
                    /\ call.op \in {"get_prices", "get_tradable_pairs"} \/ w = value
    <3>1. PICK w : /\ Finished(value) = Value(w) /\ Agrees(w)
                   /\ call.op \in {"get_prices", "get_tradable_pairs"} \/ w = value
      BY <2>2
    <3>2. outcome'.is = "value" /\ outcome'.value = w
      BY <1>0, <3>1 DEF Value
    <3>3. \A v : Agrees(v)' <=> Agrees(v)
      BY <1>0, AgreesStays
    <3>4. \A v \in {outcome'.value} : Agrees(v)'
      BY <3>1, <3>2, <3>3, Zenon
    <3>5. Adding => \E id \in DOMAIN market.orders : entered = {id} /\ Text(id) = IdIn(w)
      <4> SUFFICES ASSUME Adding
                   PROVE  \E id \in DOMAIN market.orders : entered = {id} /\ Text(id) = IdIn(w)
        OBVIOUS
      <4>1. IsAdding(inner) /\ w = value
        BY <1>1, <3>1 DEF Adding, IsAdding
      <4>2. \E id \in DOMAIN market.orders : entered = {id} /\ ReadsId(inner, response.body, id)
        BY <1>4, <4>1, Zenon DEF ReadsEntered
      <4> QED BY <4>1, <4>2, Zenon DEF ReadsId, value
    <3>6. \A v \in {outcome'.value} : Adding' => \E id \in DOMAIN market'.orders : entered' = {id} /\ Text(id) = IdIn(v)'
      BY <1>0, <3>2, <3>5, Zenon DEF Adding, IdIn
    <3>7. ~ Thrown' /\ outcome'.is # "undefined"
      BY <3>2 DEF Thrown
    <3>8. CancelledIsNotOpen'
      BY <1>0, <1>1, <1>4, Zenon DEF CancelledIsNotOpen
    <3>9. FailsForAReason'
      BY <3>7, Zenon DEF FailsForAReason
    <3> QED BY <3>4, <3>6, <3>7, <3>8, <3>9, Zenon DEF EndedInv
  <2> QED BY <1>3, <2>1, <2>2
<1> QED BY <1>0, <1>5, <1>6, <1>7, Idle DEF RestInv

\* An answer received preserves the invariant.
LEMMA ReceiveStep ==
  ASSUME RestInv, Receive
  PROVE  RestInv'
<1> DEFINE result == ResultOf
<1> HIDE DEF result
<1>a. result = ResultOf
  BY DEF result
<1>0. /\ phase = "answered" /\ kind' = kind /\ market' = market /\ call' = call
      /\ truth' = truth /\ entered' = entered /\ lost' = lost /\ refused' = refused
      /\ filters' = IF result.is = "success" /\ kind = "binance" /\ inner.op = "get_tradable_pairs"
                    THEN result.value ELSE filters
      /\ result.is = "fail" => phase' = "idle" /\ outcome' = Throws("mb_exception")
      /\ result.is = "undefined" => phase' = "idle" /\ outcome' = result
  BY <1>a, ReceiveIs, Zenon
<1>f. FiltersInv
  BY DEF RestInv
<1>1. CASE result = Fail /\ WasRefused
  <2>1. result.is = "fail"
    BY <1>1, ResultsTold
  <2>2. phase' = "idle" /\ outcome' = Throws("mb_exception") /\ filters' = filters
    BY <1>0, <2>1
  <2>3. /\ entered = {}
        /\ refused \/ (call.op = "cancel_order" /\ ~ IsOpen(market, call.id))
    BY <1>1, Zenon DEF WasRefused
  <2>4. EndedInv'
    <3>1. lost' \/ entered' = {}
      BY <1>0, <2>3
    <3>2. \/ lost' \/ refused' \/ NotOffered' \/ NotFound'
          \/ (call.op = "cancel_order" /\ ~ IsOpen(market, call.id))'
      BY <1>0, <2>3, Zenon
    <3> QED BY <2>2, <3>1, <3>2, ThrownRight
  <2>5. FiltersInv'
    BY <1>0, <1>f, <2>2, Zenon DEF FiltersInv
  <2> QED BY <1>0, <2>2, <2>3, <2>4, <2>5, EndsRight
<1>2. CASE WasServed /\ kind = "kraken" /\ inner.op = "get_order_book" /\ result = Undefined
  <2>1. result.is = "undefined"
    BY <1>2, ResultsTold
  <2>2. phase' = "idle" /\ outcome' = result /\ filters' = filters
    BY <1>0, <2>1
  <2>3. entered = {}
    <3>1. ~ IsAdding(inner)
      BY <1>2 DEF IsAdding
    <3> QED BY <1>2, <3>1 DEF WasServed
  <2>4. call.op \in {"get_order_book", "get_order_books"}
    <3>1. IsCall(call)
      BY <1>0, CallsAssumption DEF RestInv, CallInv
    <3>2. inner \in Before(call) \/ inner = call
      BY <1>0 DEF RestInv, SentInv, Missing
    <3> QED BY <1>2, <3>1, <3>2, BeforeHas
  <2>5. EndedInv'
    <3>1. outcome'.is = "undefined"
      BY <2>1, <2>2
    <3>2. ~ Returned' /\ ~ Thrown'
      BY <3>1 DEF Returned, Thrown
    <3>3. CancelledIsNotOpen'
      BY <3>2, Zenon DEF CancelledIsNotOpen
    <3>4. FailsForAReason'
      BY <1>0, <1>2, <2>4, <3>2, Zenon DEF FailsForAReason
    <3> QED BY <3>2, <3>3, <3>4, Zenon DEF EndedInv
  <2>6. FiltersInv'
    BY <1>0, <1>f, <2>2, Zenon DEF FiltersInv
  <2> QED BY <1>0, <2>2, <2>3, <2>5, <2>6, EndsRight
<1>3. CASE WasServed /\ result.is = "success" /\ Fits(inner, result.value, truth[inner])
           /\ result = ReadOf(inner, response.body)
  <2>1. FiltersInv'
    <3>1. CASE kind = "binance" /\ inner.op = "get_tradable_pairs"
      <4>1. result.value = [p \in Pairs |-> Binance!FilterOf(p)]
        BY <1>3, <3>1, Zenon DEF Fits
      <4>2. filters' = [p \in Pairs |-> Binance!FilterOf(p)]
        BY <1>0, <1>3, <3>1, <4>1, Zenon
      <4> QED BY <1>0, <3>1, <4>2, Zenon DEF FiltersInv
    <3>2. CASE ~ (kind = "binance" /\ inner.op = "get_tradable_pairs")
      <4>1. filters' = filters
        BY <1>0, <3>2
      <4> QED BY <1>0, <1>f, <4>1, Zenon DEF FiltersInv
    <3> QED BY <3>1, <3>2
  <2>2. CASE inner \in Before(call)
    BY <1>3, <1>a, <2>1, <2>2, GatherStep
  <2>3. CASE inner \notin Before(call)
    BY <1>3, <1>a, <2>1, <2>3, FinishStep
  <2> QED BY <2>2, <2>3
<1>4. \/ result = Fail /\ WasRefused
      \/ IsRead(inner, result, truth[inner]) /\ WasServed /\ result = ReadOf(inner, response.body)
  BY <1>0, <1>a, AnsweredIs
<1>5. CASE IsRead(inner, result, truth[inner]) /\ WasServed /\ result = ReadOf(inner, response.body)
  <2>1. \/ kind = "kraken" /\ inner.op = "get_order_book" /\ result = Undefined
        \/ result.is = "success" /\ Fits(inner, result.value, truth[inner])
    BY <1>5, Zenon DEF IsRead
  <2> QED BY <1>2, <1>3, <1>5, <2>1, Zenon
<1> QED BY <1>1, <1>4, <1>5, Zenon

\* Every step preserves the invariant.
LEMMA NextStep ==
  ASSUME RestInv, [Next]_vars
  PROVE  RestInv'
<1>0. IsExchange(market) /\ HoldsOnly(market, kind)
  BY DEF RestInv, MarketInv
<1>1. CASE \E c \in Calls : Call(c)
  BY <1>1, CallStep
<1>2. CASE Ask
  BY <1>2, AskStep
<1>3. CASE Receive
  BY <1>3, ReceiveStep
<1>4. CASE Answered
  BY <1>4, ServeStep, RefuseStep, LoseRequestStep, LoseAnswerStep DEF Answered
<1>5. ASSUME NEW p \in Moving, PriceMoves(p)
      PROVE  RestInv'
  <2>1. PICK x \in Prices : market' = [market EXCEPT !.price[p] = x]
    BY <1>5 DEF PriceMoves
  <2>2. p \in Pairs /\ x \in Nat \ {0}
    BY RestAssumption
  <2>3. Evolves(kind, market, market')
    BY <1>0, <2>1, <2>2, PriceEvolves
  <2>4. UNCHANGED <<kind, filters, call, phase, inner, request, response, gathered, outcome, history>>
    BY <1>5 DEF PriceMoves
  <2> QED BY <2>3, <2>4, MarketMoves
<1>6. ASSUME NEW i \in DOMAIN market.orders, Fill(i)
      PROVE  RestInv'
  <2>1. Evolves(kind, market, market')
    BY <1>0, <1>6, FillEvolves DEF Fill
  <2>2. UNCHANGED <<kind, filters, call, phase, inner, request, response, gathered, outcome, history>>
    BY <1>6 DEF Fill
  <2> QED BY <2>1, <2>2, MarketMoves
<1>7. CASE UNCHANGED vars
  <2>1. market' = market
        /\ UNCHANGED <<kind, filters, call, phase, inner, request, response, gathered, outcome, history>>
    BY <1>7 DEF vars
  <2>2. Evolves(kind, market, market')
    BY <1>0, <2>1, StaysEvolves
  <2> QED BY <2>1, <2>2, MarketMoves
<1> QED BY <1>1, <1>2, <1>3, <1>4, <1>5, <1>6, <1>7 DEF Next

\* The strengthening of the four invariants is inductive: whatever the exchange does and
\* whatever is lost, what the client has gathered, asked and read belongs to its call.
THEOREM RestInvHolds == Spec => []RestInv
<1>1. Init => RestInv
  BY InitRight
<1>2. RestInv /\ [Next]_vars => RestInv'
  BY NextStep
<1> QED BY <1>1, <1>2, PTL DEF Spec

-----------------------------------------------------------------------------
(***************************************************************************)
(* The invariants.                                                         *)
(***************************************************************************)
\* What a query returns is what the exchange knew when it answered: for every class, pair,
\* book, list of orders and candles, what send_http_request and the readers make of an
\* answer is what was asked for.
THEOREM AnswersAreTrueHolds == Spec => []AnswersAreTrue
<1>1. RestInv => AnswersAreTrue
  BY Zenon DEF RestInv, EndedInv, AnswersAreTrue
<1> QED BY <1>1, RestInvHolds, PTL

\* add_order and add_order_confirm enter one order, as it was asked, and return its id;
\* when they throw and no message was lost, there is no order.
THEOREM OrdersAreAsAskedHolds == Spec => []OrdersAreAsAsked
<1>1. RestInv => OrdersAreAsAsked
  <2> SUFFICES ASSUME RestInv
               PROVE  OrdersAreAsAsked
    OBVIOUS
  <2>1. \/ entered = {}
        \/ Adding /\ \E id \in DOMAIN market.orders :
                        /\ entered = {id}
                        /\ \A o \in {market.orders[id]} : AsAsked(o)
    BY DEF RestInv, EnteredInv
  <2>2. Cardinality(entered) <= 1
    BY <2>1, FS_EmptySet, FS_Singleton
  <2>3. \A id \in entered : Adding /\ AsAsked(market.orders[id])
    BY <2>1
  <2>4. ASSUME Adding, Returned
        PROVE  entered = {id \in DOMAIN market.orders :
                            Text(id) = IF call.op = "add_order" THEN outcome.value ELSE outcome.value.order_id}
    <3>1. PICK id \in DOMAIN market.orders : entered = {id} /\ Text(id) = IdIn(outcome.value)
      BY <2>4 DEF RestInv, EndedInv
    <3>2. \A i : Text(i) = IdIn(outcome.value) => i = id
      BY <3>1, TextTells
    <3>3. IdIn(outcome.value) = IF call.op = "add_order" THEN outcome.value ELSE outcome.value.order_id
      BY Zenon DEF IdIn
    <3> HIDE DEF IdIn
    <3>4. entered = {i \in DOMAIN market.orders : Text(i) = IdIn(outcome.value)}
      BY <3>1, <3>2
    <3> QED BY <3>3, <3>4, Zenon
  <2>5. Thrown /\ ~ lost => entered = {}
    BY Zenon DEF RestInv, EndedInv
  <2> QED BY <2>2, <2>3, <2>4, <2>5, Zenon DEF OrdersAreAsAsked
<1> QED BY <1>1, RestInvHolds, PTL

\* When cancel_order has returned, the order is not open, although Binance's looks the
\* order up in a list that may be old when it arrives.
THEOREM CancelledIsNotOpenHolds == Spec => []CancelledIsNotOpen
<1>1. RestInv => CancelledIsNotOpen
  BY DEF RestInv, EndedInv
<1> QED BY <1>1, RestInvHolds, PTL

\* A call fails only when a message was lost, the exchange refused or the class does not
\* offer what was asked; and with mb_exception but for the last.
THEOREM FailsForAReasonHolds == Spec => []FailsForAReason
<1>1. RestInv => FailsForAReason
  BY DEF RestInv, EndedInv
<1> QED BY <1>1, RestInvHolds, PTL
=============================================================================
