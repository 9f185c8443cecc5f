------------------------- MODULE OhlcvSubscription -------------------------
(***************************************************************************)
(* Candles made from trades: ohlcv_subscription_service and                *)
(* ohlcv_from_trades, as the Coinbase stream uses them for one pair and    *)
(* one interval.                                                           *)
(*                                                                         *)
(* The strategy thread subscribes: with the service locked it asks the     *)
(* REST API for the current candle, which becomes the start of the         *)
(* ohlcv_from_trades.  The websocket thread hands every trade of the pair  *)
(* to the service, when it gets the lock; trades of the pair are delivered *)
(* all along (its trade channel is subscribed first).  A trade may         *)
(* therefore have been counted by the exchange and still be on its way.    *)
(*                                                                         *)
(* Every trade has volume 1, times are natural numbers, prices positive.   *)
(* Definitions marked `Fault' are what a plausible bug would make of the   *)
(* next definition; only the mutation checks use them.                     *)
(***************************************************************************)
EXTENDS Integers, Sequences, FiniteSetsExt

CONSTANTS Interval,   \* seconds of a candle
          MaxTime,    \* bound on the exchange's clock
          Prices,
          MaxTrades,  \* bound on the number of trades
          Quiet,      \* no trade is on its way while the strategy subscribes
          NoCandle

ASSUME CandleAssumption == /\ Interval \in Nat \ {0}
                           /\ MaxTime \in Nat /\ MaxTrades \in Nat
                           /\ Prices \subseteq Nat \ {0}
                           /\ Quiet \in BOOLEAN

Trade == [time : 0 .. MaxTime, price : Prices]
Candle == [start : -1 .. MaxTime, open : Nat, high : Nat, low : Nat, close : Nat, volume : Nat]

VARIABLES
  history,    \* trades of the exchange, in order
  delivered,  \* number of trades the websocket thread has taken
  inHand,     \* number of the trade it is about to hand to the service, or 0
  seed,       \* candle of the REST answer while the service is locked, or NoCandle
  candle,     \* the ohlcv_from_trades: its candle, or NoCandle
  lastTime,   \* and its _lastTime
  base,       \* the candle it was constructed from
  counted,    \* number of trades of history when that candle was asked for
  published,  \* last candle passed to update_ohlcv, or NoCandle
  failed      \* an assertion has failed

oftVars == <<candle, lastTime, base, counted>>
vars == <<history, delivered, inHand, seed, candle, lastTime, base, counted, published, failed>>

\* ohlcv_data{}: what stands for an empty REST answer.
EmptyCandle == [start |-> -1, open |-> 0, high |-> 0, low |-> 0, close |-> 0, volume |-> 0]

Init == /\ history = <<>> /\ delivered = 0 /\ inHand = 0
        /\ seed = NoCandle
        /\ candle = NoCandle /\ lastTime = 0 /\ base = NoCandle /\ counted = 0
        /\ published = NoCandle
        /\ failed = FALSE

Higher(a, b) == IF a > b THEN a ELSE b
Lower(a, b) == IF a < b THEN a ELSE b

-----------------------------------------------------------------------------
(***************************************************************************)
(* ohlcv_from_trades.                                                      *)
(***************************************************************************)
\* Fault: the new candle keeps the volume of the last one.
NewCandleKeepsVolume(c, time) ==
  [c EXCEPT !.start = @ + ((time - @) \div Interval) * Interval,
            !.open = c.close, !.high = c.close, !.low = c.close]

\* Fault: the new candle starts with the trade.
NewCandleAfterTime(c, time) ==
  [start |-> time + 1, open |-> c.close, high |-> c.close, low |-> c.close,
   close |-> c.close, volume |-> 0]

StartNewCandle(c, time) ==
  [start |-> c.start + ((time - c.start) \div Interval) * Interval,
   open |-> c.close, high |-> c.close, low |-> c.close, close |-> c.close, volume |-> 0]

\* The candle of `time': a new one when the interval is over.
Current(c, time) == IF time >= c.start + Interval THEN StartNewCandle(c, time) ELSE c

\* Fault: the lowest price is not carried on.
AddTradeSetsLow(c, last, trade) ==
  LET now == Current(c, trade.time)
  IN  IF trade.time < c.start THEN c
      ELSE [now EXCEPT !.open = IF trade.time = now.start THEN trade.price ELSE @,
                       !.high = Higher(@, trade.price),
                       !.low = trade.price,
                       !.volume = @ + 1,
                       !.close = IF trade.time > last THEN trade.price ELSE @]

\* add_trade: a trade from before the candle is ignored; only the first trade of
\* a second after the last one closes the candle.
AddTrade(c, last, trade) ==
  LET now == Current(c, trade.time)
  IN  IF trade.time < c.start THEN c
      ELSE [now EXCEPT !.open = IF trade.time = now.start THEN trade.price ELSE @,
                       !.high = Higher(@, trade.price),
                       !.low = Lower(@, trade.price),
                       !.volume = @ + 1,
                       !.close = IF trade.time > last THEN trade.price ELSE @]

LastTimeAfter(c, last, trade) ==
  IF trade.time >= c.start /\ trade.time > last THEN trade.time ELSE last

-----------------------------------------------------------------------------
(***************************************************************************)
(* The exchange.                                                           *)
(***************************************************************************)
PricesSince(time) == {history[i].price : i \in {j \in DOMAIN history : history[j].time >= time}}
CountSince(time) == Cardinality({j \in DOMAIN history : history[j].time >= time})

\* The exchange's own latest candle: aligned to the interval, from its first to
\* its last trade.
ExchangeCandle ==
  IF history = <<>> THEN EmptyCandle
  ELSE LET last == history[Len(history)]
           start == (last.time \div Interval) * Interval
           first == Len(history) - CountSince(start) + 1
       IN  [start |-> start, open |-> history[first].price,
            high |-> Max(PricesSince(start)), low |-> Min(PricesSince(start)),
            close |-> last.price, volume |-> CountSince(start)]

\* A trade takes place.
ExchangeTrades(trade) ==
  /\ ~failed
  /\ Len(history) < MaxTrades
  /\ history # <<>> => trade.time >= history[Len(history)].time
  /\ Quiet => seed = NoCandle
  /\ history' = Append(history, trade)
  /\ UNCHANGED <<delivered, inHand, seed, oftVars, published, failed>>

-----------------------------------------------------------------------------
(***************************************************************************)
(* The service.  `seed' is not NoCandle while add_subscription holds it.   *)
(***************************************************************************)
Unlocked == ~failed /\ seed = NoCandle

\* add_subscription asks the REST API.
AskForCandle ==
  /\ Unlocked
  /\ Quiet => inHand = 0 /\ delivered = Len(history)
  /\ seed' = ExchangeCandle
  /\ UNCHANGED <<history, delivered, inHand, oftVars, published, failed>>

\* Fault: a second subscription publishes the candle of the first.
PublishFirstCandle ==
  /\ ~failed /\ seed # NoCandle
  /\ IF candle = NoCandle
       THEN candle' = seed /\ base' = seed /\ lastTime' = seed.start /\ counted' = Len(history)
       ELSE UNCHANGED oftVars
  /\ published' = base'
  /\ seed' = NoCandle
  /\ UNCHANGED <<history, delivered, inHand, failed>>

\* The answer is there.  emplace leaves an ohlcv_from_trades that exists as it
\* is; the candle of the answer is published in any case.
AddSubscription ==
  /\ ~failed /\ seed # NoCandle
  /\ IF candle = NoCandle
       THEN candle' = seed /\ base' = seed /\ lastTime' = seed.start /\ counted' = Len(history)
       ELSE UNCHANGED oftVars
  /\ published' = seed
  /\ seed' = NoCandle
  /\ UNCHANGED <<history, delivered, inHand, failed>>

RemoveSubscription ==
  /\ Unlocked
  /\ candle # NoCandle
  /\ candle' = NoCandle
  /\ UNCHANGED <<history, delivered, inHand, seed, lastTime, base, counted, published, failed>>

\* The websocket thread takes the next trade (update_trade), then waits for the
\* service.
TakeTrade ==
  /\ ~failed
  /\ inHand = 0
  /\ delivered < Len(history)
  /\ delivered' = delivered + 1
  /\ inHand' = delivered + 1
  /\ UNCHANGED <<history, seed, oftVars, published, failed>>

\* is_subscribed is false.
IgnoreTrade ==
  /\ Unlocked
  /\ inHand # 0 /\ candle = NoCandle
  /\ inHand' = 0
  /\ UNCHANGED <<history, delivered, seed, oftVars, published, failed>>

\* update_ohlcv: add_trade, then get_ohlcv(time), which asserts that the time is
\* not before the candle.
UpdateOhlcv ==
  /\ Unlocked
  /\ inHand # 0 /\ candle # NoCandle
  /\ LET trade == history[inHand]
         added == AddTrade(candle, lastTime, trade)
     IN  /\ candle' = added
         /\ lastTime' = LastTimeAfter(candle, lastTime, trade)
         /\ IF trade.time >= added.start
              THEN published' = Current(added, trade.time) /\ UNCHANGED failed
              ELSE failed' = TRUE /\ UNCHANGED published
  /\ inHand' = 0
  /\ UNCHANGED <<history, delivered, seed, base, counted>>

Next == \/ \E trade \in Trade : ExchangeTrades(trade)
        \/ AskForCandle \/ AddSubscription \/ RemoveSubscription
        \/ TakeTrade \/ IgnoreTrade \/ UpdateOhlcv

Spec == Init /\ [][Next]_vars

-----------------------------------------------------------------------------
\* The assertion of get_ohlcv, currentTime >= _startTime.
AssertionHolds == ~failed

\* The trades that have reached the candle, by their numbers.
Applied == counted + 1 .. (IF inHand = 0 THEN delivered ELSE delivered - 1)

AppliedSince(time) == {i \in Applied : history[i].time >= time}
AppliedBefore(time) == {i \in Applied : history[i].time < time}

\* The price a candle closes with after trades `ids' on top of the first candle:
\* that of the first trade in the last second that has one.
CloseAfter(ids) ==
  LET later == {i \in ids : history[i].time > base.start}
  IN  IF later = {} THEN base.close
      ELSE LET second == Max({history[i].time : i \in later})
           IN  history[Min({i \in later : history[i].time = second})].price

\* The candle computed from the list of trades instead of trade by trade.
Reference ==
  LET latest == IF Applied = {} THEN base.start ELSE history[Max(Applied)].time
      start == base.start + ((latest - base.start) \div Interval) * Interval
      inside == AppliedSince(start)
      atStart == {i \in inside : history[i].time = start}
      prices == {history[i].price : i \in inside}
      carried == CloseAfter(AppliedBefore(start))
      before == IF start = base.start THEN base
                ELSE [start |-> start, open |-> carried, high |-> carried, low |-> carried,
                      close |-> carried, volume |-> 0]
  IN  [start |-> start,
       open |-> IF atStart = {} THEN before.open ELSE history[Max(atStart)].price,
       high |-> Max(prices \cup {before.high}),
       low |-> Min(prices \cup {before.low}),
       close |-> CloseAfter(Applied),
       volume |-> before.volume + Cardinality(inside)]

\* Trade by trade, ohlcv_from_trades arrives at the candle the list of its
\* trades defines, over any number of intervals.
CandleIsThatOfItsTrades == candle # NoCandle => candle = Reference

\* Each trade of the exchange in the candle's interval is counted once: by the
\* exchange in the first candle or by add_trade, never by both or by neither.
EveryTradeCountsOnce ==
  candle # NoCandle /\ Applied \cup 1 .. counted = 1 .. Len(history) =>
    candle.volume = CountSince(candle.start)

\* A published candle never gives way to an earlier one, also when the strategy
\* subscribes again - unless the exchange had no candle to start from: the -1 of
\* ohlcv_data{} shifts every later candle against the exchange's.
PublishedTimeNeverGoesBack ==
  [][published # NoCandle /\ base # EmptyCandle =>
       published'.start >= published.start]_vars
=============================================================================
