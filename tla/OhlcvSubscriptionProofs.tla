------------------------ MODULE OhlcvSubscriptionProofs ------------------------
(***************************************************************************)
(* Proofs about OhlcvSubscription for a strategy that subscribes while no  *)
(* trade is on its way, for every length of the interval, every price and  *)
(* number of trades.                                                       *)
(*                                                                         *)
(* First that the candles' times are in order; then that the candle is the *)
(* one the list of its trades defines (Reference).  For the latter the     *)
(* reference is stated for any list of trades, CandleOf, and shown to obey *)
(* the recursion that add_trade computes (CandleAppended).                 *)
(***************************************************************************)
EXTENDS OhlcvSubscription, NaturalLemmas, SequenceTheorems, FiniteSetTheorems, TLAPS

-----------------------------------------------------------------------------
(***************************************************************************)
(* Times on the grid of the interval.                                      *)
(***************************************************************************)
Aligned(time) == \E k \in Int : time = k * Interval

\* The grid time at or before `time', as StartNewCandle and the exchange compute it.
LEMMA GridBelow ==
  ASSUME NEW time \in Int
  PROVE  /\ (time \div Interval) * Interval \in Int
         /\ (time \div Interval) * Interval <= time
         /\ time < (time \div Interval) * Interval + Interval
  BY CandleAssumption

\* A grid time before the end of another one's interval is not after it.
LEMMA GridOrder ==
  ASSUME NEW a \in Int, NEW b \in Int, Aligned(a), Aligned(b), a < b + Interval
  PROVE  a <= b
<1>1. PICK k \in Int : a = k * Interval
  BY DEF Aligned
<1>2. PICK m \in Int : b = m * Interval
  BY DEF Aligned
<1>3. Interval \in Nat \ {0}
  BY CandleAssumption
<1>4. ASSUME k >= m + 1 PROVE FALSE
  <2>1. k * Interval >= (m + 1) * Interval
    BY <1>3, <1>4
  <2>2. (m + 1) * Interval = m * Interval + Interval
    BY <1>3
  <2> QED BY <1>1, <1>2, <1>3, <2>1, <2>2
<1>5. k <= m
  BY <1>4
<1>6. k * Interval <= m * Interval
  BY <1>3, <1>5
<1> QED BY <1>1, <1>2, <1>6

LEMMA GridSum ==
  ASSUME NEW a \in Int, Aligned(a), NEW k \in Int
  PROVE  Aligned(a + k * Interval)
<1>1. PICK m \in Int : a = m * Interval
  BY DEF Aligned
<1>2. m * Interval + k * Interval = (m + k) * Interval
  BY CandleAssumption
<1> QED BY <1>1, <1>2 DEF Aligned

-----------------------------------------------------------------------------
(***************************************************************************)
(* ohlcv_from_trades.                                                      *)
(***************************************************************************)
Fields == {"start", "open", "high", "low", "close", "volume"}
IsCandle(c) == c = [f \in Fields |-> c[f]] /\ c.start \in Int

\* The candle of a time that is not before it holds that time, and stays on the grid.
LEMMA CurrentHoldsTime ==
  ASSUME NEW c, IsCandle(c), NEW time \in Int, time >= c.start
  PROVE  LET now == Current(c, time)
         IN  /\ IsCandle(now)
             /\ now.start <= time
             /\ time < now.start + Interval
             /\ Aligned(c.start) => Aligned(now.start)
<1> DEFINE k == (time - c.start) \div Interval
<1>1. c.start \in Int /\ Interval \in Nat \ {0}
  BY CandleAssumption DEF IsCandle
<1>2. CASE time >= c.start + Interval
  <2>1. /\ k * Interval \in Int
        /\ k * Interval <= time - c.start
        /\ time - c.start < k * Interval + Interval
    BY <1>1, GridBelow
  <2>2. k \in Int
    BY <1>1
  <2> DEFINE now == Current(c, time)
  <2>3. now = StartNewCandle(c, time)
    BY <1>2 DEF Current
  <2>4. now.start = c.start + k * Interval
    BY <2>3 DEF StartNewCandle
  <2>5. now = [f \in Fields |-> now[f]]
    BY <2>3 DEF StartNewCandle, Fields
  <2> HIDE DEF k
  <2>6. Aligned(c.start) => Aligned(now.start)
    BY <1>1, <2>2, <2>4, GridSum
  <2> HIDE DEF now
  <2>7. /\ now.start \in Int /\ now.start <= time
        /\ time < now.start + Interval
    BY <1>1, <2>1, <2>4
  <2> QED BY <2>5, <2>6, <2>7 DEF IsCandle, now
<1>3. CASE ~(time >= c.start + Interval)
  BY <1>1, <1>3 DEF Current
<1> QED BY <1>2, <1>3

\* A trade that is not before the candle is added to the candle of its time.
LEMMA AddTradeStart ==
  ASSUME NEW c, IsCandle(c), NEW last, NEW trade \in Trade, trade.time >= c.start
  PROVE  LET added == AddTrade(c, last, trade)
         IN  /\ IsCandle(added)
             /\ added.start = Current(c, trade.time).start
             /\ Current(added, trade.time) = added
<1> DEFINE now == Current(c, trade.time)
           added == AddTrade(c, last, trade)
<1>1. trade.time \in Int
  BY CandleAssumption DEF Trade
<1>2. /\ IsCandle(now) /\ now.start <= trade.time
      /\ trade.time < now.start + Interval
  BY <1>1, CurrentHoldsTime
<1>3. ~(trade.time < c.start)
  BY <1>1 DEF IsCandle
<1>4. added = [now EXCEPT !.open = IF trade.time = now.start THEN trade.price ELSE @,
                          !.high = Higher(@, trade.price),
                          !.low = Lower(@, trade.price),
                          !.volume = @ + 1,
                          !.close = IF trade.time > last THEN trade.price ELSE @]
  BY <1>3 DEF AddTrade
<1> HIDE DEF now, added
<1>5. added.start = now.start /\ added = [f \in Fields |-> added[f]]
  BY <1>2, <1>4 DEF IsCandle, Fields
<1>6. IsCandle(added)
  BY <1>2, <1>5 DEF IsCandle
<1>7. ~(trade.time >= added.start + Interval)
  BY <1>1, <1>2, <1>5, CandleAssumption DEF IsCandle
<1>8. Current(added, trade.time) = added
  BY <1>7 DEF Current
<1> QED BY <1>5, <1>6, <1>8 DEF added, now

-----------------------------------------------------------------------------
(***************************************************************************)
(* The invariant.  Trades reach the candle in order of time, so what has   *)
(* been published, and where the candle starts, is not after the last      *)
(* trade that has reached it.  A second subscription publishes the         *)
(* exchange's candle while the service's own one may be older; that later  *)
(* trades do not bring the older one back needs that both lie on the grid. *)
(***************************************************************************)
\* The number and the time of the last trade the service has been handed.
Position == IF inHand = 0 THEN delivered ELSE delivered - 1
TimeReached == IF Position = 0 THEN 0 ELSE history[Position].time

TradesInv ==
  /\ history \in Seq(Trade)
  /\ \A i, j \in 1 .. Len(history) : i <= j => history[i].time <= history[j].time
  /\ delivered \in 0 .. Len(history)
  /\ inHand = 0 \/ (inHand = delivered /\ delivered # 0)

CandleInv ==
  /\ ~failed
  /\ seed # NoCandle => inHand = 0 /\ delivered = Len(history) /\ seed = ExchangeCandle
  /\ candle # NoCandle => base # NoCandle /\ IsCandle(candle) /\ candle.start <= TimeReached
  /\ base = NoCandle => published = NoCandle
  /\ base # NoCandle /\ base # EmptyCandle =>
       /\ history # <<>>
       /\ candle # NoCandle => Aligned(candle.start)
       /\ published # NoCandle => /\ published.start \in Int
                                  /\ Aligned(published.start)
                                  /\ published.start <= TimeReached

QuietInv == TradesInv /\ CandleInv

LEMMA TradesFacts ==
  ASSUME TradesInv
  PROVE  /\ Len(history) \in Nat /\ delivered \in Nat
         /\ Position \in 0 .. Len(history)
         /\ \A i \in 1 .. Len(history) : history[i] \in Trade /\ history[i].time \in Nat
         /\ TimeReached \in Nat
         /\ history = <<>> <=> Len(history) = 0
<1>1. /\ Len(history) \in Nat
      /\ \A i \in 1 .. Len(history) : history[i] \in Trade
      /\ history = <<>> <=> Len(history) = 0
  BY LenProperties, ElementOfSeq, EmptySeq DEF TradesInv
<1>2. \A trade \in Trade : trade.time \in Nat
  BY CandleAssumption DEF Trade
<1>3. delivered \in Nat /\ Position \in 0 .. Len(history)
  BY <1>1 DEF TradesInv, Position
<1>4. TimeReached \in Nat
  BY <1>1, <1>2, <1>3 DEF TimeReached
<1> QED BY <1>1, <1>2, <1>3, <1>4

\* The exchange's candle is the one of its last trade.
LEMMA ExchangeCandleFacts ==
  ASSUME TradesInv
  PROVE  /\ IsCandle(ExchangeCandle)
         /\ history = <<>> => ExchangeCandle = EmptyCandle /\ ExchangeCandle.start = -1
         /\ history # <<>> =>
              LET last == history[Len(history)].time
              IN  /\ Aligned(ExchangeCandle.start)
                  /\ ExchangeCandle.start <= last
                  /\ last < ExchangeCandle.start + Interval
<1>1. CASE history = <<>>
  BY <1>1 DEF ExchangeCandle, EmptyCandle, IsCandle, Fields
<1>2. CASE history # <<>>
  <2> DEFINE last == history[Len(history)].time
             start == (last \div Interval) * Interval
  <2>1. last \in Int
    BY <1>2, TradesFacts
  <2> HIDE DEF last
  <2>2. start \in Int /\ start <= last /\ last < start + Interval
    BY <2>1, GridBelow
  <2>3. last \div Interval \in Int
    BY <2>1, CandleAssumption
  <2>4. Aligned(start)
    BY <2>3 DEF Aligned
  <2>5. ExchangeCandle.start = start /\ ExchangeCandle = [f \in Fields |-> ExchangeCandle[f]]
    BY <1>2 DEF ExchangeCandle, Fields, last
  <2> QED BY <1>2, <2>2, <2>4, <2>5 DEF IsCandle, last
<1> QED BY <1>1, <1>2

LEMMA TradesStep ==
  ASSUME TradesInv, [Next]_vars
  PROVE  TradesInv'
<1> USE DEF TradesInv
<1>1. ASSUME NEW trade \in Trade, ExchangeTrades(trade) PROVE TradesInv'
  <2>1. /\ history' = Append(history, trade)
        /\ UNCHANGED <<delivered, inHand>>
        /\ history # <<>> => trade.time >= history[Len(history)].time
    BY <1>1 DEF ExchangeTrades
  <2>2. /\ history' \in Seq(Trade)
        /\ Len(history') = Len(history) + 1
        /\ \A i \in 1 .. Len(history) : history'[i] = history[i]
        /\ history'[Len(history) + 1] = trade
    BY <1>1, <2>1, AppendProperties
  <2>3. ASSUME NEW i \in 1 .. Len(history)
        PROVE  history[i].time \in Nat /\ history[i].time <= trade.time
    <3>1. /\ Len(history) \in Nat /\ history # <<>> /\ trade.time \in Nat
          /\ history[i].time \in Nat /\ history[Len(history)].time \in Nat
      BY <1>1, TradesFacts, CandleAssumption DEF Trade
    <3>2. history[i].time <= history[Len(history)].time
      BY <3>1
    <3> QED BY <2>1, <3>1, <3>2
  <2>4. ASSUME NEW i \in 1 .. Len(history'), NEW j \in 1 .. Len(history'), i <= j
        PROVE  history'[i].time <= history'[j].time
    <3>1. Len(history) \in Nat /\ trade.time \in Nat
      BY <1>1, TradesFacts, CandleAssumption DEF Trade
    <3>2. CASE j \in 1 .. Len(history)
      BY <2>2, <2>4, <3>1, <3>2
    <3>3. CASE j = Len(history) + 1
      BY <2>2, <2>3, <3>1, <3>3
    <3> QED BY <2>2, <2>4, <3>1, <3>2, <3>3
  <2> QED BY <2>1, <2>2, <2>4, TradesFacts
<1>2. CASE TakeTrade
  <2>1. /\ history' = history /\ inHand' = delivered' /\ delivered' = delivered + 1
        /\ delivered < Len(history)
    BY <1>2 DEF TakeTrade
  <2>2. Len(history) \in Nat /\ delivered \in Nat
    BY TradesFacts
  <2>3. delivered' \in 0 .. Len(history') /\ delivered' # 0
    BY <2>1, <2>2
  <2>4. /\ history' \in Seq(Trade)
        /\ \A i, j \in 1 .. Len(history') : i <= j => history'[i].time <= history'[j].time
    BY <2>1
  <2> QED BY <2>1, <2>3, <2>4
<1>3. CASE IgnoreTrade \/ UpdateOhlcv
  BY <1>3 DEF IgnoreTrade, UpdateOhlcv
<1>4. CASE AskForCandle \/ AddSubscription \/ RemoveSubscription \/ UNCHANGED vars
  BY <1>4 DEF AskForCandle, AddSubscription, RemoveSubscription, vars
<1> QED BY <1>1, <1>2, <1>3, <1>4 DEF Next

\* The time the service has reached never goes back.
LEMMA TimeReachedStep ==
  ASSUME TradesInv, [Next]_vars
  PROVE  /\ TimeReached <= TimeReached' /\ TimeReached \in Nat /\ TimeReached' \in Nat
         /\ IgnoreTrade \/ UpdateOhlcv => TimeReached' = history[inHand].time
<1>1. /\ TradesInv' /\ Position \in 0 .. Len(history) /\ TimeReached \in Nat
      /\ Len(history) \in Nat /\ delivered \in Nat
      /\ \A i \in 1 .. Len(history) : history[i].time \in Nat
  BY TradesStep, TradesFacts
<1>2. ASSUME NEW trade \in Trade, ExchangeTrades(trade) PROVE TimeReached' = TimeReached
  <2>1. Position' = Position
    BY <1>2 DEF ExchangeTrades, Position
  <2>2. Position # 0 => history'[Position] = history[Position]
    BY <1>1, <1>2, AppendProperties DEF ExchangeTrades, TradesInv
  <2> QED BY <2>1, <2>2 DEF TimeReached
<1>3. ASSUME TakeTrade PROVE TimeReached' = TimeReached
  <2>1. /\ history' = history /\ inHand = 0
        /\ inHand' = delivered + 1 /\ delivered' = delivered + 1
    BY <1>3 DEF TakeTrade
  <2>2. Position = delivered /\ Position' = delivered
    BY <1>1, <2>1 DEF Position
  <2> QED BY <2>1, <2>2 DEF TimeReached
<1>4. ASSUME IgnoreTrade \/ UpdateOhlcv
      PROVE  /\ TimeReached' = history[inHand].time /\ TimeReached <= TimeReached'
             /\ TimeReached' \in Nat
  <2>1. /\ inHand = delivered /\ delivered # 0 /\ inHand' = 0
        /\ history' = history /\ delivered' = delivered
    BY <1>4 DEF IgnoreTrade, UpdateOhlcv, TradesInv
  <2>2. Position' = delivered /\ Position = delivered - 1 /\ delivered \in 1 .. Len(history)
    BY <1>1, <2>1 DEF Position, TradesInv
  <2>3. TimeReached' = history[delivered].time
    BY <2>1, <2>2 DEF TimeReached
  <2>4. delivered - 1 # 0 => history[delivered - 1].time <= history[delivered].time
    <3>1. ASSUME delivered - 1 # 0
          PROVE  delivered - 1 \in 1 .. Len(history) /\ delivered - 1 <= delivered
      BY <1>1, <2>2, <3>1
    <3> QED BY <2>2, <3>1 DEF TradesInv
  <2>5. history[delivered].time \in Nat
    BY <1>1, <2>2
  <2> QED BY <1>1, <2>1, <2>2, <2>3, <2>4, <2>5 DEF TimeReached
<1>5. ASSUME AskForCandle \/ AddSubscription \/ RemoveSubscription \/ UNCHANGED vars
      PROVE  TimeReached' = TimeReached
  <2>1. history' = history /\ delivered' = delivered /\ inHand' = inHand
    BY <1>5 DEF AskForCandle, AddSubscription, RemoveSubscription, vars
  <2> QED BY <2>1 DEF TimeReached, Position
<1>6. \/ TimeReached' = TimeReached
      \/ IgnoreTrade \/ UpdateOhlcv
  BY <1>2, <1>3, <1>5 DEF Next
<1> QED BY <1>1, <1>4, <1>6

\* What is already there stays right when the service goes on to later trades.
LEMMA CandleLeftAlone ==
  ASSUME QuietInv, [Next]_vars,
         candle' \in {candle, NoCandle}, base' = base, published' = published, failed' = failed,
         seed' # NoCandle => inHand' = 0 /\ delivered' = Len(history') /\ seed' = ExchangeCandle',
         history # <<>> => history' # <<>>
  PROVE  CandleInv'
<1>1. /\ TimeReached <= TimeReached' /\ TimeReached \in Nat /\ TimeReached' \in Nat
  BY TimeReachedStep DEF QuietInv
<1>2. CandleInv /\ (candle' # NoCandle => candle' = candle)
  BY DEF QuietInv
<1>3. candle' # NoCandle =>
        base' # NoCandle /\ IsCandle(candle') /\ candle'.start <= TimeReached'
  <2>1. ASSUME candle' # NoCandle
        PROVE  /\ candle' = candle /\ base # NoCandle /\ IsCandle(candle)
               /\ candle.start \in Int /\ candle.start <= TimeReached
    BY <1>2, <2>1 DEF CandleInv, IsCandle
  <2> QED BY <1>1, <2>1
<1>4. base' # NoCandle /\ base' # EmptyCandle =>
        /\ history' # <<>>
        /\ candle' # NoCandle => Aligned(candle'.start)
        /\ published' # NoCandle => /\ published'.start \in Int
                                    /\ Aligned(published'.start)
                                    /\ published'.start <= TimeReached'
  BY <1>1, <1>2 DEF CandleInv
<1> QED BY <1>2, <1>3, <1>4 DEF CandleInv, EmptyCandle

\* add_subscription: the exchange's candle is at least as late as anything published.
LEMMA AddSubscriptionStep ==
  ASSUME QuietInv, AddSubscription
  PROVE  /\ CandleInv'
         /\ published # NoCandle /\ base # EmptyCandle => published'.start >= published.start
<1>1. /\ TradesInv /\ CandleInv /\ seed # NoCandle
      /\ inHand = 0 /\ delivered = Len(history) /\ seed = ExchangeCandle
      /\ published' = seed /\ seed' = NoCandle
      /\ UNCHANGED <<history, delivered, inHand, failed>>
  BY DEF QuietInv, CandleInv, AddSubscription
<1>2. /\ TimeReached' = TimeReached /\ TimeReached \in Nat
      /\ TimeReached = IF history = <<>> THEN 0 ELSE history[Len(history)].time
  BY <1>1, TradesFacts DEF TimeReached, Position
<1>3. /\ IsCandle(seed) /\ seed.start \in Int /\ seed.start <= TimeReached
      /\ history = <<>> => seed = EmptyCandle
      /\ history # <<>> => Aligned(seed.start) /\ TimeReached < seed.start + Interval
  BY <1>1, <1>2, ExchangeCandleFacts DEF IsCandle
<1>4. \/ candle' = seed /\ base' = seed
      \/ candle # NoCandle /\ candle' = candle /\ base' = base
  BY DEF AddSubscription, oftVars
<1>5. CandleInv'
  <2>1. ~failed'
    BY <1>1 DEF CandleInv
  <2>2. base' # NoCandle
    BY <1>1, <1>4 DEF CandleInv
  <2>3. candle' # NoCandle => IsCandle(candle') /\ candle'.start <= TimeReached'
    BY <1>1, <1>2, <1>3, <1>4 DEF CandleInv
  <2>4. ASSUME base' # EmptyCandle
        PROVE  history # <<>> /\ Aligned(candle'.start)
    BY <1>1, <1>3, <1>4, <2>2, <2>4 DEF CandleInv
  <2> QED BY <1>1, <1>2, <1>3, <2>1, <2>2, <2>3, <2>4 DEF CandleInv, EmptyCandle
<1>6. ASSUME published # NoCandle, base # EmptyCandle
      PROVE  published'.start >= published.start
  <2>1. /\ history # <<>> /\ published.start \in Int /\ Aligned(published.start)
        /\ published.start <= TimeReached
    BY <1>1, <1>6 DEF CandleInv
  <2>2. published.start < seed.start + Interval
    BY <1>2, <1>3, <2>1, CandleAssumption
  <2>3. published.start <= seed.start
    BY <1>3, <2>1, <2>2, GridOrder
  <2> QED BY <1>1, <1>3, <2>1, <2>3
<1> QED BY <1>5, <1>6

\* update_ohlcv: the trade is not before the candle, and its interval is not before
\* any that has been published.
LEMMA UpdateOhlcvStep ==
  ASSUME QuietInv, UpdateOhlcv
  PROVE  /\ CandleInv'
         /\ published # NoCandle /\ base # EmptyCandle => published'.start >= published.start
<1> DEFINE trade == history[inHand]
           added == AddTrade(candle, lastTime, trade)
<1>1. /\ TradesInv /\ CandleInv /\ seed = NoCandle /\ candle # NoCandle
      /\ IsCandle(candle) /\ candle.start \in Int /\ candle.start <= TimeReached
      /\ UNCHANGED <<history, seed, base>>
      /\ inHand # 0
  BY DEF QuietInv, CandleInv, UpdateOhlcv, Unlocked, IsCandle
<1>2. /\ trade \in Trade /\ trade.time \in Nat
      /\ TimeReached <= trade.time /\ TimeReached' = trade.time
      /\ TimeReached \in Nat
  <2>1. inHand \in 1 .. Len(history)
    BY <1>1, TradesFacts DEF TradesInv
  <2>2. [Next]_vars
    BY DEF Next
  <2> QED BY <1>1, <2>1, <2>2, TradesFacts, TimeReachedStep
<1>3. trade.time >= candle.start
  BY <1>1, <1>2
<1>4. /\ IsCandle(added) /\ Current(added, trade.time) = added
      /\ added.start <= trade.time /\ trade.time < added.start + Interval
      /\ Aligned(candle.start) => Aligned(added.start)
      /\ added.start \in Int
  <2> HIDE DEF trade, added
  <2>1. added = AddTrade(candle, lastTime, trade)
    BY DEF added
  <2> QED BY <1>1, <1>2, <1>3, <2>1, AddTradeStart, CurrentHoldsTime DEF IsCandle
<1>5. candle' = added /\ published' = added /\ failed' = failed
  <2>1. trade.time >= added.start
    BY <1>2, <1>4
  <2> QED BY <1>4, <2>1 DEF UpdateOhlcv
<1> HIDE DEF trade, added
<1>6. CandleInv'
  <2>1. base # EmptyCandle => history # <<>> /\ Aligned(added.start)
    BY <1>1, <1>4 DEF CandleInv
  <2> QED BY <1>1, <1>2, <1>4, <1>5, <2>1 DEF CandleInv
<1>7. ASSUME published # NoCandle, base # EmptyCandle
      PROVE  published'.start >= published.start
  <2>1. /\ published.start \in Int /\ Aligned(published.start) /\ Aligned(candle.start)
        /\ published.start <= TimeReached
    BY <1>1, <1>7 DEF CandleInv
  <2>2. published.start < added.start + Interval
    BY <1>2, <1>4, <2>1, CandleAssumption
  <2>3. published.start <= added.start
    BY <1>4, <2>1, <2>2, GridOrder
  <2> QED BY <1>4, <1>5, <2>1, <2>3
<1> QED BY <1>6, <1>7

LEMMA QuietInductive ==
  ASSUME Quiet
  PROVE  /\ Init => QuietInv
         /\ QuietInv /\ [Next]_vars => QuietInv'
<1>1. ASSUME Init PROVE QuietInv
  <2>1. TradesInv
    BY <1>1, EmptySeq DEF Init, TradesInv
  <2> QED BY <1>1, <2>1 DEF Init, QuietInv, CandleInv
<1>2. ASSUME QuietInv, [Next]_vars PROVE QuietInv'
  <2>1. TradesInv /\ TradesInv' /\ CandleInv
    BY <1>2, TradesStep DEF QuietInv
  <2> SUFFICES CandleInv'
    BY <2>1 DEF QuietInv
  <2>2. ASSUME NEW trade \in Trade, ExchangeTrades(trade) PROVE CandleInv'
    <3>1. history' # <<>>
      BY <2>1, <2>2, AppendProperties DEF ExchangeTrades, TradesInv
    <3>2. /\ candle' \in {candle, NoCandle} /\ base' = base /\ published' = published
          /\ failed' = failed /\ seed' = NoCandle
      BY <1>2, <2>2 DEF ExchangeTrades, oftVars
    <3> QED BY <1>2, <3>1, <3>2, CandleLeftAlone
  <2>3. CASE AskForCandle
    <3>1. /\ candle' \in {candle, NoCandle} /\ base' = base /\ published' = published
          /\ failed' = failed /\ history' = history
          /\ inHand' = 0 /\ delivered' = Len(history) /\ seed' = ExchangeCandle
      BY <2>3 DEF AskForCandle, oftVars
    <3>2. ExchangeCandle' = ExchangeCandle
      BY <3>1 DEF ExchangeCandle, CountSince, PricesSince
    <3> QED BY <1>2, <3>1, <3>2, CandleLeftAlone
  <2>4. CASE RemoveSubscription
    <3>1. /\ candle' \in {candle, NoCandle} /\ base' = base /\ published' = published
          /\ failed' = failed /\ history' = history /\ seed' = NoCandle
      BY <2>4 DEF RemoveSubscription, Unlocked
    <3> QED BY <1>2, <3>1, CandleLeftAlone
  <2>5. CASE TakeTrade
    <3>1. /\ candle' \in {candle, NoCandle} /\ base' = base /\ published' = published
          /\ failed' = failed /\ history' = history /\ seed' = seed
          /\ delivered < Len(history)
      BY <2>5 DEF TakeTrade, oftVars
    <3>2. seed' = NoCandle
      BY <2>1, <3>1, TradesFacts DEF CandleInv
    <3> QED BY <1>2, <3>1, <3>2, CandleLeftAlone
  <2>6. CASE IgnoreTrade
    <3>1. /\ candle' \in {candle, NoCandle} /\ base' = base /\ published' = published
          /\ failed' = failed /\ history' = history /\ seed' = NoCandle
      BY <2>6 DEF IgnoreTrade, oftVars, Unlocked
    <3> QED BY <1>2, <3>1, CandleLeftAlone
  <2>7. CASE AddSubscription
    BY <1>2, <2>7, AddSubscriptionStep
  <2>8. CASE UpdateOhlcv
    BY <1>2, <2>8, UpdateOhlcvStep
  <2>9. CASE UNCHANGED vars
    BY <2>1, <2>9 DEF vars, CandleInv, ExchangeCandle, CountSince, PricesSince, TimeReached,
                      Position
  <2> QED BY <1>2, <2>1, <2>2, <2>3, <2>4, <2>5, <2>6, <2>7, <2>8, <2>9 DEF Next
<1> QED BY <1>1, <1>2

\* The assertion of get_ohlcv never fails for a strategy that subscribes while no trade
\* is on its way.
THEOREM QuietAssertionHolds ==
  ASSUME Quiet
  PROVE  Spec => []AssertionHolds
<1>1. QuietInv => AssertionHolds
  BY DEF QuietInv, CandleInv, AssertionHolds
<1>2. Init => QuietInv
  BY QuietInductive
<1>3. QuietInv /\ [Next]_vars => QuietInv'
  BY QuietInductive
<1> QED BY <1>1, <1>2, <1>3, PTL DEF Spec

\* The candles handed to update_ohlcv never go back in time, whatever the strategy
\* subscribes to and unsubscribes from in between.
THEOREM QuietCandlesNeverGoBack ==
  ASSUME Quiet
  PROVE  Spec => PublishedTimeNeverGoesBack
<1>1. ASSUME QuietInv, [Next]_vars
      PROVE  [published # NoCandle /\ base # EmptyCandle =>
                published'.start >= published.start]_vars
  <2>1. published' = published \/ AddSubscription \/ UpdateOhlcv
    BY <1>1 DEF Next, ExchangeTrades, AskForCandle, RemoveSubscription, TakeTrade, IgnoreTrade, vars
  <2>2. CASE published' = published
    <3>1. ASSUME published # NoCandle, base # EmptyCandle PROVE published.start \in Int
      BY <1>1, <3>1 DEF QuietInv, CandleInv
    <3> QED BY <2>2, <3>1
  <2> QED BY <1>1, <2>1, <2>2, AddSubscriptionStep, UpdateOhlcvStep
<1>2. Init => QuietInv
  BY QuietInductive
<1>3. QuietInv /\ [Next]_vars => QuietInv'
  BY QuietInductive
<1> QED BY <1>1, <1>2, <1>3, PTL DEF Spec, PublishedTimeNeverGoesBack

-----------------------------------------------------------------------------
(***************************************************************************)
(* Greatest and least elements, and the closing price.                     *)
(***************************************************************************)
\* What Max and Min of a set are.
LEMMA MaxIs ==
  ASSUME NEW S, S \subseteq Int, NEW m \in S, \A y \in S : y <= m
  PROVE  Max(S) = m
<1> DEFINE P(x) == \A y \in S : x >= y
<1>1. P(m)
  OBVIOUS
<1>2. ASSUME NEW x \in S, P(x) PROVE x = m
  BY <1>2
<1> HIDE DEF P
<1>3. (CHOOSE x \in S : P(x)) = m
  BY <1>1, <1>2
<1> QED BY <1>3 DEF P, Max

LEMMA MinIs ==
  ASSUME NEW S, S \subseteq Int, NEW m \in S, \A y \in S : m <= y
  PROVE  Min(S) = m
<1> DEFINE P(x) == \A y \in S : x <= y
<1>1. P(m)
  OBVIOUS
<1>2. ASSUME NEW x \in S, P(x) PROVE x = m
  BY <1>2
<1> HIDE DEF P
<1>3. (CHOOSE x \in S : P(x)) = m
  BY <1>1, <1>2
<1> QED BY <1>3 DEF P, Min

\* Non-empty, with a bound.
Bounded == {S \in SUBSET Nat : S # {} /\ \E N \in Nat : S \subseteq 0 .. N}

\* Such a set has a greatest and a least element.
LEMMA MaxIn ==
  ASSUME NEW S \in Bounded
  PROVE  Max(S) \in S /\ Max(S) \in Nat /\ \A y \in S : y <= Max(S)
<1>1. PICK N \in Nat : S \subseteq 0 .. N
  BY DEF Bounded
<1>2. PICK m \in S : \A y \in S : y <= m
  BY <1>1, GreatestNatural DEF Bounded
<1>3. S \subseteq Int /\ S \subseteq Nat
  BY DEF Bounded
<1> QED BY <1>2, <1>3, MaxIs

LEMMA MinIn ==
  ASSUME NEW S \in Bounded
  PROVE  Min(S) \in S /\ Min(S) \in Nat /\ \A y \in S : Min(S) <= y
<1>2. PICK m \in S : \A y \in S : m <= y
  BY LeastNatural DEF Bounded
<1>3. S \subseteq Int /\ S \subseteq Nat
  BY DEF Bounded
<1> QED BY <1>2, <1>3, MinIs

\* One more number.
LEMMA MaxOfMore ==
  ASSUME NEW S \in Bounded, NEW p \in Nat
  PROVE  S \cup {p} \in Bounded /\ Max(S \cup {p}) = Higher(Max(S), p)
<1>1. Max(S) \in S /\ Max(S) \in Nat /\ \A y \in S : y <= Max(S)
  BY MaxIn
<1>2. S \subseteq Nat
  BY DEF Bounded
<1>3. PICK N \in Nat : S \subseteq 0 .. N
  BY DEF Bounded
<1>4. S \cup {p} \in Bounded
  <2> DEFINE M == N + p
  <2>1. M \in Nat /\ 0 .. N \subseteq 0 .. M /\ p \in 0 .. M
    OBVIOUS
  <2> QED BY <1>2, <1>3, <2>1 DEF Bounded
<1>5. Max(S \cup {p}) = Higher(Max(S), p)
  <2> DEFINE T == S \cup {p}
             m == Higher(Max(S), p)
  <2>1. m \in T /\ T \subseteq Int /\ \A y \in T : y <= m
    BY <1>1, <1>2 DEF Higher
  <2> HIDE DEF T, m
  <2>2. Max(T) = m
    BY <2>1, MaxIs
  <2> QED BY <2>2 DEF T, m
<1> QED BY <1>4, <1>5

LEMMA MinOfMore ==
  ASSUME NEW S \in Bounded, NEW p \in Nat
  PROVE  Min(S \cup {p}) = Lower(Min(S), p)
<1>1. Min(S) \in S /\ Min(S) \in Nat /\ \A y \in S : Min(S) <= y
  BY MinIn
<1>2. S \subseteq Nat
  BY DEF Bounded
<1> DEFINE T == S \cup {p}
           m == Lower(Min(S), p)
<1>3. m \in T /\ T \subseteq Int /\ \A y \in T : m <= y
  BY <1>1, <1>2 DEF Lower
<1> HIDE DEF T, m
<1>4. Min(T) = m
  BY <1>3, MinIs
<1> QED BY <1>4 DEF T, m

LEMMA BoundedPart ==
  ASSUME NEW n \in Nat, NEW S, S \subseteq 0 .. n, S # {}
  PROVE  S \in Bounded
BY DEF Bounded

\* Trades in order of time.
Ordered == {h \in Seq(Trade) : \A i, j \in 1 .. Len(h) : i <= j => h[i].time <= h[j].time}

LEMMA OrderedFacts ==
  ASSUME NEW h \in Ordered
  PROVE  /\ Len(h) \in Nat
         /\ \A i \in 1 .. Len(h) : h[i].time \in 0 .. MaxTime /\ h[i].price \in Nat
         /\ \A i, j \in 1 .. Len(h) : i <= j => h[i].time <= h[j].time
<1>1. /\ Len(h) \in Nat
      /\ \A i \in 1 .. Len(h) : h[i] \in Trade
  BY LenProperties, ElementOfSeq DEF Ordered
<1>2. \A trade \in Trade : trade.time \in 0 .. MaxTime /\ trade.price \in Nat
  BY CandleAssumption DEF Trade
<1> QED BY <1>1, <1>2 DEF Ordered

\* The prices of trades are bounded, since the trades are finite in number.
LEMMA PricesAreBounded ==
  ASSUME NEW h \in Ordered, NEW ids, ids \subseteq 1 .. Len(h), ids # {}
  PROVE  {h[i].price : i \in ids} \in Bounded
<1> DEFINE S == {n \in 0 .. Len(h) : \E N \in Nat : \A i \in 1 .. n : h[i].price <= N}
<1>1. Len(h) \in Nat /\ \A i \in 1 .. Len(h) : h[i].price \in Nat
  BY OrderedFacts
<1>2. 0 \in S
  <2>1. 0 \in Nat /\ \A i \in 1 .. 0 : h[i].price <= 0
    OBVIOUS
  <2> QED BY <1>1, <2>1
<1>3. ASSUME NEW n \in 1 .. Len(h), n - 1 \in S PROVE n \in S
  <2>1. PICK N \in Nat : \A i \in 1 .. n - 1 : h[i].price <= N
    BY <1>3
  <2> DEFINE M == N + h[n].price
  <2>2. M \in Nat /\ N <= M /\ h[n].price <= M
    BY <1>1
  <2>3. ASSUME NEW i \in 1 .. n PROVE h[i].price <= M
    <3>1. i \in 1 .. n - 1 \/ i = n
      BY <1>1
    <3>2. h[i].price \in Nat
      BY <1>1
    <3> HIDE DEF M
    <3>3. CASE i \in 1 .. n - 1
      <4>1. h[i].price <= N
        BY <2>1, <3>3
      <4> QED BY <2>2, <3>2, <4>1
    <3> QED BY <2>2, <3>1, <3>3
  <2> HIDE DEF M
  <2>4. \E N2 \in Nat : \A i \in 1 .. n : h[i].price <= N2
    BY <2>2, <2>3
  <2>5. n \in 0 .. Len(h)
    BY <1>1
  <2> QED BY <2>4, <2>5
<1> HIDE DEF S
<1>4. 0 .. Len(h) \subseteq S
  BY <1>1, <1>2, <1>3, SetInductionUpTo
<1>5. PICK N \in Nat : \A i \in 1 .. Len(h) : h[i].price <= N
  <2>1. Len(h) \in 0 .. Len(h)
    BY <1>1
  <2> QED BY <1>4, <2>1 DEF S
<1>6. {h[i].price : i \in ids} \subseteq 0 .. N /\ {h[i].price : i \in ids} # {}
  <2>1. \A i \in ids : h[i].price \in 0 .. N
    BY <1>1, <1>5
  <2> QED BY <2>1
<1> QED BY <1>6, BoundedPart

\* CloseAfter, for any list of trades and first candle.
Later(h, b, ids) == {i \in ids : h[i].time > b.start}
Second(h, b, ids) == Max({h[i].time : i \in Later(h, b, ids)})
Closing(h, b, ids) ==
  IF Later(h, b, ids) = {} THEN b.close
  ELSE h[Min({i \in Later(h, b, ids) : h[i].time = Second(h, b, ids)})].price

\* The time of the last of the trades `a' + 1 to `n', or the start of the candle.
TimeOfLast(h, b, a, n) == IF a = n THEN b.start ELSE h[n].time

\* Trades `a' + 1 to `n' come after the first candle `b' has begun.
Follows(h, b, a, n) ==
  /\ h \in Ordered /\ b.start \in Int
  /\ a \in Nat /\ n \in a .. Len(h)
  /\ \A i \in a + 1 .. n : b.start <= h[i].time

\* What that says, trade by trade.
LEMMA FollowsFacts ==
  ASSUME NEW h, NEW b, NEW a, NEW n, Follows(h, b, a, n)
  PROVE  /\ Len(h) \in Nat /\ a \in Nat /\ n \in Nat /\ b.start \in Int
         /\ \A i \in a + 1 .. n : /\ i \in 1 .. Len(h) /\ i \in Nat
                                  /\ h[i].time \in Nat /\ h[i].price \in Nat
                                  /\ b.start <= h[i].time
                                  /\ h[i].time <= TimeOfLast(h, b, a, n)
         /\ a # n => n \in a + 1 .. n
         /\ TimeOfLast(h, b, a, n) \in Int /\ b.start <= TimeOfLast(h, b, a, n)
         /\ a # n => TimeOfLast(h, b, a, n) = h[n].time
<1>1. /\ Len(h) \in Nat /\ a \in Nat /\ n \in Nat /\ b.start \in Int /\ n >= a /\ n <= Len(h)
      /\ \A i \in 1 .. Len(h) : h[i].time \in 0 .. MaxTime /\ h[i].price \in Nat
      /\ \A i, j \in 1 .. Len(h) : i <= j => h[i].time <= h[j].time
      /\ MaxTime \in Nat
  BY OrderedFacts, CandleAssumption DEF Follows
<1>2. \A i \in a + 1 .. n : i \in 1 .. Len(h) /\ i <= n /\ a # n
  BY <1>1
<1>3. a # n => n \in a + 1 .. n /\ n \in 1 .. Len(h)
  BY <1>1
<1>4. \A i \in a + 1 .. n : b.start <= h[i].time
  BY DEF Follows
<1>5. ASSUME NEW i \in a + 1 .. n
      PROVE  h[i].time \in Nat /\ h[i].time <= TimeOfLast(h, b, a, n)
  <2>1. i \in 1 .. Len(h) /\ n \in 1 .. Len(h) /\ i <= n /\ a # n
    BY <1>2, <1>3
  <2>2. h[i].time <= h[n].time /\ h[i].time \in Nat
    BY <1>1, <2>1
  <2> QED BY <2>1, <2>2 DEF TimeOfLast
<1>6. TimeOfLast(h, b, a, n) \in Int /\ b.start <= TimeOfLast(h, b, a, n)
  BY <1>1, <1>3, <1>4 DEF TimeOfLast
<1>7. a # n => TimeOfLast(h, b, a, n) = h[n].time
  BY DEF TimeOfLast
<1>8. \A i \in a + 1 .. n : i \in Nat /\ h[i].price \in Nat
  BY <1>1, <1>2
<1> QED BY <1>1, <1>2, <1>3, <1>4, <1>5, <1>6, <1>7, <1>8

\* The candle closes with the first trade of the last second.
LEMMA ClosingAppended ==
  ASSUME NEW h, NEW b, NEW a, NEW n, Follows(h, b, a, n), Follows(h, b, a, n + 1)
  PROVE  /\ TimeOfLast(h, b, a, n) <= h[n + 1].time
         /\ Closing(h, b, a + 1 .. n + 1) = IF h[n + 1].time > TimeOfLast(h, b, a, n)
                                              THEN h[n + 1].price
                                              ELSE Closing(h, b, a + 1 .. n)
<1> DEFINE last == TimeOfLast(h, b, a, n)
           t == h[n + 1].time
           old == Later(h, b, a + 1 .. n)
           new == Later(h, b, a + 1 .. n + 1)
<1>1. /\ a \in Nat /\ n \in Nat /\ a <= n /\ b.start \in Int /\ n + 1 \in Nat
      /\ n + 1 \in a + 1 .. n + 1
      /\ a # n => n \in a + 1 .. n
      /\ last \in Int /\ b.start <= last
      /\ a # n => last = h[n].time
      /\ a = n => last = b.start
      /\ t \in Nat /\ b.start <= t
  <2>1. a \in Nat /\ n \in Nat /\ a <= n
    BY FollowsFacts DEF Follows
  <2>2. n + 1 \in a + 1 .. n + 1
    BY <2>1
  <2> QED BY <2>1, <2>2, FollowsFacts DEF TimeOfLast
<1>2. \A i \in a + 1 .. n : h[i].time \in Nat /\ h[i].time <= last
  BY FollowsFacts
<1>3. last <= t
  <2>1. CASE a = n
    BY <1>1, <2>1
  <2>2. CASE a # n
    <3>1. n \in 1 .. Len(h) /\ n + 1 \in 1 .. Len(h) /\ n <= n + 1
      BY <1>1, <2>2, FollowsFacts
    <3>2. h[n].time <= h[n + 1].time
      BY <3>1, OrderedFacts DEF Follows
    <3> QED BY <1>1, <2>2, <3>2
  <2> QED BY <2>1, <2>2
<1>4. a + 1 .. n + 1 = (a + 1 .. n) \cup {n + 1}
  BY <1>1
<1>5. new = IF t > b.start THEN old \cup {n + 1} ELSE old
  BY <1>4 DEF Later
<1>6. CASE t > last
  <2>1. new = old \cup {n + 1}
    BY <1>1, <1>5, <1>6
  <2>2. Max({h[i].time : i \in new}) = t
    <3> DEFINE T == {h[i].time : i \in new}
    <3>1. \A i \in new : i \in a + 1 .. n \/ i = n + 1
      BY <2>1 DEF Later
    <3>2. T \subseteq Int /\ \A y \in T : y <= t
      BY <1>1, <1>2, <1>6, <3>1
    <3>3. t \in T
      BY <2>1
    <3> HIDE DEF T, t
    <3> QED BY <3>2, <3>3, MaxIs DEF T
  <2>3. {i \in new : h[i].time = t} = {n + 1}
    <3>1. \A i \in old : h[i].time \in Nat /\ h[i].time <= last
      BY <1>2 DEF Later
    <3>2. \A i \in old : h[i].time # t
      BY <1>1, <1>6, <3>1
    <3> HIDE DEF old, new
    <3> QED BY <2>1, <3>2 DEF t
  <2>4. Min({n + 1}) = n + 1
    <3> DEFINE S == {n + 1}
               m == n + 1
    <3>1. S \subseteq Int /\ m \in S /\ \A y \in S : m <= y
      BY <1>1
    <3> HIDE DEF S, m
    <3>2. Min(S) = m
      BY <3>1, MinIs
    <3> QED BY <3>2 DEF S, m
  <2>5. Closing(h, b, a + 1 .. n + 1) = h[n + 1].price
    <3>1. new # {} /\ Second(h, b, a + 1 .. n + 1) = t
      BY <2>1, <2>2 DEF Second
    <3>2. Closing(h, b, a + 1 .. n + 1)
            = h[Min({i \in new : h[i].time = Second(h, b, a + 1 .. n + 1)})].price
      BY <3>1 DEF Closing
    <3> HIDE DEF new, t
    <3> QED BY <2>3, <2>4, <3>1, <3>2
  <2> QED BY <1>3, <1>6, <2>5
<1>7. CASE t = last /\ last = b.start
  <2>1. old = {} /\ new = {}
    <3>1. \A i \in a + 1 .. n : ~(h[i].time > b.start)
      BY <1>1, <1>2, <1>7
    <3>2. old = {}
      BY <3>1 DEF Later
    <3>3. ~(t > b.start)
      BY <1>1, <1>7
    <3> QED BY <1>5, <3>2, <3>3
  <2> QED BY <1>1, <1>3, <1>7, <2>1 DEF Closing
<1>8. CASE t = last /\ last # b.start
  <2>1. n \in old /\ new = old \cup {n + 1} /\ h[n].time = t /\ a # n
    <3>1. a # n /\ n \in a + 1 .. n /\ h[n].time = last /\ last > b.start
      BY <1>1, <1>8
    <3> QED BY <1>5, <1>8, <3>1 DEF Later
  <2>2. \A i \in old : i \in Nat /\ i < n + 1 /\ h[i].time \in Nat /\ h[i].time <= last
    BY <1>1, <1>2 DEF Later
  <2>3. {h[i].time : i \in new} = {h[i].time : i \in old}
    BY <2>1
  <2>4. Second(h, b, a + 1 .. n + 1) = Second(h, b, a + 1 .. n)
    BY <2>3 DEF Second
  <2>5. Second(h, b, a + 1 .. n) = t
    <3> DEFINE T == {h[i].time : i \in old}
    <3>1. T \subseteq Int /\ \A y \in T : y <= t
      BY <1>1, <1>8, <2>2
    <3>2. t \in T
      BY <2>1
    <3> HIDE DEF T, t
    <3> QED BY <3>1, <3>2, MaxIs DEF T, Second
  <2> DEFINE before == {i \in old : h[i].time = t}
             after == {i \in new : h[i].time = t}
  <2>6. after = before \cup {n + 1} /\ n \in before /\ before \subseteq Nat
    BY <2>1, <2>2
  <2>7. Min(after) = Min(before)
    <3> HIDE DEF old, new, t
    <3>1. PICK m \in before : \A i \in before : m <= i
      BY <2>6, LeastNatural
    <3>2. m <= n + 1 /\ m \in Nat
      BY <2>2, <2>6, <3>1
    <3>3. before \subseteq Int /\ after \subseteq Int /\ m \in after /\ \A i \in after : m <= i
      BY <1>1, <2>6, <3>1, <3>2
    <3> HIDE DEF before, after
    <3> QED BY <3>1, <3>3, MinIs
  <2>8. ~(t > last) /\ old # {} /\ new # {}
    BY <1>1, <1>8, <2>1
  <2> QED BY <1>3, <2>4, <2>5, <2>7, <2>8 DEF Closing
<1> QED BY <1>1, <1>3, <1>6, <1>7, <1>8

\* The closing price is one of the trades', or the first candle's.
LEMMA ClosingTyping ==
  ASSUME NEW h \in Ordered, NEW b, b.close \in Nat, NEW ids, ids \subseteq 1 .. Len(h)
  PROVE  Closing(h, b, ids) \in Nat
<1> DEFINE later == Later(h, b, ids)
           times == {h[i].time : i \in later}
           second == Second(h, b, ids)
           there == {i \in later : h[i].time = second}
<1>1. CASE later = {}
  BY <1>1 DEF Closing
<1>2. CASE later # {}
  <2>1. /\ Len(h) \in Nat /\ MaxTime \in Nat
        /\ \A i \in later : i \in 0 .. Len(h) /\ h[i].time \in 0 .. MaxTime /\ h[i].price \in Nat
    <3>1. \A i \in later : i \in 1 .. Len(h)
      BY DEF Later
    <3> QED BY <3>1, OrderedFacts, CandleAssumption
  <2>2. times \subseteq 0 .. MaxTime /\ times # {}
    <3> HIDE DEF later
    <3> QED BY <1>2, <2>1
  <2>3. second \in times
    <3>1. times \in Bounded
      BY <2>1, <2>2, BoundedPart
    <3>2. second = Max(times)
      BY DEF Second
    <3> HIDE DEF times, second
    <3> QED BY <3>1, <3>2, MaxIn
  <2>4. there \subseteq 0 .. Len(h) /\ there # {}
    <3> HIDE DEF later, second
    <3> QED BY <2>1, <2>3
  <2>5. Min(there) \in there
    <3> HIDE DEF there
    <3> QED BY <2>1, <2>4, BoundedPart, MinIn
  <2>6. Min(there) \in later
    <3> HIDE DEF later, second
    <3> QED BY <2>5
  <2>7. Closing(h, b, ids) = h[Min(there)].price
    BY <1>2 DEF Closing
  <2> HIDE DEF there, later
  <2> QED BY <2>1, <2>6, <2>7
<1> QED BY <1>1, <1>2

-----------------------------------------------------------------------------
(***************************************************************************)
(* Intervals.                                                              *)
(***************************************************************************)
\* The start of the interval of `time', on the grid of `b'.
StartOf(b, time) == b.start + ((time - b.start) \div Interval) * Interval

LEMMA QuotientIs ==
  ASSUME NEW x \in Int, NEW k \in Int, k * Interval <= x, x < k * Interval + Interval
  PROVE  x \div Interval = k
<1> DEFINE q == x \div Interval
<1>1. /\ q \in Int /\ q * Interval <= x /\ x < q * Interval + Interval
      /\ Interval \in Nat \ {0}
  BY GridBelow, CandleAssumption
<1> HIDE DEF q
<1>2. Aligned(q * Interval) /\ Aligned(k * Interval)
  BY <1>1 DEF Aligned
<1>3. q * Interval \in Int /\ k * Interval \in Int
  BY <1>1
<1>4. q * Interval = k * Interval
  <2>1. q * Interval < k * Interval + Interval /\ k * Interval < q * Interval + Interval
    BY <1>1, <1>3
  <2>2. q * Interval <= k * Interval /\ k * Interval <= q * Interval
    BY <1>2, <1>3, <2>1, GridOrder
  <2> QED BY <1>3, <2>2
<1>5. q = k
  BY <1>1, <1>4
<1> QED BY <1>5 DEF q

LEMMA StartFacts ==
  ASSUME NEW b, b.start \in Int, NEW time \in Int, b.start <= time
  PROVE  /\ StartOf(b, time) \in Int
         /\ b.start <= StartOf(b, time) /\ StartOf(b, time) <= time
         /\ time < StartOf(b, time) + Interval
         /\ StartOf(b, b.start) = b.start
<1> DEFINE k == (time - b.start) \div Interval
<1>1. /\ Interval \in Nat \ {0} /\ k \in Int /\ k * Interval \in Int
      /\ k * Interval <= time - b.start
      /\ time - b.start < k * Interval + Interval
  BY GridBelow, CandleAssumption
<1>2. StartOf(b, time) = b.start + k * Interval
  BY DEF StartOf
<1> HIDE DEF k
<1>3. 0 <= k * Interval
  <2>1. Aligned(0) /\ Aligned(k * Interval)
    BY <1>1 DEF Aligned
  <2>2. 0 < k * Interval + Interval
    BY <1>1
  <2> QED BY <1>1, <2>1, <2>2, GridOrder
<1>4. (b.start - b.start) \div Interval = 0
  <2>1. b.start - b.start = 0 /\ 0 * Interval <= 0 /\ 0 < 0 * Interval + Interval
    BY <1>1
  <2> QED BY <2>1, QuotientIs
<1>5. StartOf(b, b.start) = b.start
  BY <1>1, <1>4 DEF StartOf
<1> QED BY <1>1, <1>2, <1>3, <1>5

\* A new candle starts an interval later at least.
LEMMA NextStart ==
  ASSUME NEW start \in Int, NEW time \in Int, time >= start + Interval
  PROVE  start + Interval <= start + ((time - start) \div Interval) * Interval
<1> DEFINE x == time - start
           k == x \div Interval
<1>1. x \in Int /\ Interval <= x /\ Interval \in Nat \ {0}
  BY CandleAssumption
<1> HIDE DEF x
<1>2. k \in Int /\ k * Interval \in Int /\ x < k * Interval + Interval
  BY <1>1, GridBelow
<1> HIDE DEF k
<1>3. Interval <= k * Interval
  <2>1. 1 * Interval < k * Interval + Interval
    BY <1>1, <1>2
  <2>2. Aligned(1 * Interval) /\ Aligned(k * Interval)
    BY <1>2 DEF Aligned
  <2>3. 1 * Interval <= k * Interval
    BY <1>1, <1>2, <2>1, <2>2, GridOrder
  <2> QED BY <1>1, <2>3
<1> QED BY <1>1, <1>2, <1>3 DEF k, x

\* Counted from the start of any interval, the start of a later one is the same.
LEMMA StartStep ==
  ASSUME NEW b, b.start \in Int, NEW last \in Int, NEW time \in Int,
         b.start <= last, last <= time
  PROVE  LET start == StartOf(b, last)
         IN  StartOf(b, time) = IF time >= start + Interval
                                  THEN start + ((time - start) \div Interval) * Interval
                                  ELSE start
<1> DEFINE q == (last - b.start) \div Interval
           start == StartOf(b, last)
           j == (time - start) \div Interval
<1>1. /\ Interval \in Nat \ {0} /\ q \in Int /\ q * Interval \in Int
      /\ start = b.start + q * Interval
      /\ start \in Int /\ start <= last /\ last < start + Interval
  <2>1. Interval \in Nat \ {0} /\ q \in Int /\ q * Interval \in Int
    BY CandleAssumption
  <2>2. start \in Int /\ start <= last /\ last < start + Interval
    BY StartFacts
  <2>3. start = b.start + q * Interval
    BY DEF StartOf
  <2> QED BY <2>1, <2>2, <2>3
<1> HIDE DEF q, start
<1>2. CASE time >= start + Interval
  <2>1. /\ j \in Int /\ j * Interval \in Int
        /\ j * Interval <= time - start /\ time - start < j * Interval + Interval
    BY <1>1, GridBelow
  <2> HIDE DEF j
  <2> DEFINE k == q + j
  <2>2. k * Interval = q * Interval + j * Interval /\ k \in Int
    <3>1. (q + j) * Interval = q * Interval + j * Interval
      BY <1>1, <2>1
    <3> QED BY <1>1, <2>1, <3>1
  <2> HIDE DEF k
  <2> DEFINE x == time - b.start
  <2>3. x \div Interval = k
    <3>1. x \in Int /\ k * Interval <= x /\ x < k * Interval + Interval
      BY <1>1, <2>1, <2>2
    <3> HIDE DEF x
    <3> QED BY <2>2, <3>1, QuotientIs
  <2>4. StartOf(b, time) = start + j * Interval
    <3>1. StartOf(b, time) = b.start + k * Interval
      BY <2>3 DEF StartOf
    <3> DEFINE up == q * Interval
               further == j * Interval
    <3>2. /\ up \in Int /\ further \in Int /\ start = b.start + up
          /\ StartOf(b, time) = b.start + (up + further)
      BY <1>1, <2>1, <2>2, <3>1
    <3> HIDE DEF up, further
    <3>3. StartOf(b, time) = start + further
      BY <3>2
    <3> QED BY <3>3 DEF further
  <2> QED BY <1>2, <2>4 DEF start, j
<1>3. CASE ~(time >= start + Interval)
  <2> DEFINE x == time - b.start
  <2>1. x \div Interval = q
    <3>1. x \in Int /\ q * Interval <= x /\ x < q * Interval + Interval
      BY <1>1, <1>3
    <3> HIDE DEF x
    <3> QED BY <1>1, <3>1, QuotientIs
  <2> QED BY <1>1, <1>3, <2>1 DEF StartOf, start
<1> QED BY <1>2, <1>3 DEF start

-----------------------------------------------------------------------------
(***************************************************************************)
(* The candle that a list of trades defines.                               *)
(***************************************************************************)
\* Reference, for trades `a' + 1 to `n' of any list and any first candle.
Since(h, ids, time) == {i \in ids : h[i].time >= time}
Until(h, ids, time) == {i \in ids : h[i].time < time}
AtStart(h, ids, start) == {i \in Since(h, ids, start) : h[i].time = start}
PricesOf(h, ids) == {h[i].price : i \in ids}

\* What the trades of the interval are added to.
FirstOf(h, b, ids, start) ==
  IF start = b.start THEN b
  ELSE LET carried == Closing(h, b, Until(h, ids, start))
       IN  [start |-> start, open |-> carried, high |-> carried, low |-> carried,
            close |-> carried, volume |-> 0]

CandleAt(h, b, ids, start) ==
  LET first == FirstOf(h, b, ids, start)
      at == AtStart(h, ids, start)
      prices == PricesOf(h, Since(h, ids, start))
  IN  [start |-> start,
       open |-> IF at = {} THEN first.open ELSE h[Max(at)].price,
       high |-> Max(prices \cup {first.high}),
       low |-> Min(prices \cup {first.low}),
       close |-> Closing(h, b, ids),
       volume |-> first.volume + Cardinality(Since(h, ids, start))]

CandleOf(h, b, a, n) == CandleAt(h, b, a + 1 .. n, StartOf(b, TimeOfLast(h, b, a, n)))

\* A candle whose numbers are natural.
IsPriced(b) ==
  /\ IsCandle(b)
  /\ b.high \in Nat /\ b.low \in Nat /\ b.close \in Nat /\ b.volume \in Nat

LEMMA OneOf ==
  ASSUME NEW x \in Nat
  PROVE  {x} \in Bounded /\ Max({x}) = x /\ Min({x}) = x
<1> DEFINE S == {x}
<1>1. S \subseteq Int /\ x \in S /\ \A y \in S : y <= x /\ x <= y
  OBVIOUS
<1>2. S \subseteq 0 .. x /\ S # {}
  OBVIOUS
<1> HIDE DEF S
<1>3. Max(S) = x /\ Min(S) = x /\ S \in Bounded
  BY <1>1, <1>2, MaxIs, MinIs, BoundedPart
<1> QED BY <1>3 DEF S

\* One more trade in the interval of the candle.
LEMMA SameInterval ==
  ASSUME NEW h, NEW b, IsPriced(b), NEW a, NEW n, Follows(h, b, a, n), Follows(h, b, a, n + 1),
         NEW start \in Int, start <= h[n + 1].time
  PROVE  CandleAt(h, b, a + 1 .. n + 1, start)
           = LET c == CandleAt(h, b, a + 1 .. n, start)
                 trade == h[n + 1]
             IN  [start |-> start,
                  open |-> IF trade.time = start THEN trade.price ELSE c.open,
                  high |-> Higher(c.high, trade.price),
                  low |-> Lower(c.low, trade.price),
                  close |-> Closing(h, b, a + 1 .. n + 1),
                  volume |-> c.volume + 1]
<1> DEFINE ids == a + 1 .. n
           more == a + 1 .. n + 1
           trade == h[n + 1]
           inside == Since(h, ids, start)
           first == FirstOf(h, b, ids, start)
           c == CandleAt(h, b, ids, start)
           d == CandleAt(h, b, more, start)
<1>1. /\ a \in Nat /\ n \in Nat /\ Len(h) \in Nat
      /\ more = ids \cup {n + 1} /\ n + 1 \notin ids
      /\ ids \subseteq 1 .. Len(h) /\ \A i \in ids : i \in Nat /\ i <= n
      /\ trade.time \in Nat /\ trade.price \in Nat
      /\ \A i \in ids : h[i].time \in Nat /\ h[i].price \in Nat
  <2>1. a \in Nat /\ n \in Nat /\ Len(h) \in Nat /\ a <= n /\ n + 1 \in Nat
    BY FollowsFacts DEF Follows
  <2>2. more = ids \cup {n + 1} /\ n + 1 \notin ids /\ n + 1 \in more
    BY <2>1
  <2>3. /\ \A i \in more : i \in 1 .. Len(h) /\ h[i].time \in Nat /\ h[i].price \in Nat
    BY FollowsFacts
  <2>4. \A i \in ids : i \in Nat /\ i <= n
    BY <2>1
  <2> QED BY <2>1, <2>2, <2>3, <2>4
<1>2. /\ Since(h, more, start) = inside \cup {n + 1}
      /\ n + 1 \notin inside
      /\ Until(h, more, start) = Until(h, ids, start)
  <2>1. trade.time >= start /\ ~(trade.time < start)
    BY <1>1
  <2> HIDE DEF ids, more
  <2> QED BY <1>1, <2>1 DEF Since, Until
<1>3. FirstOf(h, b, more, start) = first
  BY <1>2 DEF FirstOf
<1>4. first.high \in Nat /\ first.low \in Nat /\ first.volume \in Nat
  <2>1. CASE start = b.start
    BY <2>1 DEF FirstOf, IsPriced
  <2>2. CASE start # b.start
    <3> DEFINE carried == Closing(h, b, Until(h, ids, start))
    <3>1. carried \in Nat
      <4>1. Until(h, ids, start) \subseteq 1 .. Len(h)
        BY <1>1 DEF Until
      <4> QED BY <4>1, ClosingTyping DEF Follows, IsPriced
    <3>2. first = [start |-> start, open |-> carried, high |-> carried, low |-> carried,
                   close |-> carried, volume |-> 0]
      BY <2>2 DEF FirstOf
    <3> HIDE DEF carried, first
    <3> QED BY <3>1, <3>2
  <2> QED BY <2>1, <2>2
<1>5. Cardinality(inside \cup {n + 1}) = Cardinality(inside) + 1 /\ Cardinality(inside) \in Nat
  <2>1. IsFiniteSet(ids)
    <3>1. a + 1 \in Int /\ n \in Int
      BY <1>1
    <3> QED BY <3>1, FS_Interval
  <2>2. IsFiniteSet(inside)
    <3>1. inside \in SUBSET ids
      BY DEF Since
    <3> QED BY <2>1, <3>1, FS_Subset
  <2> HIDE DEF inside
  <2> QED BY <1>2, <2>2, FS_AddElement, FS_CardinalityType
<1>6. ASSUME NEW x \in Nat
      PROVE  LET S == PricesOf(h, inside) \cup {x}
             IN  /\ S \in Bounded
                 /\ PricesOf(h, inside \cup {n + 1}) \cup {x} = S \cup {trade.price}
  <2>1. PricesOf(h, inside \cup {n + 1}) = PricesOf(h, inside) \cup {trade.price}
    <3> HIDE DEF inside
    <3> QED BY DEF PricesOf
  <2>2. CASE inside = {}
    <3>1. PricesOf(h, inside) \cup {x} = {x}
      BY <2>2 DEF PricesOf
    <3> QED BY <2>1, <3>1, OneOf
  <2>3. CASE inside # {}
    <3>1. inside \subseteq 1 .. Len(h)
      BY <1>1 DEF Since
    <3>2. PricesOf(h, inside) \in Bounded
      <4> HIDE DEF inside
      <4> QED BY <2>3, <3>1, PricesAreBounded DEF Follows, PricesOf
    <3>3. PricesOf(h, inside) \cup {x} \in Bounded
      BY <3>2, MaxOfMore
    <3> QED BY <2>1, <3>3
  <2> QED BY <2>2, <2>3
<1>7. /\ c = [start |-> start,
              open |-> IF AtStart(h, ids, start) = {} THEN first.open
                                                     ELSE h[Max(AtStart(h, ids, start))].price,
              high |-> Max(PricesOf(h, inside) \cup {first.high}),
              low |-> Min(PricesOf(h, inside) \cup {first.low}),
              close |-> Closing(h, b, ids),
              volume |-> first.volume + Cardinality(inside)]
      /\ d = [start |-> start,
              open |-> IF AtStart(h, more, start) = {} THEN first.open
                                                      ELSE h[Max(AtStart(h, more, start))].price,
              high |-> Max(PricesOf(h, inside \cup {n + 1}) \cup {first.high}),
              low |-> Min(PricesOf(h, inside \cup {n + 1}) \cup {first.low}),
              close |-> Closing(h, b, more),
              volume |-> first.volume + Cardinality(inside \cup {n + 1})]
  BY <1>2, <1>3 DEF CandleAt
<1> HIDE DEF c, d
<1>8. d.high = Higher(c.high, trade.price)
  <2> DEFINE S == PricesOf(h, inside) \cup {first.high}
  <2>1. S \in Bounded /\ d.high = Max(S \cup {trade.price}) /\ c.high = Max(S)
    BY <1>4, <1>6, <1>7
  <2> HIDE DEF S, trade
  <2>2. trade.price \in Nat
    BY <1>1
  <2> QED BY <2>1, <2>2, MaxOfMore
<1>9. d.low = Lower(c.low, trade.price)
  <2> DEFINE S == PricesOf(h, inside) \cup {first.low}
  <2>1. S \in Bounded /\ d.low = Min(S \cup {trade.price}) /\ c.low = Min(S)
    BY <1>4, <1>6, <1>7
  <2> HIDE DEF S, trade
  <2>2. trade.price \in Nat
    BY <1>1
  <2> QED BY <2>1, <2>2, MinOfMore
<1>10. d.volume = c.volume + 1
  <2> DEFINE k == Cardinality(inside)
  <2>1. k \in Nat /\ d.volume = first.volume + (k + 1) /\ c.volume = first.volume + k
    BY <1>5, <1>7
  <2> HIDE DEF k, first
  <2> QED BY <1>4, <2>1
<1>11. d.open = IF trade.time = start THEN trade.price ELSE c.open
  <2>1. AtStart(h, more, start) = IF trade.time = start THEN AtStart(h, ids, start) \cup {n + 1}
                                                        ELSE AtStart(h, ids, start)
    BY <1>2 DEF AtStart
  <2>2. CASE trade.time = start
    <3> DEFINE S == AtStart(h, ids, start) \cup {n + 1}
    <3>1. S \subseteq Int /\ n + 1 \in S /\ \A y \in S : y <= n + 1
      BY <1>1 DEF AtStart, Since
    <3>2. AtStart(h, more, start) = S
      BY <2>1, <2>2
    <3> HIDE DEF S, trade
    <3>3. Max(S) = n + 1
      BY <3>1, MaxIs
    <3>4. d.open = IF S = {} THEN first.open ELSE h[n + 1].price
      BY <1>7, <3>2, <3>3
    <3> QED BY <2>2, <3>1, <3>4 DEF trade
  <2>3. CASE trade.time # start
    <3>1. AtStart(h, more, start) = AtStart(h, ids, start)
      BY <2>1, <2>3
    <3> HIDE DEF trade
    <3> QED BY <1>7, <2>3, <3>1
  <2> QED BY <2>2, <2>3
<1>12. d = [start |-> start, open |-> d.open, high |-> d.high, low |-> d.low,
            close |-> Closing(h, b, more), volume |-> d.volume]
  <2> HIDE DEF first, inside
  <2> QED BY <1>7
<1> HIDE DEF trade
<1>13. d = [start |-> start,
            open |-> IF trade.time = start THEN trade.price ELSE c.open,
            high |-> Higher(c.high, trade.price),
            low |-> Lower(c.low, trade.price),
            close |-> Closing(h, b, more),
            volume |-> c.volume + 1]
  BY <1>8, <1>9, <1>10, <1>11, <1>12
<1> QED BY <1>13 DEF d, c, trade

\* The first trade of a later interval.
LEMMA LaterInterval ==
  ASSUME NEW h, NEW b, IsPriced(b), NEW a, NEW n, Follows(h, b, a, n), Follows(h, b, a, n + 1),
         NEW start \in Int, start <= h[n + 1].time, TimeOfLast(h, b, a, n) < start
  PROVE  CandleAt(h, b, a + 1 .. n + 1, start)
           = LET trade == h[n + 1]
                 carried == Closing(h, b, a + 1 .. n)
             IN  [start |-> start,
                  open |-> IF trade.time = start THEN trade.price ELSE carried,
                  high |-> Higher(carried, trade.price),
                  low |-> Lower(carried, trade.price),
                  close |-> Closing(h, b, a + 1 .. n + 1),
                  volume |-> 1]
<1> DEFINE ids == a + 1 .. n
           more == a + 1 .. n + 1
           trade == h[n + 1]
           carried == Closing(h, b, ids)
           first == FirstOf(h, b, more, start)
           d == CandleAt(h, b, more, start)
           price == trade.price
           next == n + 1
<1>1. /\ a \in Nat /\ n \in Nat /\ Len(h) \in Nat /\ next \in Nat
      /\ more = ids \cup {next}
      /\ ids \subseteq 1 .. Len(h)
      /\ trade.time \in Nat /\ price \in Nat
      /\ \A i \in ids : h[i].time < start
      /\ start # b.start
  <2>1. a \in Nat /\ n \in Nat /\ Len(h) \in Nat /\ a <= n /\ n + 1 \in Nat
    BY FollowsFacts DEF Follows
  <2>2. more = ids \cup {n + 1} /\ n + 1 \in more
    BY <2>1
  <2>3. \A i \in more : i \in 1 .. Len(h) /\ h[i].time \in Nat /\ h[i].price \in Nat
    BY FollowsFacts
  <2>4. TimeOfLast(h, b, a, n) \in Int /\ b.start <= TimeOfLast(h, b, a, n) /\ b.start \in Int
    BY FollowsFacts
  <2>5. \A i \in ids : h[i].time <= TimeOfLast(h, b, a, n) /\ h[i].time \in Nat
    BY FollowsFacts
  <2>6. \A i \in ids : h[i].time < start
    BY <2>4, <2>5
  <2>7. start # b.start
    BY <2>4
  <2> QED BY <2>1, <2>2, <2>3, <2>6, <2>7
<1>2. Since(h, more, start) = {next} /\ Until(h, more, start) = ids
  <2>1. trade.time >= start /\ ~(trade.time < start)
    BY <1>1
  <2>2. \A i \in ids : ~(h[i].time >= start)
    <3>1. \A i \in ids : h[i].time \in Nat
      BY FollowsFacts
    <3> QED BY <1>1, <3>1
  <2> HIDE DEF ids, more
  <2> QED BY <1>1, <2>1, <2>2 DEF Since, Until
<1>3. carried \in Nat
  BY <1>1, ClosingTyping DEF Follows, IsPriced
<1>4. first = [start |-> start, open |-> carried, high |-> carried, low |-> carried,
               close |-> carried, volume |-> 0]
  BY <1>1, <1>2 DEF FirstOf
<1>5. PricesOf(h, {next}) = {price} /\ Cardinality({next}) = 1
  <2> DEFINE none == {}
  <2>1. Cardinality(none \cup {next}) = 1
    <3>1. IsFiniteSet(none) /\ Cardinality(none) = 0 /\ next \notin none
      BY FS_EmptySet
    <3> HIDE DEF none
    <3> QED BY <3>1, FS_AddElement
  <2>2. none \cup {next} = {next}
    OBVIOUS
  <2> HIDE DEF next, none
  <2> QED BY <2>1, <2>2 DEF PricesOf, next
<1>6. AtStart(h, more, start) = IF trade.time = start THEN {next} ELSE {}
  BY <1>2 DEF AtStart
<1>7. d = [start |-> start,
           open |-> IF AtStart(h, more, start) = {} THEN first.open
                                                    ELSE h[Max(AtStart(h, more, start))].price,
           high |-> Max({price} \cup {first.high}),
           low |-> Min({price} \cup {first.low}),
           close |-> Closing(h, b, more),
           volume |-> first.volume + 1]
  BY <1>2, <1>5 DEF CandleAt
<1> HIDE DEF d, first, carried
<1>8. /\ Max({price} \cup {carried}) = Higher(carried, price)
      /\ Min({price} \cup {carried}) = Lower(carried, price)
  <2>1. {carried} \in Bounded /\ Max({carried}) = carried /\ Min({carried}) = carried
    BY <1>3, OneOf
  <2>2. {price} \cup {carried} = {carried} \cup {price}
    OBVIOUS
  <2> HIDE DEF price
  <2>3. /\ Max({carried} \cup {price}) = Higher(Max({carried}), price)
        /\ Min({carried} \cup {price}) = Lower(Min({carried}), price)
    BY <1>1, <2>1, MaxOfMore, MinOfMore
  <2> QED BY <2>1, <2>2, <2>3
<1>9. (IF AtStart(h, more, start) = {} THEN first.open ELSE h[Max(AtStart(h, more, start))].price)
        = IF trade.time = start THEN trade.price ELSE carried
  <2>1. Max({next}) = next
    <3> HIDE DEF next
    <3> QED BY <1>1, OneOf
  <2>2. CASE trade.time = start
    <3>1. AtStart(h, more, start) = {next} /\ {next} # {}
      BY <1>6, <2>2
    <3> QED BY <2>1, <2>2, <3>1 DEF next, trade
  <2>3. CASE trade.time # start
    <3>1. AtStart(h, more, start) = {}
      BY <1>6, <2>3
    <3> QED BY <1>4, <2>3, <3>1
  <2> QED BY <2>2, <2>3
<1>10. first.high = carried /\ first.low = carried /\ first.volume + 1 = 1
  BY <1>4
<1> HIDE DEF trade, price
<1>11. d = [start |-> start,
            open |-> IF trade.time = start THEN trade.price ELSE carried,
            high |-> Higher(carried, price),
            low |-> Lower(carried, price),
            close |-> Closing(h, b, more),
            volume |-> 1]
  BY <1>7, <1>8, <1>9, <1>10
<1> QED BY <1>11 DEF d, carried, trade, price

\* add_trade, spelled out.
LEMMA AddTradeIs ==
  ASSUME NEW c, NEW last, NEW trade, ~(trade.time < c.start),
         NEW s, NEW o, NEW hi, NEW lo, NEW cl, NEW v,
         Current(c, trade.time)
           = [start |-> s, open |-> o, high |-> hi, low |-> lo, close |-> cl, volume |-> v]
  PROVE  AddTrade(c, last, trade)
           = [start |-> s,
              open |-> IF trade.time = s THEN trade.price ELSE o,
              high |-> Higher(hi, trade.price),
              low |-> Lower(lo, trade.price),
              close |-> IF trade.time > last THEN trade.price ELSE cl,
              volume |-> v + 1]
<1> DEFINE R == [start |-> s, open |-> o, high |-> hi, low |-> lo, close |-> cl, volume |-> v]
           changed == [R EXCEPT !.open = IF trade.time = R.start THEN trade.price ELSE @,
                                !.high = Higher(@, trade.price),
                                !.low = Lower(@, trade.price),
                                !.volume = @ + 1,
                                !.close = IF trade.time > last THEN trade.price ELSE @]
<1>1. AddTrade(c, last, trade) = changed
  <2> HIDE DEF R
  <2> QED BY DEF AddTrade, R
<1>2. changed = [start |-> s,
                 open |-> IF trade.time = s THEN trade.price ELSE o,
                 high |-> Higher(hi, trade.price),
                 low |-> Lower(lo, trade.price),
                 close |-> IF trade.time > last THEN trade.price ELSE cl,
                 volume |-> v + 1]
  <2>1. R = [f \in Fields |-> R[f]]
    BY DEF Fields
  <2>2. /\ R.start = s /\ R.open = o /\ R.high = hi /\ R.low = lo /\ R.close = cl
        /\ R.volume = v
    OBVIOUS
  <2> HIDE DEF R
  <2>3. changed = [f \in Fields |-> changed[f]]
    BY <2>1 DEF Fields
  <2>4. /\ changed.start = s
        /\ changed.open = IF trade.time = s THEN trade.price ELSE o
        /\ changed.high = Higher(hi, trade.price)
        /\ changed.low = Lower(lo, trade.price)
        /\ changed.close = IF trade.time > last THEN trade.price ELSE cl
        /\ changed.volume = v + 1
    BY <2>1, <2>2 DEF Fields
  <2> HIDE DEF changed
  <2> QED BY <2>3, <2>4 DEF Fields
<1> QED BY <1>1, <1>2

\* add_trade makes of the candle of a list of trades that of the list with one more.
LEMMA CandleAppended ==
  ASSUME NEW h, NEW b, IsPriced(b), NEW a, NEW n, Follows(h, b, a, n), Follows(h, b, a, n + 1)
  PROVE  /\ CandleOf(h, b, a, n + 1)
              = AddTrade(CandleOf(h, b, a, n), TimeOfLast(h, b, a, n), h[n + 1])
         /\ TimeOfLast(h, b, a, n + 1)
              = LastTimeAfter(CandleOf(h, b, a, n), TimeOfLast(h, b, a, n), h[n + 1])
<1> DEFINE trade == h[n + 1]
           t == trade.time
           last == TimeOfLast(h, b, a, n)
           start == StartOf(b, last)
           c == CandleOf(h, b, a, n)
           ids == a + 1 .. n
           more == a + 1 .. n + 1
           now == Current(c, t)
<1>1. /\ t \in Nat /\ trade.price \in Nat
      /\ last \in Int /\ b.start \in Int /\ b.start <= last /\ last <= t
      /\ TimeOfLast(h, b, a, n + 1) = t
  <2>1. a \in Nat /\ n \in Nat /\ a <= n /\ a # n + 1
    BY FollowsFacts DEF Follows
  <2>2. n + 1 \in a + 1 .. n + 1 /\ TimeOfLast(h, b, a, n + 1) = t
    BY <2>1, FollowsFacts
  <2>3. t \in Nat /\ trade.price \in Nat
    BY <2>2, FollowsFacts
  <2>4. last <= t
    BY ClosingAppended
  <2> QED BY <2>2, <2>3, <2>4, FollowsFacts
<1>2. /\ start \in Int /\ start <= last /\ last < start + Interval
      /\ Interval \in Nat \ {0}
  BY <1>1, StartFacts, CandleAssumption
<1>3. /\ Closing(h, b, more) = IF t > last THEN trade.price ELSE Closing(h, b, ids)
  BY ClosingAppended
<1>4. c.start = start /\ c.close = Closing(h, b, ids)
  BY DEF CandleOf, CandleAt
<1>5. CandleOf(h, b, a, n + 1) = CandleAt(h, b, more, StartOf(b, t))
  BY <1>1 DEF CandleOf
<1>6. ~(t < c.start) /\ t >= c.start
  <2> HIDE DEF c, start, last, t
  <2> QED BY <1>1, <1>2, <1>4
<1>8. StartOf(b, t) = IF t >= start + Interval THEN start + ((t - start) \div Interval) * Interval
                                             ELSE start
  <2> HIDE DEF t, last
  <2> QED BY <1>1, StartStep
<1>9. t = LastTimeAfter(c, last, trade)
  <2> HIDE DEF c, last
  <2> QED BY <1>1, <1>6 DEF LastTimeAfter
<1>10. CASE ~(t >= start + Interval)
  <2>1. now = c
    BY <1>4, <1>10 DEF Current
  <2>2. CandleAt(h, b, more, start)
          = [start |-> start,
             open |-> IF t = start THEN trade.price ELSE c.open,
             high |-> Higher(c.high, trade.price),
             low |-> Lower(c.low, trade.price),
             close |-> Closing(h, b, more),
             volume |-> c.volume + 1]
    <3>1. start <= t
      BY <1>1, <1>2
    <3>2. c = CandleAt(h, b, ids, start)
      BY DEF CandleOf
    <3> HIDE DEF c, start
    <3> QED BY <1>2, <3>1, <3>2, SameInterval
  <2>3. c = [start |-> start, open |-> c.open, high |-> c.high, low |-> c.low,
             close |-> Closing(h, b, ids), volume |-> c.volume]
    BY DEF CandleOf, CandleAt
  <2>4. StartOf(b, t) = start
    BY <1>8, <1>10
  <2> DEFINE o == c.open
             hi == c.high
             lo == c.low
             v == c.volume
  <2>5. Current(c, t) = [start |-> start, open |-> o, high |-> hi, low |-> lo,
                         close |-> Closing(h, b, ids), volume |-> v]
    <3> HIDE DEF c, start, t
    <3> QED BY <2>1, <2>3
  <2> HIDE DEF c, now, start, last, trade, o, hi, lo, v
  <2>6. AddTrade(c, last, trade) = CandleAt(h, b, more, start)
    <3>1. AddTrade(c, last, trade)
           = [start |-> start,
              open |-> IF t = start THEN trade.price ELSE o,
              high |-> Higher(hi, trade.price),
              low |-> Lower(lo, trade.price),
              close |-> IF t > last THEN trade.price ELSE Closing(h, b, ids),
              volume |-> v + 1]
      BY <1>6, <2>5, AddTradeIs
    <3> QED BY <1>3, <2>2, <3>1 DEF o, hi, lo, v
  <2> QED BY <1>1, <1>5, <1>9, <2>4, <2>6 DEF c, t, last, trade
<1>11. CASE t >= start + Interval
  <2> DEFINE later == StartOf(b, t)
  <2>1. now = [start |-> later, open |-> c.close, high |-> c.close, low |-> c.close,
               close |-> c.close, volume |-> 0]
    BY <1>4, <1>8, <1>11 DEF Current, StartNewCandle
  <2>2. later \in Int /\ later <= t /\ last < later
    <3>1. later \in Int /\ later <= t /\ t < later + Interval
      <4>1. t \in Int /\ b.start <= t
        BY <1>1
      <4> HIDE DEF t
      <4> QED BY <1>1, <4>1, StartFacts
    <3>2. start + Interval <= later
      <4>1. later = start + ((t - start) \div Interval) * Interval
        BY <1>8, <1>11
      <4> HIDE DEF later, start, t
      <4> QED BY <1>1, <1>2, <1>11, <4>1, NextStart
    <3> HIDE DEF later, start, last, t
    <3> QED BY <1>1, <1>2, <3>1, <3>2
  <2>3. CandleAt(h, b, more, later)
          = [start |-> later,
             open |-> IF t = later THEN trade.price ELSE c.close,
             high |-> Higher(c.close, trade.price),
             low |-> Lower(c.close, trade.price),
             close |-> Closing(h, b, more),
             volume |-> 1]
    <3>1. c.close = Closing(h, b, ids)
      BY <1>4
    <3> HIDE DEF later, c
    <3> QED BY <2>2, <3>1, LaterInterval
  <2> DEFINE cl == c.close
  <2> HIDE DEF c, start, last, trade, later, cl
  <2>4. AddTrade(c, last, trade) = CandleAt(h, b, more, later)
    <3>1. Current(c, t) = [start |-> later, open |-> cl, high |-> cl, low |-> cl,
                           close |-> cl, volume |-> 0]
      BY <2>1 DEF cl
    <3>2. AddTrade(c, last, trade)
           = [start |-> later,
              open |-> IF t = later THEN trade.price ELSE cl,
              high |-> Higher(cl, trade.price),
              low |-> Lower(cl, trade.price),
              close |-> IF t > last THEN trade.price ELSE cl,
              volume |-> 0 + 1]
      BY <1>6, <3>1, AddTradeIs
    <3> QED BY <1>3, <1>4, <2>3, <3>2 DEF cl
  <2> QED BY <1>1, <1>5, <1>9, <2>4 DEF c, t, last, trade, later
<1> QED BY <1>10, <1>11

\* Before any trade the candle is the first one.
LEMMA CandleOfNone ==
  ASSUME NEW h, NEW b, IsPriced(b), NEW a \in Nat
  PROVE  CandleOf(h, b, a, a) = b /\ TimeOfLast(h, b, a, a) = b.start
<1> DEFINE none == a + 1 .. a
<1>1. none = {}
  OBVIOUS
<1>2. b.start \in Int /\ b.start <= b.start
  BY DEF IsPriced, IsCandle
<1>3. TimeOfLast(h, b, a, a) = b.start /\ StartOf(b, b.start) = b.start
  BY <1>2, StartFacts DEF TimeOfLast
<1>4. Since(h, none, b.start) = {} /\ PricesOf(h, {}) = {} /\ AtStart(h, none, b.start) = {}
  BY <1>1 DEF Since, PricesOf, AtStart
<1>5. FirstOf(h, b, none, b.start) = b
  BY DEF FirstOf
<1>6. Closing(h, b, none) = b.close
  BY <1>1 DEF Closing, Later
<1>7. CandleAt(h, b, none, b.start)
        = [start |-> b.start, open |-> b.open, high |-> Max({} \cup {b.high}),
           low |-> Min({} \cup {b.low}), close |-> b.close, volume |-> b.volume + Cardinality({})]
  BY <1>4, <1>5, <1>6 DEF CandleAt
<1>8. Max({} \cup {b.high}) = b.high /\ Min({} \cup {b.low}) = b.low
  <2>1. Max({b.high}) = b.high /\ Min({b.low}) = b.low
    BY OneOf DEF IsPriced
  <2>2. {} \cup {b.high} = {b.high} /\ {} \cup {b.low} = {b.low}
    OBVIOUS
  <2> QED BY <2>1, <2>2
<1>9. b.volume + Cardinality({}) = b.volume
  BY FS_EmptySet DEF IsPriced
<1>10. b = [start |-> b.start, open |-> b.open, high |-> b.high, low |-> b.low,
            close |-> b.close, volume |-> b.volume]
  BY DEF IsPriced, IsCandle, Fields
<1>11. CandleOf(h, b, a, a) = CandleAt(h, b, none, b.start)
  BY <1>3 DEF CandleOf
<1> QED BY <1>3, <1>7, <1>8, <1>9, <1>10, <1>11

LEMMA FollowsBefore ==
  ASSUME NEW h, NEW b, NEW a, NEW n, Follows(h, b, a, n), NEW m \in a .. n
  PROVE  Follows(h, b, a, m)
<1>1. a \in Nat /\ n \in Nat /\ Len(h) \in Nat /\ n <= Len(h)
  BY FollowsFacts DEF Follows
<1>2. m \in a .. Len(h) /\ a + 1 .. m \subseteq a + 1 .. n
  BY <1>1
<1> QED BY <1>2 DEF Follows

\* The candle depends on its trades only.
LEMMA CandleOfSame ==
  ASSUME NEW h, NEW g, NEW b, IsPriced(b), NEW a, NEW n, Follows(h, b, a, n), Follows(g, b, a, n),
         \A i \in a + 1 .. n : g[i] = h[i]
  PROVE  /\ CandleOf(g, b, a, n) = CandleOf(h, b, a, n)
         /\ TimeOfLast(g, b, a, n) = TimeOfLast(h, b, a, n)
<1> DEFINE N == n - a
           S == {k \in 0 .. N : /\ CandleOf(g, b, a, a + k) = CandleOf(h, b, a, a + k)
                                /\ TimeOfLast(g, b, a, a + k) = TimeOfLast(h, b, a, a + k)}
<1>1. a \in Nat /\ n \in Nat /\ a <= n /\ N \in Nat /\ a + N = n
  <2>1. a \in Nat /\ n \in Nat /\ a <= n
    BY FollowsFacts DEF Follows
  <2> QED BY <2>1
<1>2. 0 \in S
  <2>1. a + 0 = a /\ 0 \in 0 .. N
    BY <1>1
  <2> QED BY <1>1, <2>1, CandleOfNone
<1>3. ASSUME NEW k \in 1 .. N, k - 1 \in S PROVE k \in S
  <2> DEFINE m == a + (k - 1)
  <2>1. m \in a .. n /\ m + 1 \in a .. n /\ m + 1 = a + k /\ m + 1 \in a + 1 .. n
    BY <1>1
  <2>2. /\ CandleOf(g, b, a, m) = CandleOf(h, b, a, m)
        /\ TimeOfLast(g, b, a, m) = TimeOfLast(h, b, a, m)
    BY <1>3
  <2> HIDE DEF m
  <2>3. /\ Follows(h, b, a, m) /\ Follows(h, b, a, m + 1)
        /\ Follows(g, b, a, m) /\ Follows(g, b, a, m + 1)
    BY <2>1, FollowsBefore
  <2>4. g[m + 1] = h[m + 1]
    BY <2>1
  <2>5. CandleOf(g, b, a, m + 1) = CandleOf(h, b, a, m + 1)
    BY <2>2, <2>3, <2>4, CandleAppended
  <2>6. TimeOfLast(g, b, a, m + 1) = TimeOfLast(h, b, a, m + 1)
    BY <2>4 DEF TimeOfLast
  <2>7. k \in 0 .. N
    BY <1>1
  <2> QED BY <2>1, <2>5, <2>6, <2>7
<1> HIDE DEF S
<1>4. 0 .. N \subseteq S
  BY <1>1, <1>2, <1>3, SetInductionUpTo
<1>5. N \in S
  BY <1>1, <1>4
<1> QED BY <1>1, <1>5 DEF S

\* The REST answer counts the trades of its interval.
LEMMA ExchangeCandleIsPriced ==
  ASSUME TradesInv
  PROVE  /\ IsPriced(ExchangeCandle)
         /\ ExchangeCandle.volume = Cardinality({i \in DOMAIN history :
                                       history[i].time >= ExchangeCandle.start})
<1>1. CASE history = <<>>
  <2>1. DOMAIN history = {}
    BY <1>1
  <2>2. {i \in DOMAIN history : history[i].time >= ExchangeCandle.start} = {}
    BY <2>1
  <2>3. ExchangeCandle = EmptyCandle
    BY <1>1 DEF ExchangeCandle
  <2> QED BY <2>2, <2>3, FS_EmptySet, ExchangeCandleFacts DEF IsPriced, EmptyCandle
<1>2. CASE history # <<>>
  <2> DEFINE last == history[Len(history)]
             start == (last.time \div Interval) * Interval
             ids == {j \in DOMAIN history : history[j].time >= start}
  <2>1. /\ Len(history) \in Nat \ {0} /\ DOMAIN history = 1 .. Len(history)
        /\ history \in Ordered /\ last.time \in Nat /\ last.price \in Nat
    <3>1. history \in Ordered /\ Len(history) \in Nat /\ Len(history) # 0 /\ history \in Seq(Trade)
      BY <1>2, TradesFacts DEF Ordered, TradesInv
    <3>2. Len(history) \in 1 .. Len(history)
      BY <3>1
    <3>3. DOMAIN history = 1 .. Len(history)
      BY <3>1, LenProperties
    <3> QED BY <3>1, <3>2, <3>3, OrderedFacts
  <2>2. start \in Int /\ start <= last.time
    <3> DEFINE time == last.time
    <3>1. time \in Int
      BY <2>1
    <3> HIDE DEF last, time
    <3>2. (time \div Interval) * Interval \in Int /\ (time \div Interval) * Interval <= time
      BY <3>1, GridBelow
    <3> QED BY <3>2 DEF time
  <2>3. ids # {} /\ ids \subseteq 1 .. Len(history)
    <3>1. Len(history) \in DOMAIN history /\ last.time >= start
      BY <2>1, <2>2
    <3> QED BY <2>1, <3>1
  <2>4. PricesSince(start) = {history[i].price : i \in ids} /\ CountSince(start) = Cardinality(ids)
    BY DEF PricesSince, CountSince
  <2>5. Max(PricesSince(start)) \in Nat /\ Min(PricesSince(start)) \in Nat
    <3> HIDE DEF ids, start
    <3>1. PricesSince(start) \in Bounded
      BY <2>1, <2>3, <2>4, PricesAreBounded
    <3> QED BY <3>1, MaxIn, MinIn
  <2>6. Cardinality(ids) \in Nat
    <3>1. IsFiniteSet(1 .. Len(history))
      <4>1. 1 \in Int /\ Len(history) \in Int
        BY <2>1
      <4> QED BY <4>1, FS_Interval
    <3> HIDE DEF ids
    <3>2. IsFiniteSet(ids)
      BY <2>3, <3>1, FS_Subset
    <3> QED BY <3>2, FS_CardinalityType
  <2>7. /\ ExchangeCandle.start = start /\ ExchangeCandle.close = last.price
        /\ ExchangeCandle.high = Max(PricesSince(start))
        /\ ExchangeCandle.low = Min(PricesSince(start))
        /\ ExchangeCandle.volume = CountSince(start)
    BY <1>2 DEF ExchangeCandle
  <2> HIDE DEF start, last
  <2> QED BY <2>1, <2>4, <2>5, <2>6, <2>7, ExchangeCandleFacts DEF IsPriced
<1> QED BY <1>1, <1>2

\* Reference, once its start is known.
ReferenceAt(start) ==
  LET inside == AppliedSince(start)
      atStart == {i \in inside : history[i].time = start}
      prices == {history[i].price : i \in inside}
      carried == CloseAfter(AppliedBefore(start))
      before == IF start = base.start THEN base
                ELSE [start |-> start, open |-> carried, high |-> carried, low |-> carried,
                      close |-> carried, volume |-> 0]
  IN  [start |-> start,
       open |-> IF atStart = {} THEN before.open ELSE history[Max(atStart)].price,
       high |-> Max(prices \cup {before.high}),
       low |-> Min(prices \cup {before.low}),
       close |-> CloseAfter(Applied),
       volume |-> before.volume + Cardinality(inside)]

\* Reference is the candle of the trades handed over so far.
LEMMA ReferenceIs ==
  ASSUME counted \in Nat, Position \in Nat, counted <= Position
  PROVE  Reference = CandleOf(history, base, counted, Position)
<1> DEFINE ids == counted + 1 .. Position
           latest == TimeOfLast(history, base, counted, Position)
           start == StartOf(base, latest)
<1>1. Applied = ids
  BY DEF Applied, Position
<1>2. (IF Applied = {} THEN base.start ELSE history[Max(Applied)].time) = latest
  <2>1. CASE counted = Position
    <3>1. ids = {}
      BY <2>1
    <3> QED BY <1>1, <2>1, <3>1 DEF TimeOfLast
  <2>2. CASE counted # Position
    <3>1. ids \subseteq Int /\ Position \in ids /\ \A i \in ids : i <= Position
      BY <2>2
    <3> HIDE DEF ids
    <3>2. Max(ids) = Position /\ ids # {}
      BY <3>1, MaxIs
    <3> QED BY <1>1, <2>2, <3>2 DEF TimeOfLast
  <2> QED BY <2>1, <2>2
<1>3. AppliedSince(start) = Since(history, ids, start)
  BY <1>1 DEF AppliedSince, Since
<1>4. AppliedBefore(start) = Until(history, ids, start)
  BY <1>1 DEF AppliedBefore, Until
<1>5. \A set : CloseAfter(set) = Closing(history, base, set)
  BY Zenon DEF CloseAfter, Closing, Later, Second
<1> HIDE DEF ids, latest
<1>6. start = base.start + ((latest - base.start) \div Interval) * Interval
  BY DEF StartOf
<1> HIDE DEF start
<1>7. FirstOf(history, base, ids, start)
        = IF start = base.start THEN base
          ELSE [start |-> start, open |-> CloseAfter(AppliedBefore(start)),
                high |-> CloseAfter(AppliedBefore(start)),
                low |-> CloseAfter(AppliedBefore(start)),
                close |-> CloseAfter(AppliedBefore(start)), volume |-> 0]
  BY <1>4, <1>5 DEF FirstOf
<1>8. /\ AtStart(history, ids, start) = {i \in AppliedSince(start) : history[i].time = start}
      /\ PricesOf(history, Since(history, ids, start))
           = {history[i].price : i \in AppliedSince(start)}
  BY <1>3 DEF AtStart, PricesOf
<1>9. Closing(history, base, ids) = CloseAfter(Applied)
  BY <1>1, <1>5
<1>10. Reference = CandleAt(history, base, ids, start)
  <2> DEFINE time == IF Applied = {} THEN base.start ELSE history[Max(Applied)].time
             from == base.start + ((time - base.start) \div Interval) * Interval
  <2>1. Reference = ReferenceAt(from)
    BY Zenon DEF Reference, ReferenceAt
  <2>2. from = start
    <3>1. time = latest
      BY <1>2
    <3> HIDE DEF time
    <3> QED BY <1>6, <3>1
  <2> HIDE DEF from
  <2>3. ReferenceAt(start) = CandleAt(history, base, ids, start)
    BY <1>3, <1>7, <1>8, <1>9 DEF ReferenceAt, CandleAt
  <2> QED BY <2>1, <2>2, <2>3
<1> QED BY <1>10 DEF CandleOf, ids, start, latest

-----------------------------------------------------------------------------
(***************************************************************************)
(* The invariant behind the contents of the candle.                        *)
(***************************************************************************)
\* What the candle is made of: the trades that the first candle counted, then those
\* the websocket thread has handed over, in order.
CountInv ==
  candle # NoCandle =>
    /\ IsPriced(base)
    /\ Follows(history, base, counted, Position)
    /\ \A i \in 1 .. counted : history[i].time < base.start + Interval
    /\ lastTime = TimeOfLast(history, base, counted, Position)
    /\ candle = CandleOf(history, base, counted, Position)
    /\ candle.volume = Cardinality({i \in 1 .. Position : history[i].time >= candle.start})

LEMMA TradesAreOrdered ==
  ASSUME TradesInv
  PROVE  history \in Ordered
BY DEF TradesInv, Ordered

\* A step of the exchange, or a trade taken but not handed over yet.
LEMMA CountLeftAlone ==
  ASSUME TradesInv, TradesInv', CountInv, Position' = Position,
         candle' = candle \/ candle' = NoCandle,
         UNCHANGED <<base, counted, lastTime>>,
         Len(history) <= Len(history'),
         \A i \in 1 .. Len(history) : history'[i] = history[i]
  PROVE  CountInv'
<1> SUFFICES ASSUME candle' # NoCandle
             PROVE  CountInv'
  BY DEF CountInv
<1>1. candle' = candle /\ candle # NoCandle
  OBVIOUS
<1>2. /\ IsPriced(base)
      /\ Follows(history, base, counted, Position)
      /\ \A i \in 1 .. counted : history[i].time < base.start + Interval
      /\ lastTime = TimeOfLast(history, base, counted, Position)
      /\ candle = CandleOf(history, base, counted, Position)
      /\ candle.volume = Cardinality({i \in 1 .. Position : history[i].time >= candle.start})
  BY <1>1 DEF CountInv
<1>3. /\ counted \in Nat /\ Position \in counted .. Len(history)
      /\ Len(history) \in Nat /\ Len(history') \in Nat
  BY <1>2, TradesFacts DEF Follows, TradesInv
<1>4. \A i \in 1 .. Position : i \in 1 .. Len(history) /\ history'[i] = history[i]
  BY <1>3
<1>5. Follows(history', base, counted, Position)
  <2>1. history' \in Ordered
    BY DEF TradesInv, Ordered
  <2>2. Position \in counted .. Len(history')
    BY <1>3
  <2>3. ASSUME NEW i \in counted + 1 .. Position
        PROVE  base.start <= history'[i].time
    <3>1. i \in 1 .. Position
      BY <1>3
    <3> QED BY <1>2, <1>4, <3>1 DEF Follows
  <2> QED BY <1>2, <2>1, <2>2, <2>3 DEF Follows
<1>6. \A i \in counted + 1 .. Position : history'[i] = history[i]
  BY <1>3, <1>4
<1>7. /\ CandleOf(history', base, counted, Position) = CandleOf(history, base, counted, Position)
      /\ TimeOfLast(history', base, counted, Position)
           = TimeOfLast(history, base, counted, Position)
  BY <1>2, <1>5, <1>6, CandleOfSame
<1>8. {i \in 1 .. Position : history'[i].time >= candle.start}
        = {i \in 1 .. Position : history[i].time >= candle.start}
  BY <1>4
<1>9. \A i \in 1 .. counted : history'[i].time < base.start + Interval
  <2>1. \A i \in 1 .. counted : i \in 1 .. Position
    BY <1>3
  <2> QED BY <1>2, <1>4, <2>1
<1> QED BY <1>1, <1>2, <1>5, <1>7, <1>8, <1>9 DEF CountInv

\* The first candle has counted everything, and nothing is on its way.
LEMMA CountFromSeed ==
  ASSUME QuietInv, CountInv, AddSubscription
  PROVE  CountInv'
<1>1. /\ TradesInv /\ seed # NoCandle /\ seed = ExchangeCandle
      /\ inHand = 0 /\ delivered = Len(history)
      /\ UNCHANGED <<history, delivered, inHand>>
  BY DEF QuietInv, CandleInv, AddSubscription
<1>2. Position = Len(history) /\ Position' = Len(history) /\ history' = history
  BY <1>1 DEF Position
<1>3. CASE candle # NoCandle
  <2>1. UNCHANGED <<candle, lastTime, base, counted>>
    BY <1>3 DEF AddSubscription, oftVars
  <2> QED BY <1>1, <1>2, <2>1 DEF CountInv
<1>4. CASE candle = NoCandle
  <2>1. candle' = seed /\ base' = seed /\ lastTime' = seed.start /\ counted' = Len(history)
    BY <1>4 DEF AddSubscription
  <2> DEFINE n == Len(history)
  <2>2. /\ n \in Nat /\ history \in Ordered
        /\ IsPriced(seed) /\ seed.start \in Int
        /\ DOMAIN history = 1 .. n
        /\ seed.volume = Cardinality({i \in 1 .. n : history[i].time >= seed.start})
    <3>1. n \in Nat /\ DOMAIN history = 1 .. n
      BY <1>1, LenProperties DEF TradesInv
    <3> QED BY <1>1, <3>1, ExchangeCandleIsPriced, TradesAreOrdered DEF IsPriced, IsCandle
  <2>3. Follows(history, seed, n, n)
    BY <2>2 DEF Follows
  <2>4. CandleOf(history, seed, n, n) = seed /\ TimeOfLast(history, seed, n, n) = seed.start
    BY <2>2, CandleOfNone
  <2>5. \A i \in 1 .. n : history[i].time < seed.start + Interval
    <3>1. ASSUME NEW i \in 1 .. n PROVE history[i].time < seed.start + Interval
      <4>1. history # <<>> /\ n \in 1 .. n /\ i <= n
        BY <2>2
      <4>2. history[i].time <= history[n].time /\ history[i].time \in Nat /\ history[n].time \in Nat
        BY <1>1, <4>1, TradesFacts DEF TradesInv
      <4>3. history[n].time < seed.start + Interval
        BY <1>1, <4>1, ExchangeCandleFacts
      <4> QED BY <2>2, <4>2, <4>3, CandleAssumption
    <3> QED BY <3>1
  <2> HIDE DEF n
  <2>6. Position' = n /\ counted' = n
    BY <1>2, <2>1 DEF n
  <2> QED BY <1>2, <2>1, <2>2, <2>3, <2>4, <2>5, <2>6 DEF CountInv
<1> QED BY <1>3, <1>4

\* A trade is handed over.
LEMMA CountOneMore ==
  ASSUME QuietInv, CountInv, UpdateOhlcv
  PROVE  CountInv'
<1> DEFINE n == Position
           trade == history[inHand]
           added == AddTrade(candle, lastTime, trade)
           h == history
           b == base
           a == counted
<1>1. /\ TradesInv /\ CandleInv /\ candle # NoCandle /\ inHand # 0
      /\ IsCandle(candle) /\ candle.start <= TimeReached
      /\ UNCHANGED <<history, base, counted>>
      /\ candle' = added /\ lastTime' = LastTimeAfter(candle, lastTime, trade)
  BY DEF QuietInv, CandleInv, UpdateOhlcv
<1>2. /\ n \in Nat /\ n + 1 = inHand /\ Position' = n + 1 /\ n + 1 \in 1 .. Len(h)
      /\ Len(h) \in Nat /\ h \in Ordered
      /\ trade.time \in Nat /\ TimeReached <= trade.time /\ TimeReached \in Nat
  <2>1. inHand = delivered /\ delivered \in 1 .. Len(h) /\ Len(h) \in Nat
    BY <1>1, TradesFacts DEF TradesInv
  <2>2. n = delivered - 1 /\ Position' = delivered
    BY <1>1, <2>1 DEF Position, UpdateOhlcv
  <2>3. [Next]_vars
    BY DEF Next
  <2>4. TimeReached' = trade.time /\ TimeReached <= TimeReached' /\ TimeReached \in Nat
    BY <1>1, <2>3, TimeReachedStep
  <2>5. trade.time \in Nat
    BY <1>1, <2>1, TradesFacts
  <2> HIDE DEF n, trade
  <2> QED BY <1>1, <2>1, <2>2, <2>4, <2>5, TradesAreOrdered
<1>3. /\ IsPriced(b)
      /\ Follows(h, b, a, n)
      /\ \A i \in 1 .. a : h[i].time < b.start + Interval
      /\ lastTime = TimeOfLast(h, b, a, n)
      /\ candle = CandleOf(h, b, a, n)
      /\ candle.volume = Cardinality({i \in 1 .. n : h[i].time >= candle.start})
  BY <1>1 DEF CountInv
<1>4. /\ a \in Nat /\ a <= n /\ b.start \in Int /\ lastTime \in Int /\ b.start <= lastTime
      /\ \A i \in a + 1 .. n : h[i].time \in Nat /\ h[i].time <= lastTime
      /\ candle.start \in Int /\ candle.start = StartOf(b, lastTime)
      /\ b.start <= candle.start /\ candle.start <= lastTime /\ lastTime < candle.start + Interval
  <2>1. /\ a \in Nat /\ a <= n /\ b.start \in Int /\ lastTime \in Int /\ b.start <= lastTime
        /\ \A i \in a + 1 .. n : h[i].time \in Nat /\ h[i].time <= lastTime
    <3> HIDE DEF n
    <3>1. a \in Nat /\ a <= n
      BY <1>2, <1>3 DEF Follows
    <3> QED BY <1>3, <3>1, FollowsFacts
  <2>2. candle.start = StartOf(b, lastTime)
    BY <1>3 DEF CandleOf, CandleAt
  <2> HIDE DEF b
  <2> QED BY <2>1, <2>2, StartFacts
<1> HIDE DEF n, added, trade
<1>5. trade = h[n + 1]
  BY <1>2 DEF trade
<1>6. Follows(h, b, a, n + 1)
  <2>1. n + 1 \in a .. Len(h)
    BY <1>2, <1>4
  <2>2. ASSUME NEW i \in a + 1 .. n + 1
        PROVE  b.start <= h[i].time
    <3>1. CASE i \in a + 1 .. n
      BY <1>3, <3>1 DEF Follows
    <3>2. CASE i = n + 1
      BY <1>1, <1>2, <1>4, <1>5, <3>2
    <3> QED BY <1>2, <1>4, <3>1, <3>2
  <2> QED BY <1>2, <1>4, <2>1, <2>2 DEF Follows
<1>7. added = CandleOf(h, b, a, n + 1) /\ lastTime' = TimeOfLast(h, b, a, n + 1)
  BY <1>1, <1>3, <1>5, <1>6, CandleAppended DEF added
<1>8. \A i \in 1 .. n : h[i].time \in Nat /\ h[i].time < candle.start + Interval
  <2>1. ASSUME NEW i \in 1 .. n PROVE h[i].time \in Nat /\ h[i].time < candle.start + Interval
    <3>0. h[i].time \in Nat /\ Interval \in Nat
      BY <1>1, <1>2, TradesFacts, CandleAssumption
    <3>1. CASE i \in a + 1 .. n
      BY <1>4, <3>0, <3>1
    <3>2. CASE i \in 1 .. a
      BY <1>3, <1>4, <3>0, <3>2
    <3> QED BY <1>2, <1>4, <3>1, <3>2
  <2> QED BY <2>1
<1>9. added.volume = Cardinality({i \in 1 .. n + 1 : h[i].time >= added.start})
  <2> DEFINE now == Current(candle, trade.time)
             old == {i \in 1 .. n : h[i].time >= candle.start}
             new == {i \in 1 .. n + 1 : h[i].time >= added.start}
  <2>1. ~(trade.time < candle.start) /\ trade.time >= candle.start
    BY <1>1, <1>2, <1>4
  <2>2. added.volume = now.volume + 1
    <3>1. now = [start |-> now.start, open |-> now.open, high |-> now.high, low |-> now.low,
                 close |-> now.close, volume |-> now.volume]
      <4>1. IsCandle(now)
        BY <1>1, <1>2, <2>1, CurrentHoldsTime
      <4> HIDE DEF now
      <4> QED BY <4>1 DEF IsCandle, Fields
    <3> HIDE DEF now
    <3> DEFINE s == now.start
               o == now.open
               hi == now.high
               lo == now.low
               cl == now.close
               v == now.volume
    <3>2. Current(candle, trade.time)
            = [start |-> s, open |-> o, high |-> hi, low |-> lo, close |-> cl, volume |-> v]
      BY <3>1 DEF now
    <3> HIDE DEF s, o, hi, lo, cl, v
    <3>3. added.volume = v + 1
      BY <2>1, <3>2, AddTradeIs DEF added
    <3> QED BY <3>3 DEF v
  <2>3. added.start = now.start /\ now.start \in Int /\ now.start <= trade.time
    <3>1. trade \in Trade
      BY <1>1, <1>2, <1>5, TradesFacts
    <3>2. added.start = now.start
      BY <1>1, <2>1, <3>1, AddTradeStart DEF added
    <3>3. IsCandle(now) /\ now.start <= trade.time
      BY <1>1, <1>2, <2>1, CurrentHoldsTime
    <3> QED BY <3>2, <3>3 DEF IsCandle
  <2>4. IsFiniteSet(old) /\ n + 1 \notin old
    <3>1. IsFiniteSet(1 .. n)
      <4>1. 1 \in Int /\ n \in Int
        BY <1>2
      <4> QED BY <4>1, FS_Interval
    <3>2. old \in SUBSET (1 .. n)
      OBVIOUS
    <3>3. n + 1 \notin 1 .. n
      BY <1>2
    <3> HIDE DEF old
    <3> QED BY <3>1, <3>2, <3>3, FS_Subset
  <2>5. 1 .. n + 1 = (1 .. n) \cup {n + 1}
    BY <1>2
  <2>6. CASE trade.time >= candle.start + Interval
    <3>1. candle.start + Interval <= now.start /\ now.volume = 0
      <4>1. now = StartNewCandle(candle, trade.time)
        BY <2>6 DEF Current
      <4>2. /\ now.volume = 0
            /\ now.start
                 = candle.start + ((trade.time - candle.start) \div Interval) * Interval
        BY <4>1 DEF StartNewCandle
      <4> DEFINE start == candle.start
                 t == trade.time
      <4>3. start \in Int /\ t \in Int /\ t >= start + Interval
        BY <1>2, <1>4, <2>6
      <4> HIDE DEF start, t, now
      <4>4. start + Interval <= start + ((t - start) \div Interval) * Interval
        BY <4>3, NextStart
      <4> QED BY <4>2, <4>4 DEF start, t
    <3>2. new = {n + 1}
      <4>1. \A i \in 1 .. n : ~(h[i].time >= added.start)
        BY <1>4, <1>8, <2>3, <3>1, CandleAssumption
      <4> QED BY <1>5, <2>3, <2>5, <4>1
    <3>3. Cardinality(new) = 1
      <4> DEFINE none == {}
                 i == n + 1
      <4>1. IsFiniteSet(none) /\ Cardinality(none) = 0 /\ i \notin none /\ new = none \cup {i}
        BY <3>2, FS_EmptySet
      <4> HIDE DEF none, i, new
      <4> QED BY <4>1, FS_AddElement
    <3> QED BY <2>2, <3>1, <3>3
  <2>7. CASE ~(trade.time >= candle.start + Interval)
    <3>1. now = candle
      BY <2>7 DEF Current
    <3>2. new = old \cup {n + 1}
      BY <1>5, <2>3, <2>5, <3>1
    <3>3. Cardinality(old \cup {n + 1}) = Cardinality(old) + 1
      <4> HIDE DEF old
      <4> QED BY <2>4, FS_AddElement
    <3> HIDE DEF new, old
    <3> QED BY <1>3, <2>2, <3>1, <3>2, <3>3 DEF new, old
  <2> QED BY <2>6, <2>7
<1> QED BY <1>1, <1>2, <1>3, <1>6, <1>7, <1>9 DEF CountInv

LEMMA CountStep == QuietInv /\ QuietInv' /\ CountInv /\ [Next]_vars => CountInv'
<1> SUFFICES ASSUME QuietInv, QuietInv', CountInv, [Next]_vars PROVE CountInv'
  OBVIOUS
<1>1. TradesInv /\ TradesInv' /\ Len(history) \in Nat /\ delivered \in Nat
  BY TradesFacts DEF QuietInv
<1>2. ASSUME NEW trade \in Trade, ExchangeTrades(trade) PROVE CountInv'
  <2>1. /\ UNCHANGED <<delivered, inHand, candle, base, counted, lastTime>>
        /\ history' = Append(history, trade)
    BY <1>2 DEF ExchangeTrades, oftVars
  <2>2. Len(history) <= Len(history') /\ \A i \in 1 .. Len(history) : history'[i] = history[i]
    BY <1>1, <2>1, AppendProperties DEF TradesInv
  <2>3. Position' = Position
    BY <2>1 DEF Position
  <2> QED BY <1>1, <2>1, <2>2, <2>3, CountLeftAlone
<1>3. CASE TakeTrade
  <2>1. /\ UNCHANGED <<history, candle, base, counted, lastTime>>
        /\ inHand = 0 /\ inHand' = delivered + 1 /\ delivered' = delivered + 1
    BY <1>3 DEF TakeTrade, oftVars
  <2>2. Position' = Position
    BY <1>1, <2>1 DEF Position
  <2> QED BY <1>1, <2>1, <2>2, CountLeftAlone
<1>4. CASE AskForCandle \/ RemoveSubscription \/ UNCHANGED vars
  <2>1. /\ UNCHANGED <<history, base, counted, lastTime>> /\ Position' = Position
        /\ candle' = candle \/ candle' = NoCandle
    BY <1>4 DEF AskForCandle, RemoveSubscription, vars, oftVars, Position
  <2> QED BY <1>1, <2>1, CountLeftAlone
<1>5. CASE IgnoreTrade
  BY <1>5 DEF IgnoreTrade, oftVars, CountInv
<1>6. CASE AddSubscription
  BY <1>6, CountFromSeed
<1>7. CASE UpdateOhlcv
  BY <1>7, CountOneMore
<1> QED BY <1>2, <1>3, <1>4, <1>5, <1>6, <1>7 DEF Next

LEMMA CountAlways ==
  ASSUME Quiet
  PROVE  Spec => [](QuietInv /\ CountInv)
<1>1. Init => QuietInv /\ CountInv
  BY QuietInductive DEF Init, CountInv
<1>2. QuietInv /\ CountInv /\ [Next]_vars => QuietInv' /\ CountInv'
  BY QuietInductive, CountStep
<1> QED BY <1>1, <1>2, PTL DEF Spec

\* Trade by trade, with nothing remembered but the candle and the time of the last
\* trade, ohlcv_from_trades arrives at the candle that the list of its trades
\* defines, over any number of intervals (add_trade, start_new_candle).
THEOREM QuietCandlesAreThoseOfTheirTrades ==
  ASSUME Quiet
  PROVE  Spec => []CandleIsThatOfItsTrades
<1>1. QuietInv /\ CountInv => CandleIsThatOfItsTrades
  <2> SUFFICES ASSUME QuietInv, CountInv, candle # NoCandle PROVE candle = Reference
    BY DEF CandleIsThatOfItsTrades
  <2>1. /\ Follows(history, base, counted, Position)
        /\ candle = CandleOf(history, base, counted, Position)
    BY DEF CountInv
  <2>2. counted \in Nat /\ Position \in Nat /\ counted <= Position
    BY <2>1, FollowsFacts DEF Follows
  <2> QED BY <2>1, <2>2, ReferenceIs
<1> QED BY <1>1, CountAlways, PTL

\* No trade of the candle's interval is counted twice, by the exchange's answer and
\* again by add_trade, and none is lost between the two (add_subscription).
THEOREM QuietTradesCountOnce ==
  ASSUME Quiet
  PROVE  Spec => []EveryTradeCountsOnce
<1>1. QuietInv /\ CountInv => EveryTradeCountsOnce
  <2> SUFFICES ASSUME QuietInv, CountInv, candle # NoCandle,
                      Applied \cup 1 .. counted = 1 .. Len(history)
               PROVE  candle.volume = CountSince(candle.start)
    BY DEF EveryTradeCountsOnce
  <2>1. /\ Follows(history, base, counted, Position)
        /\ candle.volume = Cardinality({i \in 1 .. Position : history[i].time >= candle.start})
    BY DEF CountInv
  <2>2. /\ counted \in Nat /\ Position \in Nat
        /\ counted <= Position /\ Position <= Len(history)
        /\ Len(history) \in Nat /\ DOMAIN history = 1 .. Len(history)
    <3>1. history \in Seq(Trade)
      BY DEF QuietInv, TradesInv
    <3>2. Len(history) \in Nat /\ DOMAIN history = 1 .. Len(history)
      BY <3>1, LenProperties
    <3>3. counted \in Nat /\ Position \in counted .. Len(history)
      BY <2>1 DEF Follows
    <3> QED BY <3>2, <3>3
  <2>3. Applied = counted + 1 .. Position
    BY DEF Applied, Position
  <2>4. ASSUME Position < Len(history) PROVE FALSE
    <3> DEFINE n == Len(history)
               ids == counted + 1 .. Position
    <3>1. n \in 1 .. n /\ n \notin ids /\ n \notin 1 .. counted
      BY <2>2, <2>4
    <3>2. ids \cup 1 .. counted = 1 .. n
      BY <2>3
    <3> HIDE DEF n, ids
    <3> QED BY <3>1, <3>2
  <2>5. Position = Len(history)
    <3> DEFINE n == Len(history)
               m == Position
    <3>1. n \in Nat /\ m \in Nat /\ m <= n /\ ~(m < n)
      BY <2>2, <2>4
    <3> HIDE DEF n, m
    <3>2. m = n
      BY <3>1
    <3> QED BY <3>2 DEF n, m
  <2> QED BY <2>1, <2>2, <2>5 DEF CountSince
<1> QED BY <1>1, CountAlways, PTL
=============================================================================
