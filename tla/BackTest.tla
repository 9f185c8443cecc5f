------------------------------ MODULE BackTest ------------------------------
(***************************************************************************)
(* A back test: back_test_runner with the data (BackTestData), the stream  *)
(* (backtest_websocket_stream), the account (PaperTrading) and the file of *)
(* trades (test_logger).  There is one thread.  Each step of time first    *)
(* notifies the handlers of every subscription, then runs an iteration of  *)
(* the strategy, writes the new trades to the file and advances the time.  *)
(*                                                                         *)
(* Account and strategy act as in PaperTrading; what differs is that all   *)
(* prices change at once, when time advances, and that subscribing cannot  *)
(* fail.  The strategy may order, cancel and query in its iteration and,   *)
(* for a pair it has subscribed, in its own handlers.                      *)
(* Definitions marked `Fault' are what a plausible bug would make of the   *)
(* next definition; only the mutation checks use them.                     *)
(***************************************************************************)
EXTENDS PaperTrading

CONSTANTS Files, StepSize, ConfigStart, ConfigEnd, Intervals, MaxCount,
          Subscribable  \* subscriptions the strategy may make, <<channel, pair>>

Channels == {"TRADE", "OHLCV", "ORDER_BOOK"}

VARIABLES data, dataTime, iteratorCache,  \* BackTestData
          phase,          \* where run is
          steps,          \* iterations of its loop that are over
          subscriptions,  \* _subscriptions
          notified,       \* those notify has come to in this step
          flushed,        \* closed_order_index of the test_logger
          thrown          \* the last iteration of the strategy threw an mb_exception

INSTANCE BackTestData

ASSUME BackTestAssumption ==
  /\ DataAssumption
  /\ Subscribable \subseteq Channels \X Pairs
  /\ \A f \in Files : \A p \in Pairs : \A i \in DOMAIN f[p] :
       {f[p][i].open, f[p][i].close} \subseteq Prices

clockVars == <<data, dataTime, iteratorCache>>
runVars == <<phase, steps, subscriptions, notified, flushed, thrown>>
orderVars == <<scan, balances, openOrders, openOrdersByPair, closedOrders,
               trailingOrderLimits, nextOrderNumber, told>>
allVars == <<vars, clockVars, runVars>>

BackTestInit ==
  /\ DataInit
  /\ lastPrice = [p \in Pairs |-> TradePrice(p)]
  /\ AccountInit
  /\ phase = IF TimeSteps > 0 THEN "notify" ELSE "done"
  /\ steps = 0
  /\ subscriptions = {} /\ notified = {}
  /\ flushed = 0
  /\ thrown = FALSE

\* A query of a pair moves its cached iterator.
Queried(p) == iteratorCache' = CacheAfter(p) /\ UNCHANGED <<data, dataTime>>

-----------------------------------------------------------------------------
(***************************************************************************)
(* notify.                                                                 *)
(***************************************************************************)
Notifying == phase = "notify" /\ updating = NoPair /\ ~aborted

\* Fault: the pair is notified without its handlers.
NotifyNobody(p) ==
  /\ Notifying
  /\ <<"TRADE", p>> \in subscriptions \ notified
  /\ notified' = notified \cup {<<"TRADE", p>>}
  /\ Queried(p)
  /\ UNCHANGED <<lastPrice, updating, orderVars, aborted, phase, steps, subscriptions,
                 flushed, thrown>>

\* A trade subscription: the account's handler is first (always registered).
NotifyTrade(p) ==
  /\ Notifying
  /\ <<"TRADE", p>> \in subscriptions \ notified
  /\ notified' = notified \cup {<<"TRADE", p>>}
  /\ updating' = p
  /\ Queried(p)
  /\ UNCHANGED <<lastPrice, orderVars, aborted, phase, steps, subscriptions, flushed, thrown>>

\* The other channels.  front() of the asks of an empty book is undefined: the
\* program ends or goes on.
NotifyOther(channel, p) ==
  /\ Notifying
  /\ channel # "TRADE" /\ <<channel, p>> \in subscriptions \ notified
  /\ notified' = notified \cup {<<channel, p>>}
  /\ IF channel = "ORDER_BOOK" /\ Asks(p) = <<>> THEN aborted' \in BOOLEAN
                                                 ELSE UNCHANGED aborted
  /\ Queried(p)
  /\ UNCHANGED <<lastPrice, updating, orderVars, phase, steps, subscriptions, flushed, thrown>>

\* trade_update_handler of the account.  What it throws leaves notify and run.
AccountHandler == Handler /\ UNCHANGED <<clockVars, runVars>>

\* notify returns; run_iteration is called.
RunIteration ==
  /\ Notifying
  /\ notified = subscriptions
  /\ phase' = "strategy"
  /\ UNCHANGED <<vars, clockVars, steps, subscriptions, notified, flushed, thrown>>

-----------------------------------------------------------------------------
(***************************************************************************)
(* The strategy.                                                           *)
(***************************************************************************)
InStrategy == phase = "strategy" /\ ~aborted

\* In a handler of its own, of a subscription notify has come to.
InHandler == Notifying /\ notified # {}

\* Fault: add_order does not subscribe the pair.
OrderUnsubscribed(request) ==
  /\ InStrategy \/ (InHandler /\ <<"TRADE", request.pair>> \in subscriptions)
  /\ AddOrder(request)
  /\ told'[nextOrderNumber] # "WEBSOCKET_ERROR"
  /\ Queried(request.pair)
  /\ UNCHANGED runVars

\* add_order, which asks the stream for the status of the pair, subscribes it
\* and reads its price.
Order(request) ==
  /\ InStrategy \/ (InHandler /\ <<"TRADE", request.pair>> \in subscriptions)
  /\ AddOrder(request)
  /\ told'[nextOrderNumber] # "WEBSOCKET_ERROR"
  /\ subscriptions' = subscriptions \cup {<<"TRADE", request.pair>>}
  /\ Queried(request.pair)
  /\ UNCHANGED <<phase, steps, notified, flushed, thrown>>

Cancel(id) == /\ InStrategy \/ InHandler
              /\ CancelOrder(id)
              /\ UNCHANGED <<clockVars, runVars>>

\* get_price, get_ohlcv, get_order_book, get_last_trade, get_last_candle.
Ask(p) == /\ InStrategy \/ InHandler
          /\ Query(p)
          /\ UNCHANGED <<vars, runVars>>

Subscribe(channel, p) ==
  /\ InStrategy
  /\ subscriptions' = subscriptions \cup {<<channel, p>>}
  /\ UNCHANGED <<vars, clockVars, phase, steps, notified, flushed, thrown>>

Unsubscribe(channel, p) ==
  /\ InStrategy
  /\ <<channel, p>> \in subscriptions
  /\ subscriptions' = subscriptions \ {<<channel, p>>}
  /\ UNCHANGED <<vars, clockVars, phase, steps, notified, flushed, thrown>>

\* The end of an iteration of the loop: increment.
NextStep ==
  /\ steps' = steps + 1
  /\ phase' = IF steps' < TimeSteps THEN "notify" ELSE "done"
  /\ notified' = {}
  /\ Increment
  /\ lastPrice' = [p \in Pairs |-> TradePrice(p)']
  /\ UNCHANGED <<updating, orderVars, aborted, subscriptions>>

\* Fault: an order is flushed late.
FlushAllButLast ==
  /\ InStrategy
  /\ thrown' = FALSE
  /\ flushed' = Larger(flushed, Len(closedOrders) - 1)
  /\ NextStep

\* run_iteration returns; flush_trades writes the trades that are new.
IterationReturns ==
  /\ InStrategy
  /\ thrown' = FALSE
  /\ flushed' = Len(closedOrders)
  /\ NextStep

\* run_iteration throws an mb_exception, for example that of add_order: it is
\* logged, nothing is flushed.
IterationThrows ==
  /\ InStrategy
  /\ thrown' = TRUE
  /\ UNCHANGED flushed
  /\ NextStep

BackTestNext ==
  \/ \E p \in Pairs : NotifyTrade(p) \/ Ask(p)
  \/ \E s \in Subscribable : \/ NotifyOther(s[1], s[2])
                             \/ Subscribe(s[1], s[2])
                             \/ Unsubscribe(s[1], s[2])
  \/ AccountHandler
  \/ RunIteration
  \/ \E request \in Requests : Order(request)
  \/ \E id \in Ids : Cancel(id)
  \/ IterationReturns
  \/ IterationThrows

BackTestSpec == BackTestInit /\ [][BackTestNext]_allVars

-----------------------------------------------------------------------------
\* When the strategy runs, the account is up to date with the prices it sees: it
\* trades at the price get_price answers, whatever has been asked before, and no
\* order that price triggers is left open, unless it was refused for lack of
\* funds or its pair was not subscribed when the time advanced (notify before
\* run_iteration).
AccountIsUpToDate ==
  InStrategy =>
    /\ \A p \in Pairs : lastPrice[p] = TradePrice(p)
    /\ \A id \in DOMAIN openOrders :
         Triggered(id, openOrders[id]) =>
           \/ told[id] = "INSUFFICIENT_FUNDS"
           \/ <<"TRADE", openOrders[id].pair>> \notin notified

\* An order is served from the next step on: the pair of every open order is
\* subscribed, unless the strategy may unsubscribe it.
OpenOrdersAreSubscribed ==
  \A id \in DOMAIN openOrders :
    LET s == <<"TRADE", openOrders[id].pair>>
    IN  s \notin Subscribable => s \in subscriptions

\* The trades in the file are those of the report (which counts _closedOrders),
\* unless the last iteration threw: then its trades, and those of the notify
\* before it, are in the report only.
ReportedTradesAreInFile ==
  phase = "done" => flushed = Len(closedOrders) \/ thrown
=============================================================================
