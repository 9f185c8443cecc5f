----------------------------- MODULE StreamLocks -----------------------------
(***************************************************************************)
(* The locks of a live test: the strategy thread and the websocket thread  *)
(* in paper_trade_api and exchange_websocket_stream.                       *)
(*                                                                         *)
(*  - add_order holds _tradingMutex and, for a pair without trade data,    *)
(*    calls subscribe, which takes _pairs exclusively;                     *)
(*  - update_trade evaluates                                               *)
(*      fire_trade_update(... _pairs.shared_lock()->at(pairName) ...),     *)
(*    whose temporary keeps _pairs locked (shared) until every handler has *)
(*    returned, and the handler of paper_trade_api takes _tradingMutex;    *)
(*  - the candle service of Coinbase and Digifinex is locked by either     *)
(*    thread while it asks the REST API and while update_ohlcv, in the     *)
(*    same way as update_trade, keeps _pairs locked and runs the handlers. *)
(*                                                                         *)
(* A lock held only while no other lock is asked for (_trades, and _pairs  *)
(* inside subscribe) is one step; the three that are held while another is *)
(* asked for are state.  What the threads do to the orders is PaperTrading.*)
(* A stream without the service behaves as one with no candle subscribed.  *)
(* Definitions marked `Fault' are what a plausible bug would make of the   *)
(* next definition; only the mutation checks use them.                     *)
(***************************************************************************)
EXTENDS FiniteSets

CONSTANTS
  Pairs,          \* tradable pairs
  HandlerOrders,  \* pairs ordered by the strategy's own trade and candle handlers
  Disciplined,    \* the strategy only orders pairs that have trade data
  NoPair, NoThread

ASSUME LocksAssumption == /\ HandlerOrders \subseteq Pairs
                          /\ Disciplined \in BOOLEAN
                          /\ NoPair \notin Pairs
                          /\ NoThread \notin {"strategy", "websocket"}

Threads == {"strategy", "websocket"}

VARIABLES
  pc,            \* where each thread is
  pair,          \* the pair each thread's call of add_order / subscribe is for
  purpose,       \* of the strategy's call on the stream: "trade", "candle" or "remove" a candle
  delivering,    \* the pair of the trade message being delivered
  tradingMutex,  \* the thread that owns _tradingMutex
  pairsReaders,  \* the threads that hold _pairs shared
  service,       \* the thread that owns _ohlcvSubscriptionService
  pairs,         \* keys of _pairs
  trades,        \* keys of _trades: SUBSCRIBED according to the stream
  candles,       \* pairs of the service's _subscriptions
  requested      \* pairs a subscribe message has been sent for

data == <<pairs, trades, candles, requested>>
vars == <<pc, pair, purpose, delivering, tradingMutex, pairsReaders, service, data>>

Init == /\ pc = [t \in Threads |-> "idle"]
        /\ pair = [t \in Threads |-> NoPair]
        /\ purpose = "trade"
        /\ delivering = NoPair
        /\ tradingMutex = NoThread
        /\ pairsReaders = {}
        /\ service = NoThread
        /\ pairs = {} /\ trades = {} /\ candles = {} /\ requested = {}

GoTo(t, place) == pc' = [pc EXCEPT ![t] = place]
Moves(t, from, to) == pc[t] = from /\ GoTo(t, to)

\* Where a thread goes on after a call of add_order or subscribe: in the strategy's
\* loop, or after the handler that made the call.
Resume(t) == IF service = t THEN "published"
             ELSE IF t = "strategy" THEN "idle" ELSE "returning"

-----------------------------------------------------------------------------
(***************************************************************************)
(* add_order, subscribe and unsubscribe.                                   *)
(***************************************************************************)
\* By the strategy's loop, or by one of its handlers, on the thread that runs it.
CallAddOrder(t, p) ==
  /\ \/ Moves(t, "idle", "lock") /\ t = "strategy"
     \/ Moves(t, "handlers", "lock") /\ p \in HandlerOrders
     \/ Moves(t, "candle handlers", "lock") /\ p \in HandlerOrders
  /\ Disciplined => p \in trades
  /\ pair' = [pair EXCEPT ![t] = p]
  /\ UNCHANGED <<purpose, delivering, tradingMutex, pairsReaders, service, data>>

CallSubscribe(p, channel) ==
  /\ Moves("strategy", "idle", "subscribe")
  /\ pair' = [pair EXCEPT !["strategy"] = p]
  /\ purpose' = channel
  /\ UNCHANGED <<delivering, tradingMutex, pairsReaders, service, data>>

\* unsubscribe of a candle; of a trade it only sends a message.
CallUnsubscribe(p) ==
  /\ Moves("strategy", "idle", "service")
  /\ pair' = [pair EXCEPT !["strategy"] = p]
  /\ purpose' = "remove"
  /\ UNCHANGED <<delivering, tradingMutex, pairsReaders, service, data>>

\* std::lock_guard lock{ _tradingMutex };
LockTrading(t) ==
  /\ Moves(t, "lock", "status")
  /\ tradingMutex = NoThread
  /\ tradingMutex' = t
  /\ UNCHANGED <<pair, purpose, delivering, pairsReaders, service, data>>

\* Fault: add_order subscribes in any case.
SubscribeAlways(t) ==
  /\ Moves(t, "status", "subscribe")
  /\ UNCHANGED <<pair, purpose, delivering, tradingMutex, pairsReaders, service, data>>

\* get_subscription_status: a pair is SUBSCRIBED once _trades holds it.
CheckStatus(t) ==
  /\ Moves(t, "status", IF pair[t] \in trades THEN "fill" ELSE "subscribe")
  /\ UNCHANGED <<pair, purpose, delivering, tradingMutex, pairsReaders, service, data>>

\* Fault: subscribe does not enter the pair.
RegisterNothing(t) ==
  /\ Moves(t, "subscribe", "send")
  /\ pairsReaders = {}
  /\ UNCHANGED <<pair, purpose, delivering, tradingMutex, pairsReaders, service, data>>

\* subscribe: _pairs is locked exclusively, extended and unlocked.
RegisterPair(t) ==
  /\ Moves(t, "subscribe", "send")
  /\ pairsReaders = {}
  /\ pairs' = pairs \cup {pair[t]}
  /\ UNCHANGED <<pair, purpose, delivering, tradingMutex, pairsReaders, service, trades, candles,
                 requested>>

\* For a candle, send_subscribe asks for the trades and goes on to the service.
SendSubscribe(t) ==
  /\ Moves(t, "send", IF tradingMutex = t THEN "fill"
                      ELSE IF purpose = "candle" THEN "service" ELSE Resume(t))
  /\ requested' = requested \cup {pair[t]}
  /\ UNCHANGED <<pair, purpose, delivering, tradingMutex, pairsReaders, service, pairs, trades, candles>>

\* Fault: a path out of add_order that leaves the mutex locked.
FillAndStayLocked(t) ==
  /\ Moves(t, "fill", Resume(t))
  /\ UNCHANGED <<pair, purpose, delivering, tradingMutex, pairsReaders, service, data>>

\* try_fill_order, and the end of add_order's scope.
FillAndUnlock(t) ==
  /\ Moves(t, "fill", Resume(t))
  /\ tradingMutex' = NoThread
  /\ UNCHANGED <<pair, purpose, delivering, pairsReaders, service, data>>

-----------------------------------------------------------------------------
(***************************************************************************)
(* The candle service, on either thread.                                   *)
(***************************************************************************)
LockService(t) ==
  /\ Moves(t, "service", "in service")
  /\ service = NoThread
  /\ service' = t
  /\ UNCHANGED <<pair, purpose, delivering, tradingMutex, pairsReaders, data>>

\* The REST API answers add_subscription, and the first candle is published ...
AddSubscription ==
  /\ purpose = "candle"
  /\ Moves("strategy", "in service", "publish")
  /\ candles' = candles \cup {pair["strategy"]}
  /\ UNCHANGED <<pair, purpose, delivering, tradingMutex, pairsReaders, service, pairs, trades, requested>>

\* ... or it throws, which unlocks the service.
AddSubscriptionThrows ==
  /\ purpose = "candle"
  /\ Moves("strategy", "in service", "idle")
  /\ service' = NoThread
  /\ UNCHANGED <<pair, purpose, delivering, tradingMutex, pairsReaders, data>>

RemoveSubscription ==
  /\ purpose = "remove"
  /\ Moves("strategy", "in service", "idle")
  /\ service' = NoThread
  /\ candles' = candles \ {pair["strategy"]}
  /\ UNCHANGED <<pair, purpose, delivering, tradingMutex, pairsReaders, pairs, trades, requested>>

\* The end of process_trade_message: the trade makes a candle of its pair.
UpdateCandle ==
  /\ delivering \in candles
  /\ Moves("websocket", "in service", "publish")
  /\ UNCHANGED <<pair, purpose, delivering, tradingMutex, pairsReaders, service, data>>

NoCandle ==
  /\ delivering \notin candles
  /\ Moves("websocket", "in service", "idle")
  /\ service' = NoThread /\ delivering' = NoPair
  /\ UNCHANGED <<pair, purpose, tradingMutex, pairsReaders, data>>

\* update_ohlcv: _pairs.shared_lock()->at(pairName).
PublishCandle(t) ==
  /\ Moves(t, "publish",
           IF (IF t = "strategy" THEN pair[t] ELSE delivering) \in pairs THEN "candle handlers" ELSE "dead")
  /\ pairsReaders' = pairsReaders \cup {t}
  /\ UNCHANGED <<pair, purpose, delivering, tradingMutex, service, data>>

\* The strategy's handlers have nothing (more) to order.
CandleHandlersReturn(t) ==
  /\ Moves(t, "candle handlers", "published")
  /\ UNCHANGED <<pair, purpose, delivering, tradingMutex, pairsReaders, service, data>>

LeaveService(t) ==
  /\ Moves(t, "published", "idle")
  /\ pairsReaders' = pairsReaders \ {t}
  /\ service' = NoThread
  /\ delivering' = IF t = "websocket" THEN NoPair ELSE delivering
  /\ UNCHANGED <<pair, purpose, tradingMutex, data>>

-----------------------------------------------------------------------------
(***************************************************************************)
(* The websocket thread delivers a trade.                                  *)
(***************************************************************************)
\* update_trade stores the trade in _trades.
StoreTrade(p) ==
  /\ Moves("websocket", "idle", "lookup")
  /\ p \in requested
  /\ delivering' = p
  /\ trades' = trades \cup {p}
  /\ UNCHANGED <<pair, purpose, tradingMutex, pairsReaders, service, pairs, candles, requested>>

\* _pairs.shared_lock()->at(pairName); at throws for an unknown pair, which
\* ends the program.
LookUpPair ==
  /\ Moves("websocket", "lookup", IF delivering \in pairs THEN "handle" ELSE "dead")
  /\ pairsReaders' = pairsReaders \cup {"websocket"}
  /\ UNCHANGED <<pair, purpose, delivering, tradingMutex, service, data>>

\* trade_update_handler of paper_trade_api, registered first.
LockHandler ==
  /\ Moves("websocket", "handle", "scan")
  /\ tradingMutex = NoThread
  /\ tradingMutex' = "websocket"
  /\ UNCHANGED <<pair, purpose, delivering, pairsReaders, service, data>>

\* Fault: the handler leaves the mutex locked.
HandlerStaysLocked ==
  /\ Moves("websocket", "scan", "handlers")
  /\ UNCHANGED <<pair, purpose, delivering, tradingMutex, pairsReaders, service, data>>

HandlerReturns ==
  /\ Moves("websocket", "scan", "handlers")
  /\ tradingMutex' = NoThread
  /\ UNCHANGED <<pair, purpose, delivering, pairsReaders, service, data>>

\* The strategy's handlers have nothing (more) to order.
HandlersReturn ==
  /\ Moves("websocket", "handlers", "returning")
  /\ UNCHANGED <<pair, purpose, delivering, tradingMutex, pairsReaders, service, data>>

\* The end of the full expression destroys the lock on _pairs.
UpdateReturns ==
  /\ Moves("websocket", "returning", "service")
  /\ pairsReaders' = pairsReaders \ {"websocket"}
  /\ UNCHANGED <<pair, purpose, delivering, tradingMutex, service, data>>

-----------------------------------------------------------------------------
Acquire(t) == LockTrading(t) \/ RegisterPair(t) \/ LockService(t)
Run(t) == \/ CheckStatus(t) \/ SendSubscribe(t) \/ FillAndUnlock(t)
          \/ PublishCandle(t) \/ CandleHandlersReturn(t) \/ LeaveService(t)
Answer == AddSubscription \/ AddSubscriptionThrows \/ RemoveSubscription
Deliver == LookUpPair \/ HandlerReturns \/ HandlersReturn \/ UpdateReturns \/ UpdateCandle \/ NoCandle

Next == \/ \E t \in Threads, p \in Pairs : CallAddOrder(t, p)
        \/ \E p \in Pairs, channel \in {"trade", "candle"} : CallSubscribe(p, channel)
        \/ \E p \in Pairs : CallUnsubscribe(p) \/ StoreTrade(p)
        \/ \E t \in Threads : Acquire(t) \/ Run(t)
        \/ Answer
        \/ Deliver
        \/ LockHandler

Spec == Init /\ [][Next]_vars

(***************************************************************************)
(* A thread inside a call or a delivery goes on.  Locks are granted under  *)
(* strong fairness: a thread that keeps finding a lock free at times gets  *)
(* it, because messages come at intervals and the strategy sleeps between  *)
(* iterations.  The REST API answers or its timeout ends the request.  No  *)
(* call and no message has to come.                                        *)
(***************************************************************************)
FairSpec == /\ Spec
            /\ \A t \in Threads : WF_vars(Run(t)) /\ SF_vars(Acquire(t))
            /\ WF_vars(Answer)
            /\ WF_vars(Deliver)
            /\ SF_vars(LockHandler)

-----------------------------------------------------------------------------
Places == {"idle", "lock", "status", "subscribe", "send", "fill", "lookup", "handle",
           "scan", "handlers", "returning", "service", "in service", "publish", "candle handlers",
           "published", "dead"}

TypeOK == /\ pc \in [Threads -> Places]
          /\ pair \in [Threads -> Pairs \cup {NoPair}]
          /\ purpose \in {"trade", "candle", "remove"}
          /\ delivering \in Pairs \cup {NoPair}
          /\ tradingMutex \in Threads \cup {NoThread}
          /\ pairsReaders \in SUBSET Threads
          /\ service \in Threads \cup {NoThread}
          /\ pairs \in SUBSET Pairs
          /\ trades \in SUBSET Pairs
          /\ candles \in SUBSET Pairs
          /\ requested \in SUBSET Pairs

\* The threads that must release a lock before t can go on.
WaitsFor(t) == CASE pc[t] \in {"lock", "handle"} -> {tradingMutex} \ {NoThread}
                 [] pc[t] = "subscribe" -> pairsReaders
                 [] pc[t] = "service" -> {service} \ {NoThread}
                 [] OTHER -> {}

\* No deadlock between _tradingMutex, _pairs and the candle service: no thread waits
\* for itself or for a thread that waits for it (paper_trade_api::add_order against
\* exchange_websocket_stream::update_trade and update_ohlcv).
NoWaitCycle ==
  \A t \in Threads :
    /\ t \notin WaitsFor(t)
    /\ \A u \in WaitsFor(t) : t \notin WaitsFor(u)

\* No trade or candle is published for a pair _pairs does not know: at() throws on
\* neither thread.
DeliveredPairIsKnown == \A t \in Threads : pc[t] # "dead"

\* Every call of add_order, subscribe and unsubscribe on the strategy thread returns.
StrategyCallsReturn ==
  pc["strategy"] \in {"lock", "subscribe", "service"} ~> pc["strategy"] = "idle"

\* Every trade message is delivered to the end, its candle included.
DeliveriesComplete == pc["websocket"] = "lookup" ~> pc["websocket"] = "idle"
=============================================================================
