-------------------------- MODULE StreamLocksProofs --------------------------
(***************************************************************************)
(* Proofs about StreamLocks, for every set of pairs.                       *)
(***************************************************************************)
EXTENDS StreamLocks, TLAPS

-----------------------------------------------------------------------------
(***************************************************************************)
(* A trade or a candle is only published for a pair that is in _pairs:     *)
(* subscribe enters the pair before it asks the exchange for its messages  *)
(* or the service for its candles, and nothing leaves _pairs.              *)
(***************************************************************************)
KnownInv ==
  /\ TypeOK
  /\ requested \subseteq pairs
  /\ \A t \in Threads : pc[t] \in {"lock", "status", "subscribe"} => pair[t] \in Pairs
  /\ \A t \in Threads : pc[t] = "send" => pair[t] \in pairs
  /\ purpose = "candle" /\ pc["strategy"] \in {"service", "in service"} => pair["strategy"] \in pairs
  /\ pc["strategy"] = "publish" => pair["strategy"] \in pairs
  /\ pc["websocket"] # "idle" => delivering \in pairs
  /\ pc["strategy"] \notin {"lookup", "handle", "scan", "handlers", "returning"}
  /\ \A t \in Threads : pc[t] # "dead"

LEMMA KnownInductive ==
  /\ Init => KnownInv
  /\ KnownInv /\ [Next]_vars => KnownInv'
<1> USE LocksAssumption
<1>1. Init => KnownInv
  BY DEF Init, KnownInv, TypeOK, Threads, Places
<1>2. ASSUME KnownInv, [Next]_vars PROVE KnownInv'
  <2> USE <1>2 DEF KnownInv, TypeOK, Moves, GoTo, data
  <2>1. ASSUME NEW t \in Threads, NEW p \in Pairs, CallAddOrder(t, p) PROVE KnownInv'
    <3>1. /\ pc' = [pc EXCEPT ![t] = "lock"]
          /\ \/ t = "strategy" /\ pc[t] \in {"idle", "candle handlers"}
             \/ t = "websocket" /\ pc[t] \in {"handlers", "candle handlers"}
          /\ pair' = [pair EXCEPT ![t] = p]
          /\ UNCHANGED <<purpose, delivering, tradingMutex, pairsReaders, service, pairs, trades,
                         candles, requested>>
      BY <2>1 DEF CallAddOrder, Threads
    <3>2. TypeOK'
      BY <3>1 DEF Threads, Places
    <3> QED BY <3>1, <3>2 DEF Threads
  <2>2. ASSUME NEW p \in Pairs, NEW channel \in {"trade", "candle"}, CallSubscribe(p, channel)
       PROVE  KnownInv'
    BY <2>2 DEF CallSubscribe, Threads, Places
  <2>3. ASSUME NEW p \in Pairs, CallUnsubscribe(p) PROVE KnownInv'
    BY <2>3 DEF CallUnsubscribe, Threads, Places
  <2>4. ASSUME NEW p \in Pairs, StoreTrade(p) PROVE KnownInv'
    BY <2>4 DEF StoreTrade, Threads, Places
  <2>5. ASSUME NEW t \in Threads, LockTrading(t) PROVE KnownInv'
    BY <2>5 DEF LockTrading, Threads, Places
  <2>6. ASSUME NEW t \in Threads, RegisterPair(t) PROVE KnownInv'
    BY <2>6 DEF RegisterPair, Threads, Places
  <2>7. ASSUME NEW t \in Threads, LockService(t) PROVE KnownInv'
    BY <2>7 DEF LockService, Threads, Places
  <2>8. ASSUME NEW t \in Threads, CheckStatus(t) PROVE KnownInv'
    BY <2>8 DEF CheckStatus, Threads, Places
  <2>9. ASSUME NEW t \in Threads, SendSubscribe(t) PROVE KnownInv'
    BY <2>9 DEF SendSubscribe, Resume, Threads, Places
  <2>10. ASSUME NEW t \in Threads, FillAndUnlock(t) PROVE KnownInv'
    BY <2>10 DEF FillAndUnlock, Resume, Threads, Places
  <2>11. ASSUME NEW t \in Threads, PublishCandle(t) PROVE KnownInv'
    BY <2>11 DEF PublishCandle, Threads, Places
  <2>12. ASSUME NEW t \in Threads, CandleHandlersReturn(t) PROVE KnownInv'
    BY <2>12 DEF CandleHandlersReturn, Threads, Places
  <2>13. ASSUME NEW t \in Threads, LeaveService(t) PROVE KnownInv'
    BY <2>13 DEF LeaveService, Threads, Places
  <2>14. CASE AddSubscription
    BY <2>14 DEF AddSubscription, Threads, Places
  <2>15. CASE AddSubscriptionThrows
    BY <2>15 DEF AddSubscriptionThrows, Threads, Places
  <2>16. CASE RemoveSubscription
    BY <2>16 DEF RemoveSubscription, Threads, Places
  <2>17. CASE LookUpPair
    BY <2>17 DEF LookUpPair, Threads, Places
  <2>18. CASE HandlerReturns
    BY <2>18 DEF HandlerReturns, Threads, Places
  <2>19. CASE HandlersReturn
    BY <2>19 DEF HandlersReturn, Threads, Places
  <2>20. CASE UpdateReturns
    BY <2>20 DEF UpdateReturns, Threads, Places
  <2>21. CASE UpdateCandle
    BY <2>21 DEF UpdateCandle, Threads, Places
  <2>22. CASE NoCandle
    BY <2>22 DEF NoCandle, Threads, Places
  <2>23. CASE LockHandler
    BY <2>23 DEF LockHandler, Threads, Places
  <2>24. CASE UNCHANGED vars
    BY <2>24 DEF vars
  <2> HIDE DEF KnownInv, TypeOK, Moves, GoTo, data
  <2> QED BY <2>1, <2>2, <2>3, <2>4, <2>5, <2>6, <2>7, <2>8, <2>9, <2>10, <2>11,
             <2>12, <2>13, <2>14, <2>15, <2>16, <2>17, <2>18, <2>19, <2>20, <2>21, <2>22,
             <2>23, <2>24 DEF Next, Acquire, Run, Answer, Deliver
<1> QED BY <1>1, <1>2

\* The at() of update_trade and update_ohlcv on _pairs throws on neither thread,
\* whatever the strategy orders and subscribes to.
THEOREM DeliveriesFindTheirPair == Spec => []DeliveredPairIsKnown
<1>1. KnownInv => DeliveredPairIsKnown
  BY DEF KnownInv, DeliveredPairIsKnown
<1> QED BY <1>1, KnownInductive, PTL DEF Spec

-----------------------------------------------------------------------------
(***************************************************************************)
(* A strategy that only orders pairs with trade data: add_order finds the  *)
(* pair SUBSCRIBED, so _pairs is never asked for by the owner of           *)
(* _tradingMutex or from a handler.  A wait for the mutex ends with a      *)
(* thread that runs, and the service and _pairs are asked for by a thread  *)
(* that holds nothing.                                                     *)
(***************************************************************************)
InService == {"in service", "publish", "candle handlers", "published"}
InAddOrder == {"lock", "status", "fill"}

LockInv ==
  /\ \A t \in Threads : pc[t] \in {"status", "fill"} => tradingMutex = t
  /\ \A t \in Threads : tradingMutex = t => pc[t] \in {"status", "fill", "scan"}
  /\ pc["websocket"] = "scan" => tradingMutex = "websocket"
  /\ \A t \in Threads : pc[t] \in {"lock", "status"} => pair[t] \in trades
  /\ pc["websocket"] \notin {"subscribe", "send"}
  /\ \A t \in Threads : pc[t] \in InService => service = t
  /\ \A t \in Threads : service = t => pc[t] \in InService \cup InAddOrder
  /\ \A t \in Threads :
       t \in pairsReaders => pc[t] \in InAddOrder \cup {"handle", "scan", "handlers", "returning",
                                                        "candle handlers", "published"}
  /\ "strategy" \in pairsReaders => service = "strategy"

LEMMA LockInductive ==
  ASSUME Disciplined
  PROVE  /\ Init => LockInv
         /\ KnownInv /\ KnownInv' /\ LockInv /\ [Next]_vars => LockInv'
<1> USE LocksAssumption
<1>1. Init => LockInv
  BY DEF Init, LockInv, Threads, InService
<1>2. ASSUME KnownInv, KnownInv', LockInv, [Next]_vars PROVE LockInv'
  <2>0. /\ pc \in [Threads -> Places]
        /\ pair \in [Threads -> Pairs \cup {NoPair}]
        /\ tradingMutex \in Threads \cup {NoThread}
        /\ pairsReaders \subseteq Threads
        /\ service \in Threads \cup {NoThread}
        /\ pc["strategy"] \notin {"lookup", "handle", "scan", "handlers", "returning"}
        /\ \A t \in Threads : pc[t] # "dead" /\ pc'[t] # "dead"
    BY <1>2 DEF KnownInv, TypeOK
  <2> USE <1>2, <2>0 DEF LockInv, Moves, GoTo, data, InService, InAddOrder
  <2>1. ASSUME NEW t \in Threads, NEW p \in Pairs, CallAddOrder(t, p) PROVE LockInv'
    <3>1. /\ pc' = [pc EXCEPT ![t] = "lock"]
          /\ \/ t = "strategy" /\ pc[t] \in {"idle", "candle handlers"}
             \/ t = "websocket" /\ pc[t] \in {"handlers", "candle handlers"}
          /\ pair' = [pair EXCEPT ![t] = p]
          /\ UNCHANGED <<purpose, delivering, tradingMutex, pairsReaders, service, pairs, trades,
                         candles, requested>>
      BY <2>1 DEF CallAddOrder, Threads
    <3>2. p \in trades
      BY <2>1 DEF CallAddOrder
    <3> QED BY <3>1, <3>2 DEF Threads
  <2>2. ASSUME NEW p \in Pairs, NEW channel \in {"trade", "candle"}, CallSubscribe(p, channel)
       PROVE  LockInv'
    BY <2>2 DEF CallSubscribe, Threads, Places
  <2>3. ASSUME NEW p \in Pairs, CallUnsubscribe(p) PROVE LockInv'
    BY <2>3 DEF CallUnsubscribe, Threads, Places
  <2>4. ASSUME NEW p \in Pairs, StoreTrade(p) PROVE LockInv'
    BY <2>4 DEF StoreTrade, Threads, Places
  <2>5. ASSUME NEW t \in Threads, LockTrading(t) PROVE LockInv'
    BY <2>5 DEF LockTrading, Threads, Places
  <2>6. ASSUME NEW t \in Threads, RegisterPair(t) PROVE LockInv'
    BY <2>6 DEF RegisterPair, Threads, Places
  <2>7. ASSUME NEW t \in Threads, LockService(t) PROVE LockInv'
    BY <2>7 DEF LockService, Threads, Places
  <2>8. ASSUME NEW t \in Threads, CheckStatus(t) PROVE LockInv'
    BY <2>8 DEF CheckStatus, Threads, Places
  <2>9. ASSUME NEW t \in Threads, SendSubscribe(t) PROVE LockInv'
    <3>1. /\ t = "strategy" /\ pc[t] = "send"
          /\ \E place \in {"service", "idle"} : pc' = [pc EXCEPT ![t] = place]
      BY <2>9 DEF SendSubscribe, Resume, Threads
    <3>2. UNCHANGED <<pair, tradingMutex, pairsReaders, service, trades>>
      BY <2>9 DEF SendSubscribe
    <3> QED BY <3>1, <3>2 DEF Threads
  <2>10. ASSUME NEW t \in Threads, FillAndUnlock(t) PROVE LockInv'
    <3>1. /\ pc[t] = "fill" /\ tradingMutex' = NoThread
          /\ \/ service = t /\ pc' = [pc EXCEPT ![t] = "published"]
             \/ service # t /\ t = "strategy" /\ pc' = [pc EXCEPT ![t] = "idle"]
             \/ service # t /\ t = "websocket" /\ pc' = [pc EXCEPT ![t] = "returning"]
      BY <2>10 DEF FillAndUnlock, Resume, Threads
    <3>2. UNCHANGED <<pair, pairsReaders, service, trades>>
      BY <2>10 DEF FillAndUnlock
    <3>3. /\ \A u \in Threads \ {t} : pc'[u] = pc[u] /\ pc[u] \notin {"status", "fill", "scan"}
          /\ service = t <=> pc'[t] = "published"
          /\ pc'[t] \in {"published", "idle", "returning"}
          /\ pc'[t] = "idle" => t = "strategy" /\ t \notin pairsReaders
      BY <3>1 DEF Threads
    <3> HIDE DEF Moves, GoTo, data
    <3>4. pc[t] = "fill" /\ tradingMutex' = NoThread
      BY <3>1
    <3>5. CASE t = "strategy"
      BY <3>2, <3>3, <3>4, <3>5 DEF Threads
    <3>6. CASE t = "websocket"
      BY <3>2, <3>3, <3>4, <3>6 DEF Threads
    <3> QED BY <3>5, <3>6 DEF Threads
  <2>11. ASSUME NEW t \in Threads, PublishCandle(t) PROVE LockInv'
    <3>1. pc[t] = "publish" /\ pc' = [pc EXCEPT ![t] = "candle handlers"]
      BY <2>11 DEF PublishCandle, Threads
    <3>2. /\ pairsReaders' = pairsReaders \cup {t}
          /\ UNCHANGED <<pair, tradingMutex, service, trades>>
      BY <2>11 DEF PublishCandle
    <3>3. \A u \in Threads \ {t} : pc'[u] = pc[u]
      BY <3>1
    <3>4. pc'[t] = "candle handlers" /\ service = t /\ tradingMutex # t
      BY <3>1
    <3> HIDE DEF Moves, GoTo, data
    <3> QED BY <3>2, <3>3, <3>4 DEF Threads
  <2>12. ASSUME NEW t \in Threads, CandleHandlersReturn(t) PROVE LockInv'
    BY <2>12 DEF CandleHandlersReturn, Threads, Places
  <2>13. ASSUME NEW t \in Threads, LeaveService(t) PROVE LockInv'
    BY <2>13 DEF LeaveService, Threads, Places
  <2>14. CASE AddSubscription
    BY <2>14 DEF AddSubscription, Threads, Places
  <2>15. CASE AddSubscriptionThrows
    BY <2>15 DEF AddSubscriptionThrows, Threads, Places
  <2>16. CASE RemoveSubscription
    BY <2>16 DEF RemoveSubscription, Threads, Places
  <2>17. CASE LookUpPair
    BY <2>17 DEF LookUpPair, Threads, Places
  <2>18. CASE HandlerReturns
    BY <2>18 DEF HandlerReturns, Threads, Places
  <2>19. CASE HandlersReturn
    BY <2>19 DEF HandlersReturn, Threads, Places
  <2>20. CASE UpdateReturns
    BY <2>20 DEF UpdateReturns, Threads, Places
  <2>21. CASE UpdateCandle
    BY <2>21 DEF UpdateCandle, Threads, Places
  <2>22. CASE NoCandle
    BY <2>22 DEF NoCandle, Threads, Places
  <2>23. CASE LockHandler
    BY <2>23 DEF LockHandler, Threads, Places
  <2>24. CASE UNCHANGED vars
    BY <2>24 DEF vars
  <2> HIDE DEF LockInv, Moves, GoTo, data, InService, InAddOrder
  <2> QED BY <2>1, <2>2, <2>3, <2>4, <2>5, <2>6, <2>7, <2>8, <2>9, <2>10, <2>11,
             <2>12, <2>13, <2>14, <2>15, <2>16, <2>17, <2>18, <2>19, <2>20, <2>21, <2>22,
             <2>23, <2>24 DEF Next, Acquire, Run, Answer, Deliver
<1> QED BY <1>1, <1>2

\* With that discipline _tradingMutex, _pairs and the candle service cannot be waited
\* for in a circle.
THEOREM DisciplinedOrdersDoNotDeadlock ==
  ASSUME Disciplined
  PROVE  Spec => []NoWaitCycle
<1>1. KnownInv /\ LockInv => NoWaitCycle
  <2> SUFFICES ASSUME KnownInv, LockInv, NEW t \in Threads, NEW u \in WaitsFor(t)
               PROVE  u # t /\ t \notin WaitsFor(u)
    BY DEF NoWaitCycle
  <2>1. tradingMutex \in Threads \cup {NoThread} /\ service \in Threads \cup {NoThread}
    BY DEF KnownInv, TypeOK
  <2>2. CASE pc[t] \in {"lock", "handle"}
    <3>1. u = tradingMutex /\ u \in Threads
      BY <2>1, <2>2 DEF WaitsFor
    <3>2. pc[u] \in {"status", "fill", "scan"}
      BY <3>1 DEF LockInv
    <3> QED BY <2>2, <3>2 DEF WaitsFor
  <2>3. CASE pc[t] = "subscribe"
    <3>1. t = "strategy" /\ u \in pairsReaders /\ u \in Threads
      BY <2>3 DEF WaitsFor, KnownInv, TypeOK, LockInv, Threads
    <3>2. u # t
      BY <2>3, <3>1 DEF LockInv, InAddOrder
    <3>3. tradingMutex # t
      BY <2>3 DEF LockInv
    <3>4. pc[u] \in InAddOrder \cup {"handle", "scan", "handlers", "returning",
                                     "candle handlers", "published"}
      BY <3>1 DEF LockInv
    <3> QED BY <3>2, <3>3, <3>4 DEF WaitsFor, InAddOrder
  <2>4. CASE pc[t] = "service"
    <3>1. u = service /\ u \in Threads
      BY <2>1, <2>4 DEF WaitsFor
    <3>2. pc[u] \in InService \cup InAddOrder
      BY <3>1 DEF LockInv
    <3>3. tradingMutex # t
      BY <2>4 DEF LockInv
    <3> QED BY <2>4, <3>2, <3>3 DEF WaitsFor, InService, InAddOrder
  <2> QED BY <2>2, <2>3, <2>4 DEF WaitsFor
<1>2. Init => LockInv
  BY LockInductive
<1>3. KnownInv /\ KnownInv' /\ LockInv /\ [Next]_vars => LockInv'
  BY LockInductive
<1> QED BY <1>1, <1>2, <1>3, KnownInductive, PTL DEF Spec
=============================================================================
