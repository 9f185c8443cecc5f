---------------------------- MODULE PaperTrading ----------------------------
(***************************************************************************)
(* paper_trade_api: the simulated trading account of the live test and     *)
(* back test run modes (src/testing/paper_trading/paper_trade_api.cpp).    *)
(*                                                                         *)
(* Two threads use it.  The strategy thread calls add_order,               *)
(* add_order_confirm and cancel_order; the websocket thread stores a trade *)
(* price and then calls trade_update_handler, which walks the open orders  *)
(* of the pair.  Every public method holds _tradingMutex from its first to *)
(* its last statement, so a call of the strategy is one step.  The walk of *)
(* the handler is split into one step per order: `scan' # Idle' says that  *)
(* the handler holds the mutex, and every call of the strategy waits for   *)
(* it.  The store of a price (exchange_websocket_stream::update_trade,     *)
(* _trades) comes before the handler takes the mutex, so a call of the     *)
(* strategy may fall between the two.                                      *)
(*                                                                         *)
(* Volumes are integers, as in the code (volume_t, 10^-10 of a unit); a    *)
(* price is a natural number, 0 is the price of the default trade_update   *)
(* returned for a pair without a trade.                                    *)
(***************************************************************************)
EXTENDS Integers, Sequences, FiniteSets, SequencesExt

CONSTANTS
  Assets,           \* names of the assets
  Pairs,            \* tradable pairs, <<asset, price unit>>
  Prices,           \* prices a trade can have
  Requests,         \* order requests the strategy may submit
  InitialBalances,  \* paper_trading_config::balances, per asset held
  FeeNum, FeeDen,   \* the fee as a fraction: _fee * 0.01
  DeltaDen,         \* denominator of a trailing delta
  VolumeRange,      \* number of values of volume_t (2^64 in the code)
  MaxOrders,        \* bound on the calls of add_order
  NoPair            \* no pair

OrderTypes == {"MARKET", "LIMIT", "STOP_LOSS", "TRAILING_STOP_LOSS"}
Actions == {"BUY", "SELL"}

(***************************************************************************)
(* An order request.  `level' is the one parameter its type reads:         *)
(* ASSET_PRICE of a limit order, STOP_PRICE of a stop loss, TRAILING_DELTA *)
(* (over DeltaDen) of a trailing stop loss; order_request::get returns 0   *)
(* for a parameter that is not set.                                        *)
(***************************************************************************)
OrderRequest == [type : OrderTypes, pair : Pairs, action : Actions,
                 volume : Nat, level : Nat]

ASSUME AccountAssumption ==
  /\ Pairs \subseteq Assets \X Assets
  /\ \A p \in Pairs : p[1] # p[2]
  /\ NoPair \notin Pairs
  /\ Prices \subseteq Nat \ {0}
  /\ Requests \subseteq OrderRequest
  /\ VolumeRange \in Nat \ {0}
  /\ DOMAIN InitialBalances \subseteq Assets
  /\ InitialBalances \in [DOMAIN InitialBalances -> 0 .. VolumeRange - 1]
  /\ FeeNum \in Nat /\ FeeDen \in Nat \ {0} /\ FeeNum <= FeeDen
  /\ DeltaDen \in Nat \ {0}
  /\ \A r \in Requests :
       r.type = "TRAILING_STOP_LOSS" => r.level <= DeltaDen
  /\ MaxOrders \in Nat

Ids == 1 .. MaxOrders

VARIABLES
  lastPrice,            \* price of the last trade of each pair (_trades)
  updating,             \* pair of the trade being delivered, or NoPair
  scan,                 \* the loop of trade_update_handler, or Idle
  balances,             \* _balances
  openOrders,           \* _openOrders: id -> request
  openOrdersByPair,     \* _openOrdersByPair: pair -> ids, cleaned lazily
  closedOrders,         \* _closedOrders
  trailingOrderLimits,  \* _trailingOrderLimits: id -> price
  nextOrderNumber,      \* _nextOrderNumber
  aborted,              \* an exception has left the websocket callback
  told                  \* per id, what the caller of add_order was told

accountVars == <<balances, closedOrders, trailingOrderLimits>>
streamVars == <<lastPrice, updating>>
vars == <<lastPrice, updating, scan, balances, openOrders, openOrdersByPair,
          closedOrders, trailingOrderLimits, nextOrderNumber, aborted, told>>

Idle == [pair |-> NoPair, left |-> 0, index |-> 1]

ClosedOrder == [id : Ids, request : Requests, fillPrice : Nat]

\* The answers of add_order / add_order_confirm: the id, a confirmation with
\* status CLOSED, or one of two exceptions.
Answers == {"ID", "CONFIRMED", "INSUFFICIENT_FUNDS", "WEBSOCKET_ERROR"}

AccountInit ==
  /\ updating = NoPair
  /\ scan = Idle
  /\ balances = InitialBalances
  /\ openOrders = <<>>
  /\ openOrdersByPair = [p \in Pairs |-> <<>>]
  /\ closedOrders = <<>>
  /\ trailingOrderLimits = <<>>
  /\ nextOrderNumber = 1
  /\ aborted = FALSE
  /\ told = <<>>

Init == lastPrice = [p \in Pairs |-> 0] /\ AccountInit

-----------------------------------------------------------------------------
(***************************************************************************)
(* Pure parts of try_fill_order and execute_order.                         *)
(***************************************************************************)
Smaller(a, b) == IF a < b THEN a ELSE b
Larger(a, b) == IF a > b THEN a ELSE b

\* Fault: the entry stays.  (Definitions marked "Fault" are what a plausible bug
\* would make of the next definition; only the mutation checks use them.)
KeepsEntry(map, key) == map

\* A map without / with an entry (unordered_map::erase, ::emplace).
Without(map, key) == [k \in DOMAIN map \ {key} |-> map[k]]
With(map, key, value) ==
  [k \in DOMAIN map \cup {key} |-> IF k = key THEN value ELSE map[k]]

CrossesLimit(request, price) ==
  \/ request.action = "BUY" /\ price <= request.level
  \/ request.action = "SELL" /\ price >= request.level

CrossesStop(request, price) ==
  \/ request.action = "BUY" /\ price >= request.level
  \/ request.action = "SELL" /\ price <= request.level

\* Fault: buy and sell orders follow the wrong extremum.
WrongExtremum(id, request, price) ==
  LET seen == IF id \in DOMAIN trailingOrderLimits
                THEN trailingOrderLimits[id] ELSE price
  IN  IF request.action = "BUY" THEN Larger(seen, price) ELSE Smaller(seen, price)

\* The extremum a trailing order follows, `price' included; the entry is
\* created from the current price when there is none.
TrailingExtremum(id, request, price) ==
  LET seen == IF id \in DOMAIN trailingOrderLimits
                THEN trailingOrderLimits[id] ELSE price
  IN  IF request.action = "BUY" THEN Smaller(seen, price) ELSE Larger(seen, price)

CrossesTrail(id, request, price) ==
  LET extremum == TrailingExtremum(id, request, price)
  IN  IF request.action = "BUY"
        THEN price * DeltaDen >= extremum * (DeltaDen + request.level)
        ELSE price * DeltaDen <= extremum * (DeltaDen - request.level)

\* try_fill_order decides to execute the order at the current price.
Triggered(id, request) ==
  LET price == lastPrice[request.pair]
  IN  /\ price # 0
      /\ CASE request.type = "MARKET" -> TRUE
           [] request.type = "LIMIT" -> CrossesLimit(request, price)
           [] request.type = "STOP_LOSS" -> CrossesStop(request, price)
           [] request.type = "TRAILING_STOP_LOSS" -> CrossesTrail(id, request, price)

FillPrice(request) ==
  IF request.type \in {"LIMIT", "STOP_LOSS"}
    THEN request.level ELSE lastPrice[request.pair]

Cost(request, fillPrice) == request.volume * fillPrice

GainedAsset(request) ==
  IF request.action = "BUY" THEN request.pair[1] ELSE request.pair[2]
SoldAsset(request) ==
  IF request.action = "BUY" THEN request.pair[2] ELSE request.pair[1]

\* to_integer_volume truncates the fee-adjusted side.
GainVolume(request, fillPrice) ==
  IF request.action = "BUY"
    THEN request.volume
    ELSE (Cost(request, fillPrice) * (FeeDen - FeeNum)) \div FeeDen
SoldVolume(request, fillPrice) ==
  IF request.action = "BUY"
    THEN (Cost(request, fillPrice) * (FeeDen + FeeNum)) \div FeeDen
    ELSE request.volume

\* Fault: only the asset is looked up, not the amount.
HoldsAsset(asset, amount) == asset \in DOMAIN balances

HasSufficientFunds(asset, amount) ==
  asset \in DOMAIN balances /\ balances[asset] >= amount

CanPay(request) ==
  HasSufficientFunds(SoldAsset(request), SoldVolume(request, FillPrice(request)))

\* Fault: balances wider than volume_t.
SettledUnwrapped(held, request, fillPrice) ==
  LET gained == GainedAsset(request)
      before == IF gained \in DOMAIN held THEN held[gained] ELSE 0
      credited == With(held, gained, before + GainVolume(request, fillPrice))
  IN  [credited EXCEPT ![SoldAsset(request)] = @ - SoldVolume(request, fillPrice)]

\* unsigned addition and subtraction on _balances.
Settled(held, request, fillPrice) ==
  LET gained == GainedAsset(request)
      before == IF gained \in DOMAIN held THEN held[gained] ELSE 0
      credited == With(held, gained,
                       (before + GainVolume(request, fillPrice)) % VolumeRange)
  IN  [credited EXCEPT ![SoldAsset(request)] =
         (@ - SoldVolume(request, fillPrice)) % VolumeRange]

\* Fault: the limit follows the price in both directions.
LimitsAtLastPrice(id, request) ==
  IF request.type # "TRAILING_STOP_LOSS" \/ lastPrice[request.pair] = 0
    THEN trailingOrderLimits
    ELSE With(trailingOrderLimits, id, lastPrice[request.pair])

\* The limit entry try_fill_order leaves behind: erased when the order
\* triggers, also when execute_order then throws.
LimitsAfter(id, request) ==
  IF request.type # "TRAILING_STOP_LOSS" \/ lastPrice[request.pair] = 0
    THEN trailingOrderLimits
  ELSE IF Triggered(id, request)
    THEN Without(trailingOrderLimits, id)
  ELSE With(trailingOrderLimits, id,
            TrailingExtremum(id, request, lastPrice[request.pair]))

-----------------------------------------------------------------------------
(***************************************************************************)
(* The three ways try_fill_order ends.                                     *)
(***************************************************************************)
\* It returns false: the order is left open.
Keep(id, request) ==
  /\ ~Triggered(id, request)
  /\ trailingOrderLimits' = LimitsAfter(id, request)
  /\ UNCHANGED <<balances, closedOrders>>

\* Fault: the execution is not recorded.
ExecuteUnrecorded(id, request) ==
  /\ Triggered(id, request)
  /\ CanPay(request)
  /\ trailingOrderLimits' = LimitsAfter(id, request)
  /\ balances' = Settled(balances, request, FillPrice(request))
  /\ UNCHANGED closedOrders

\* execute_order succeeds.
Execute(id, request) ==
  /\ Triggered(id, request)
  /\ CanPay(request)
  /\ trailingOrderLimits' = LimitsAfter(id, request)
  /\ balances' = Settled(balances, request, FillPrice(request))
  /\ closedOrders' = Append(closedOrders,
       [id |-> id, request |-> request, fillPrice |-> FillPrice(request)])

\* execute_order throws "Insufficient funds".
Refuse(id, request) ==
  /\ Triggered(id, request)
  /\ ~CanPay(request)
  /\ trailingOrderLimits' = LimitsAfter(id, request)
  /\ UNCHANGED <<balances, closedOrders>>

\* websocket_stream::subscribe, called for a pair without data, throws a
\* websocket_error: try_fill_order is not reached.
SubscribeFails(request) ==
  /\ lastPrice[request.pair] = 0
  /\ UNCHANGED accountVars

-----------------------------------------------------------------------------
(***************************************************************************)
(* The strategy thread.                                                    *)
(***************************************************************************)
\* Fault: _tradingMutex is not taken.
MutexIgnored == ~aborted

MutexFree == ~aborted /\ scan = Idle

(***************************************************************************)
(* add_order and add_order_confirm.  The order is entered in _openOrders   *)
(* and _openOrdersByPair before anything that can throw; execute_order     *)
(* takes it out of _openOrders again.  add_order_confirm returns CLOSED    *)
(* whatever add_order did with the order.                                  *)
(***************************************************************************)
AddOrder(request) ==
  LET id == nextOrderNumber
      entered == With(openOrders, id, request)
  IN  /\ MutexFree
      /\ id <= MaxOrders
      /\ nextOrderNumber' = id + 1
      /\ openOrdersByPair' =
           [openOrdersByPair EXCEPT ![request.pair] = Append(@, id)]
      /\ \/ /\ Keep(id, request)
            /\ openOrders' = entered
            /\ \E answer \in {"ID", "CONFIRMED"} : told' = Append(told, answer)
         \/ /\ Execute(id, request)
            /\ openOrders' = Without(entered, id)
            /\ \E answer \in {"ID", "CONFIRMED"} : told' = Append(told, answer)
         \/ /\ Refuse(id, request)
            /\ openOrders' = entered
            /\ told' = Append(told, "INSUFFICIENT_FUNDS")
         \/ /\ SubscribeFails(request)
            /\ openOrders' = entered
            /\ told' = Append(told, "WEBSOCKET_ERROR")
      /\ UNCHANGED <<lastPrice, updating, scan, aborted>>

\* cancel_order: neither the list of the pair nor the limit is touched.  The
\* exception for an id that is not open changes nothing.
CancelOrder(id) ==
  /\ MutexFree
  /\ id \in DOMAIN openOrders
  /\ openOrders' = Without(openOrders, id)
  /\ UNCHANGED <<lastPrice, updating, scan, balances, openOrdersByPair, closedOrders,
                 trailingOrderLimits, nextOrderNumber, aborted, told>>

-----------------------------------------------------------------------------
(***************************************************************************)
(* The websocket thread.                                                   *)
(***************************************************************************)
\* update_trade stores the price and is about to call the handler.
StoreTrade(pair, price) ==
  /\ ~aborted
  /\ updating = NoPair
  /\ updating' = pair
  /\ lastPrice' = [lastPrice EXCEPT ![pair] = price]
  /\ UNCHANGED <<scan, balances, openOrders, openOrdersByPair, closedOrders,
                 trailingOrderLimits, nextOrderNumber, aborted, told>>

\* Fault: the loop ends one order early.
HandlerBeginsOneShort ==
  /\ MutexFree
  /\ updating # NoPair
  /\ scan' = [pair |-> updating, left |-> Larger(Len(openOrdersByPair[updating]) - 1, 0),
              index |-> 1]
  /\ UNCHANGED <<lastPrice, updating, balances, openOrders, openOrdersByPair,
                 closedOrders, trailingOrderLimits, nextOrderNumber, aborted, told>>

\* trade_update_handler takes the mutex; orderCount is read once.
HandlerBegins ==
  /\ MutexFree
  /\ updating # NoPair
  /\ scan' = [pair |-> updating, left |-> Len(openOrdersByPair[updating]), index |-> 1]
  /\ UNCHANGED <<lastPrice, updating, balances, openOrders, openOrdersByPair,
                 closedOrders, trailingOrderLimits, nextOrderNumber, aborted, told>>

ScannedId == openOrdersByPair[scan.pair][scan.index]

\* Fault: orderIds.erase(orderIds.begin())
EraseFirst ==
  openOrdersByPair' = [openOrdersByPair EXCEPT ![scan.pair] = RemoveAt(@, 1)]

\* orderIds.erase(it)
EraseScanned ==
  openOrdersByPair' = [openOrdersByPair EXCEPT ![scan.pair] = RemoveAt(@, scan.index)]

\* One iteration of the loop.
HandlerDropsStaleId ==
  /\ scan.left > 0
  /\ ScannedId \notin DOMAIN openOrders
  /\ EraseScanned
  /\ scan' = [scan EXCEPT !.left = @ - 1]
  /\ UNCHANGED <<lastPrice, updating, balances, openOrders, closedOrders,
                 trailingOrderLimits, nextOrderNumber, aborted, told>>

HandlerFills ==
  /\ scan.left > 0
  /\ ScannedId \in DOMAIN openOrders
  /\ Execute(ScannedId, openOrders[ScannedId])
  /\ openOrders' = Without(openOrders, ScannedId)
  /\ EraseScanned
  /\ scan' = [scan EXCEPT !.left = @ - 1]
  /\ UNCHANGED <<lastPrice, updating, nextOrderNumber, aborted, told>>

HandlerKeeps ==
  /\ scan.left > 0
  /\ ScannedId \in DOMAIN openOrders
  /\ Keep(ScannedId, openOrders[ScannedId])
  /\ scan' = [scan EXCEPT !.left = @ - 1, !.index = @ + 1]
  /\ UNCHANGED <<lastPrice, updating, openOrders, openOrdersByPair, nextOrderNumber,
                 aborted, told>>

\* The exception unwinds the handler (the mutex is released) and leaves the
\* websocket callback, which nothing catches: the program ends.
HandlerThrows ==
  /\ scan.left > 0
  /\ ScannedId \in DOMAIN openOrders
  /\ Refuse(ScannedId, openOrders[ScannedId])
  /\ scan' = Idle
  /\ updating' = NoPair
  /\ aborted' = TRUE
  /\ UNCHANGED <<lastPrice, openOrders, openOrdersByPair, nextOrderNumber, told>>

HandlerReturns ==
  /\ scan # Idle
  /\ scan.left = 0
  /\ scan' = Idle
  /\ updating' = NoPair
  /\ UNCHANGED <<lastPrice, balances, openOrders, openOrdersByPair, closedOrders,
                 trailingOrderLimits, nextOrderNumber, aborted, told>>

Handler == \/ HandlerBegins
           \/ HandlerDropsStaleId
           \/ HandlerFills
           \/ HandlerKeeps
           \/ HandlerThrows
           \/ HandlerReturns

Next == \/ \E request \in Requests : AddOrder(request)
        \/ \E id \in Ids : CancelOrder(id)
        \/ \E pair \in Pairs, price \in Prices : StoreTrade(pair, price)
        \/ Handler

Spec == Init /\ [][Next]_vars

(***************************************************************************)
(* The websocket thread runs what it has been handed: the callback that    *)
(* stored a price goes on to the handler and through its loop, and the     *)
(* mutex, which the strategy only holds within a call, reaches it.         *)
(* Nothing is assumed of the strategy or of the arrival of trades.         *)
(***************************************************************************)
FairSpec == Spec /\ WF_vars(Handler)

-----------------------------------------------------------------------------
TypeOK ==
  /\ lastPrice \in [Pairs -> Prices \cup {0}]
  /\ updating \in Pairs \cup {NoPair}
  /\ scan \in [pair : Pairs \cup {NoPair}, left : Nat, index : Nat \ {0}]
  /\ DOMAIN balances \subseteq Assets
  /\ balances \in [DOMAIN balances -> 0 .. VolumeRange - 1]
  /\ DOMAIN openOrders \subseteq Ids
  /\ openOrders \in [DOMAIN openOrders -> Requests]
  /\ openOrdersByPair \in [Pairs -> Seq(Ids)]
  /\ closedOrders \in Seq(ClosedOrder)
  /\ DOMAIN trailingOrderLimits \subseteq Ids
  /\ trailingOrderLimits \in [DOMAIN trailingOrderLimits -> Prices]
  /\ nextOrderNumber \in 1 .. MaxOrders + 1
  /\ aborted \in BOOLEAN
  /\ told \in Seq(Answers)

\* Every id handed out is answered for, and an order is executed at most once
\* and never while it is open (_openOrders and _closedOrders, which
\* execute_order changes one after the other, agree on its fate).
OneFate ==
  /\ Len(told) = nextOrderNumber - 1
  /\ DOMAIN openOrders \subseteq 1 .. nextOrderNumber - 1
  /\ \A i \in DOMAIN closedOrders :
       /\ closedOrders[i].id < nextOrderNumber
       /\ closedOrders[i].id \notin DOMAIN openOrders
       /\ \A j \in DOMAIN closedOrders :
            closedOrders[i].id = closedOrders[j].id => i = j

\* The list of a pair is in order of submission, holds every open order of the
\* pair and no open order of another pair.
ListServesPair(p) ==
  LET list == openOrdersByPair[p]
  IN  /\ \A i, j \in DOMAIN list : i < j => list[i] < list[j]
      /\ \A i \in DOMAIN list :
           /\ list[i] < nextOrderNumber
           /\ list[i] \in DOMAIN openOrders => openOrders[list[i]].pair = p
      /\ \A id \in DOMAIN openOrders :
           openOrders[id].pair = p => \E i \in DOMAIN list : list[i] = id

\* The lists trade_update_handler walks are exactly good enough: a price
\* reaches every open order of its pair, once, the oldest first.
OpenOrdersAreListed == \A p \in Pairs : ListServesPair(p)

\* The loop of trade_update_handler, which erases from the vector it walks and
\* counts to a size it read before, never dereferences past the end and leaves
\* no element out.
ScanStaysInList ==
  scan # Idle =>
    /\ scan.pair = updating
    /\ scan.pair \in Pairs
    /\ scan.index + scan.left = Len(openOrdersByPair[scan.pair]) + 1

\* The handler has yet to reach this open order of the pair being updated.
StillToVisit(id) ==
  LET p == openOrders[id].pair
  IN  /\ updating = p
      /\ scan # Idle =>
           \E i \in scan.index .. Len(openOrdersByPair[p]) : openOrdersByPair[p][i] = id

\* No execution is missed: an open order whose condition the last price meets
\* is about to be visited, unless add_order refused it for lack of funds.
NoTriggeredOrderLeft ==
  ~aborted =>
    \A id \in DOMAIN openOrders :
      Triggered(id, openOrders[id]) =>
        told[id] = "INSUFFICIENT_FUNDS" \/ StillToVisit(id)

\* An open trailing order follows the best price since it was placed: once
\* visited, its limit is at least (sell) or at most (buy) the last price.
TrailingLimitIsCurrent ==
  ~aborted =>
    \A id \in DOMAIN openOrders :
      LET request == openOrders[id]
          price == lastPrice[request.pair]
      IN  /\ request.type = "TRAILING_STOP_LOSS"
          /\ price # 0
          /\ told[id] # "INSUFFICIENT_FUNDS"
          /\ ~StillToVisit(id)
          => /\ id \in DOMAIN trailingOrderLimits
             /\ IF request.action = "BUY"
                  THEN trailingOrderLimits[id] <= price
                  ELSE trailingOrderLimits[id] >= price

\* The limit of an order that stays open moves only in the order's favour and
\* is not forgotten while the program runs (_trailingOrderLimits).
TrailingLimitRatchets ==
  [][\A id \in DOMAIN openOrders \cap DOMAIN trailingOrderLimits :
       id \in DOMAIN openOrders' /\ ~aborted' =>
         /\ id \in DOMAIN trailingOrderLimits'
         /\ IF openOrders[id].action = "BUY"
              THEN trailingOrderLimits'[id] <= trailingOrderLimits[id]
              ELSE trailingOrderLimits'[id] >= trailingOrderLimits[id]]_vars

\* What one execution adds to an asset and takes from it.
Gained(asset, c) ==
  IF GainedAsset(c.request) = asset THEN GainVolume(c.request, c.fillPrice) ELSE 0
Sold(asset, c) ==
  IF SoldAsset(c.request) = asset THEN SoldVolume(c.request, c.fillPrice) ELSE 0

\* What the first n of a list of executions leave of an asset, computed without
\* the account: the initial balance, plus the gains, minus the payments.
NetHoldings(asset, executions) ==
  LET Net[n \in 0 .. Len(executions)] ==
        IF n = 0 THEN IF asset \in DOMAIN InitialBalances THEN InitialBalances[asset] ELSE 0
        ELSE Net[n - 1] + Gained(asset, executions[n]) - Sold(asset, executions[n])
  IN  Net

NetHolding(asset) == NetHoldings(asset, closedOrders)[Len(closedOrders)]

\* The books balance: every holding is what the closed orders add up to, modulo
\* the width of volume_t, and no execution spends funds the account has not
\* got.  Nothing is paid twice, unrecorded, or recorded without being paid for.
LedgerMatchesClosedOrders ==
  \A asset \in Assets :
    LET held == IF asset \in DOMAIN balances THEN balances[asset] ELSE 0
    IN  NetHolding(asset) >= 0 /\ held = NetHolding(asset) % VolumeRange

\* A price that triggers an open order leads to its execution, to its
\* cancellation, to a price that no longer triggers it or to the end of the
\* program; the handler never leaves it waiting.
TriggeredOrderIsServed ==
  \A id \in Ids :
    (/\ id \in DOMAIN openOrders
     /\ Triggered(id, openOrders[id])
     /\ StillToVisit(id))
    ~> (\/ aborted
        \/ id \notin DOMAIN openOrders
        \/ ~Triggered(id, openOrders[id]))

\* paper_trade_api implements the life of an order.
Lifecycle == INSTANCE OrderLifecycle
               WITH issued <- nextOrderNumber - 1,
                    open <- DOMAIN openOrders,
                    filled <- {closedOrders[i].id : i \in DOMAIN closedOrders}

ImplementsLifecycle == Lifecycle!LifecycleSpec

-----------------------------------------------------------------------------
(***************************************************************************)
(* A statement of the repository that the code does not keep.              *)
(***************************************************************************)
\* add_order throws "Insufficient funds" (paper_trader_test.cpp,
\* AddBuyOrderThrowsIfInsufficientFunds): the order did not take place, and
\* never will.
RefusedOrderNeverExecutes ==
  \A i \in DOMAIN closedOrders :
    told[closedOrders[i].id] # "INSUFFICIENT_FUNDS"
=============================================================================
