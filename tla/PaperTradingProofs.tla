------------------------- MODULE PaperTradingProofs -------------------------
(***************************************************************************)
(* Proofs about PaperTrading, for every set of pairs, prices, requests and *)
(* funds and every number of orders: one fate for each order and the lists *)
(* they stand in, the life of an order, which orders the prices reach, how *)
(* the limits of trailing orders move, and that the books balance.  Then   *)
(* proofs about the back test that trades on this account.                 *)
(***************************************************************************)
EXTENDS BackTest, NaturalLemmas, SequenceTheorems, TLAPS

-----------------------------------------------------------------------------
(***************************************************************************)
(* Lemmas about the operators of the model.                                *)
(***************************************************************************)

\* orderIds.erase(it): one element less, the others in their order.
LEMMA RemoveAtFacts ==
  ASSUME NEW S, NEW s \in Seq(S), NEW k \in 1 .. Len(s)
  PROVE  /\ RemoveAt(s, k) \in Seq(S)
         /\ Len(RemoveAt(s, k)) = Len(s) - 1
         /\ \A j \in 1 .. Len(s) - 1 :
              RemoveAt(s, k)[j] = IF j < k THEN s[j] ELSE s[j + 1]
<1> DEFINE a == SubSeq(s, 1, k - 1)
           b == SubSeq(s, k + 1, Len(s))
<1>1. /\ a \in Seq(S)
      /\ Len(a) = k - 1
      /\ \A i \in 1 .. k - 1 : a[i] = s[i]
  BY SubSeqProperties
<1>2. /\ b \in Seq(S)
      /\ Len(b) = Len(s) - k
      /\ \A i \in 1 .. Len(s) - k : b[i] = s[k + i]
  BY SubSeqProperties
<1> HIDE DEF a, b
<1>3. /\ a \o b \in Seq(S)
      /\ Len(a \o b) = Len(s) - 1
      /\ \A i \in 1 .. Len(s) - 1 :
           (a \o b)[i] = IF i <= k - 1 THEN a[i] ELSE b[i - (k - 1)]
  BY <1>1, <1>2, ConcatProperties
<1>4. ASSUME NEW j \in 1 .. Len(s) - 1
      PROVE  (a \o b)[j] = IF j < k THEN s[j] ELSE s[j + 1]
  <2>1. CASE j < k
    BY <1>1, <1>3, <2>1
  <2>2. CASE ~(j < k)
    <3>1. j - (k - 1) \in 1 .. Len(s) - k /\ k + (j - (k - 1)) = j + 1
      BY <2>2
    <3>2. b[j - (k - 1)] = s[j + 1]
      BY <1>2, <3>1
    <3> QED BY <1>3, <2>2, <3>2
  <2> QED BY <2>1, <2>2
<1>5. RemoveAt(s, k) = a \o b
  BY DEF RemoveAt, a, b
<1> QED BY <1>3, <1>4, <1>5

\* The constants of an admissible account.
LEMMA RequestTyping ==
  ASSUME NEW request \in Requests
  PROVE  /\ request.type \in OrderTypes
         /\ request.pair \in Pairs
         /\ request.action \in Actions
         /\ request.volume \in Nat
         /\ request.level \in Nat
         /\ GainedAsset(request) \in Assets
         /\ SoldAsset(request) \in Assets
         /\ GainedAsset(request) # SoldAsset(request)
<1>1. request \in OrderRequest
  BY AccountAssumption
<1>2. /\ request.type \in OrderTypes
      /\ request.pair \in Pairs
      /\ request.action \in Actions
      /\ request.volume \in Nat
      /\ request.level \in Nat
  BY <1>1 DEF OrderRequest
<1>3. /\ request.pair[1] \in Assets
      /\ request.pair[2] \in Assets
      /\ request.pair[1] # request.pair[2]
  BY <1>2, AccountAssumption
<1> QED BY <1>2, <1>3 DEF GainedAsset, SoldAsset, Actions

LEMMA PriceTyping ==
  ASSUME TypeOK, NEW request \in Requests
  PROVE  /\ lastPrice[request.pair] \in Prices \cup {0}
         /\ lastPrice[request.pair] \in Nat
         /\ FillPrice(request) \in Nat
<1>1. request.pair \in Pairs /\ request.level \in Nat
  BY RequestTyping
<1>2. lastPrice[request.pair] \in Prices \cup {0}
  BY <1>1 DEF TypeOK
<1>3. lastPrice[request.pair] \in Nat
  BY <1>2, AccountAssumption
<1> QED BY <1>1, <1>2, <1>3 DEF FillPrice

\* The fee-adjusted volumes of an execution are integers.
LEMMA VolumeTyping ==
  ASSUME TypeOK, NEW request \in Requests
  PROVE  /\ GainVolume(request, FillPrice(request)) \in Int
         /\ SoldVolume(request, FillPrice(request)) \in Int
<1>1. request.volume \in Nat /\ FillPrice(request) \in Nat
  BY RequestTyping, PriceTyping
<1>2. FeeNum \in Nat /\ FeeDen \in Nat \ {0}
  BY AccountAssumption
<1>3. Cost(request, FillPrice(request)) \in Int
  BY <1>1 DEF Cost
<1>4. /\ Cost(request, FillPrice(request)) * (FeeDen - FeeNum) \in Int
      /\ Cost(request, FillPrice(request)) * (FeeDen + FeeNum) \in Int
  BY <1>2, <1>3
<1>5. \A c \in Int : c \div FeeDen \in Int
  BY <1>2
<1> QED BY <1>1, <1>4, <1>5 DEF GainVolume, SoldVolume

\* An execution keeps every balance a value of volume_t.
LEMMA SettledTyping ==
  ASSUME TypeOK, NEW request \in Requests
  PROVE  LET after == Settled(balances, request, FillPrice(request))
         IN  /\ DOMAIN after \subseteq Assets
             /\ after \in [DOMAIN after -> 0 .. VolumeRange - 1]
<1> DEFINE gain == GainVolume(request, FillPrice(request))
           sold == SoldVolume(request, FillPrice(request))
           gained == GainedAsset(request)
           payer == SoldAsset(request)
           before == IF gained \in DOMAIN balances THEN balances[gained] ELSE 0
           credited == With(balances, gained, (before + gain) % VolumeRange)
<1>1. gain \in Int /\ sold \in Int
  BY VolumeTyping
<1>2. gained \in Assets /\ payer \in Assets
  BY RequestTyping
<1>3. VolumeRange \in Nat \ {0}
  BY AccountAssumption
<1>4. \A c \in Int : c % VolumeRange \in 0 .. VolumeRange - 1
  BY <1>3
<1>5. /\ DOMAIN balances \subseteq Assets
      /\ \A a \in DOMAIN balances : balances[a] \in 0 .. VolumeRange - 1
  BY DEF TypeOK
<1>6. before \in Int
  BY <1>3, <1>5
<1> HIDE DEF gain, sold, gained, payer, before
<1>7. (before + gain) % VolumeRange \in 0 .. VolumeRange - 1
  BY <1>1, <1>4, <1>6
<1>8. /\ DOMAIN credited \subseteq Assets
      /\ \A a \in DOMAIN credited : credited[a] \in 0 .. VolumeRange - 1
  BY <1>2, <1>5, <1>7 DEF With
<1> HIDE DEF credited
<1>9. \A c \in 0 .. VolumeRange - 1 : (c - sold) % VolumeRange \in 0 .. VolumeRange - 1
  BY <1>1, <1>3, <1>4
<1>10. Settled(balances, request, FillPrice(request))
         = [credited EXCEPT ![payer] = (@ - sold) % VolumeRange]
  BY DEF Settled, credited, before, gained, gain, sold, payer
<1> QED BY <1>8, <1>9, <1>10

\* The limits stay prices of orders.
LEMMA LimitsTyping ==
  ASSUME TypeOK, NEW id \in Ids, NEW request \in Requests
  PROVE  /\ DOMAIN LimitsAfter(id, request) \subseteq Ids
         /\ LimitsAfter(id, request) \in [DOMAIN LimitsAfter(id, request) -> Prices]
<1> DEFINE price == lastPrice[request.pair]
<1>1. /\ DOMAIN trailingOrderLimits \subseteq Ids
      /\ \A i \in DOMAIN trailingOrderLimits : trailingOrderLimits[i] \in Prices
      /\ trailingOrderLimits \in [DOMAIN trailingOrderLimits -> Prices]
  BY DEF TypeOK
<1>2. price \in Prices \cup {0}
  BY PriceTyping
<1>3. price # 0 => TrailingExtremum(id, request, price) \in Prices
  BY <1>1, <1>2 DEF TrailingExtremum, Smaller, Larger
<1>4. CASE request.type # "TRAILING_STOP_LOSS" \/ price = 0
  BY <1>1, <1>4 DEF LimitsAfter
<1>5. CASE /\ request.type = "TRAILING_STOP_LOSS" /\ price # 0
           /\ Triggered(id, request)
  <2>1. LimitsAfter(id, request) = Without(trailingOrderLimits, id)
    BY <1>5 DEF LimitsAfter
  <2> QED BY <1>1, <2>1 DEF Without
<1>6. CASE /\ request.type = "TRAILING_STOP_LOSS" /\ price # 0
           /\ ~Triggered(id, request)
  <2>1. LimitsAfter(id, request)
          = With(trailingOrderLimits, id, TrailingExtremum(id, request, price))
    BY <1>6 DEF LimitsAfter
  <2> QED BY <1>1, <1>3, <1>6, <2>1 DEF With
<1> QED BY <1>4, <1>5, <1>6

\* Whatever way try_fill_order ends, the account keeps its types, and the only
\* way it adds a closed order is the execution of this one.
LEMMA TryFillStep ==
  ASSUME TypeOK, NEW id \in Ids, NEW request \in Requests,
         Keep(id, request) \/ Execute(id, request) \/ Refuse(id, request)
  PROVE  /\ DOMAIN balances' \subseteq Assets
         /\ balances' \in [DOMAIN balances' -> 0 .. VolumeRange - 1]
         /\ DOMAIN trailingOrderLimits' \subseteq Ids
         /\ trailingOrderLimits' \in [DOMAIN trailingOrderLimits' -> Prices]
         /\ closedOrders' \in Seq(ClosedOrder)
         /\ IF Execute(id, request)
              THEN /\ Len(closedOrders') = Len(closedOrders) + 1
                   /\ closedOrders'[Len(closedOrders) + 1].id = id
                   /\ \A i \in 1 .. Len(closedOrders) : closedOrders'[i] = closedOrders[i]
              ELSE closedOrders' = closedOrders
<1>1. trailingOrderLimits' = LimitsAfter(id, request)
  BY DEF Keep, Execute, Refuse
<1>2. /\ DOMAIN trailingOrderLimits' \subseteq Ids
      /\ trailingOrderLimits' \in [DOMAIN trailingOrderLimits' -> Prices]
  BY <1>1, LimitsTyping
<1>3. closedOrders \in Seq(ClosedOrder)
  BY DEF TypeOK
<1>4. CASE Execute(id, request)
  <2> DEFINE c == [id |-> id, request |-> request, fillPrice |-> FillPrice(request)]
  <2>1. c \in ClosedOrder
    BY PriceTyping DEF ClosedOrder
  <2>2. c.id = id
    OBVIOUS
  <2>3. closedOrders' = Append(closedOrders, c)
    BY <1>4 DEF Execute
  <2> HIDE DEF c
  <2>4. /\ closedOrders' \in Seq(ClosedOrder)
        /\ Len(closedOrders') = Len(closedOrders) + 1
        /\ closedOrders'[Len(closedOrders) + 1] = c
        /\ \A i \in 1 .. Len(closedOrders) : closedOrders'[i] = closedOrders[i]
    BY <1>3, <2>1, <2>3, AppendProperties
  <2>5. /\ DOMAIN balances' \subseteq Assets
        /\ balances' \in [DOMAIN balances' -> 0 .. VolumeRange - 1]
    BY <1>4, SettledTyping DEF Execute
  <2> QED BY <1>2, <1>4, <2>2, <2>4, <2>5
<1>5. CASE ~Execute(id, request)
  <2>1. balances' = balances /\ closedOrders' = closedOrders
    BY <1>5 DEF Keep, Refuse
  <2> QED BY <1>2, <1>3, <1>5, <2>1 DEF TypeOK
<1> QED BY <1>4, <1>5

-----------------------------------------------------------------------------
(***************************************************************************)
(* The inductive invariant.  TypeOK alone is not inductive: the types of   *)
(* the list after an erase need ScanStaysInList (the position erased       *)
(* exists).  OneFate needs that an order being executed is not closed yet, *)
(* which is OneFate itself together with the guard of the loop; that an    *)
(* order just entered is new needs that identifiers in use are smaller     *)
(* than nextOrderNumber.                                                   *)
(***************************************************************************)
IInv == TypeOK /\ OneFate /\ OpenOrdersAreListed /\ ScanStaysInList

LEMMA AccountInitInv ==
  ASSUME AccountInit, lastPrice \in [Pairs -> Prices \cup {0}]
  PROVE  IInv
<1> USE DEF AccountInit
<1>1. TypeOK
  <2>1. /\ lastPrice \in [Pairs -> Prices \cup {0}]
        /\ updating \in Pairs \cup {NoPair}
        /\ scan \in [pair : Pairs \cup {NoPair}, left : Nat, index : Nat \ {0}]
    BY DEF Idle
  <2>2. /\ DOMAIN balances \subseteq Assets
        /\ balances \in [DOMAIN balances -> 0 .. VolumeRange - 1]
    BY AccountAssumption
  <2>3. /\ DOMAIN openOrders \subseteq Ids
        /\ openOrders \in [DOMAIN openOrders -> Requests]
        /\ DOMAIN trailingOrderLimits \subseteq Ids
        /\ trailingOrderLimits \in [DOMAIN trailingOrderLimits -> Prices]
    OBVIOUS
  <2>4. /\ openOrdersByPair \in [Pairs -> Seq(Ids)]
        /\ closedOrders \in Seq(ClosedOrder)
        /\ told \in Seq(Answers)
    OBVIOUS
  <2>5. nextOrderNumber \in 1 .. MaxOrders + 1
    BY AccountAssumption
  <2>6. aborted \in BOOLEAN
    OBVIOUS
  <2> QED BY <2>1, <2>2, <2>3, <2>4, <2>5, <2>6 DEF TypeOK
<1>2. OneFate
  BY DEF OneFate
<1>3. OpenOrdersAreListed
  BY DEF OpenOrdersAreListed, ListServesPair
<1>4. ScanStaysInList
  BY DEF ScanStaysInList
<1> QED BY <1>1, <1>2, <1>3, <1>4 DEF IInv

LEMMA InitInv == Init => IInv
BY AccountInitInv DEF Init

\* add_order: the new identifier is fresh, and it is listed before it can be
\* executed or refused.
LEMMA AddOrderStep ==
  ASSUME IInv, NEW request \in Requests, AddOrder(request)
  PROVE  IInv'
<1> DEFINE id == nextOrderNumber
           entered == With(openOrders, id, request)
<1> USE DEF IInv
<1>1. /\ id \in Ids
      /\ id \notin DOMAIN openOrders
      /\ nextOrderNumber' = id + 1
      /\ request.pair \in Pairs
  BY AccountAssumption, RequestTyping DEF AddOrder, Ids, TypeOK, OneFate
<1>2. /\ openOrders \in [DOMAIN openOrders -> Requests]
      /\ DOMAIN openOrders \subseteq Ids
      /\ DOMAIN openOrders \subseteq 1 .. id - 1
  BY DEF TypeOK, OneFate
<1>3. /\ DOMAIN entered = DOMAIN openOrders \cup {id}
      /\ entered \in [DOMAIN entered -> Requests]
      /\ entered[id] = request
      /\ \A k \in DOMAIN openOrders : entered[k] = openOrders[k]
      /\ Without(entered, id) = openOrders
  <2>1. /\ DOMAIN entered = DOMAIN openOrders \cup {id}
        /\ entered[id] = request
        /\ \A k \in DOMAIN openOrders : entered[k] = openOrders[k]
    BY <1>1, <1>2 DEF With
  <2>2. entered \in [DOMAIN entered -> Requests]
    BY <1>1, <1>2 DEF With
  <2>3. Without(entered, id) = openOrders
    BY <1>1, <1>2, <2>1 DEF Without
  <2> QED BY <2>1, <2>2, <2>3
<1>4. \/ Keep(id, request) \/ Execute(id, request) \/ Refuse(id, request)
      \/ UNCHANGED accountVars
  BY DEF AddOrder, SubscribeFails
<1>5. /\ DOMAIN balances' \subseteq Assets
      /\ balances' \in [DOMAIN balances' -> 0 .. VolumeRange - 1]
      /\ DOMAIN trailingOrderLimits' \subseteq Ids
      /\ trailingOrderLimits' \in [DOMAIN trailingOrderLimits' -> Prices]
      /\ closedOrders' \in Seq(ClosedOrder)
  <2>1. CASE UNCHANGED accountVars
    BY <2>1 DEF accountVars, TypeOK
  <2> QED BY <1>1, <1>4, <2>1, TryFillStep
<1>6. \/ /\ openOrders' = entered
         /\ closedOrders' = closedOrders
      \/ /\ openOrders' = openOrders
         /\ Len(closedOrders') = Len(closedOrders) + 1
         /\ closedOrders'[Len(closedOrders) + 1].id = id
         /\ \A i \in 1 .. Len(closedOrders) : closedOrders'[i] = closedOrders[i]
  <2>1. CASE Execute(id, request) /\ openOrders' = Without(entered, id)
    BY <1>1, <1>3, <2>1, TryFillStep
  <2>2. CASE (Keep(id, request) \/ Refuse(id, request)) /\ openOrders' = entered
    BY <2>2 DEF Keep, Refuse
  <2>3. CASE SubscribeFails(request) /\ openOrders' = entered
    BY <2>3 DEF SubscribeFails, accountVars
  <2> QED BY <2>1, <2>2, <2>3 DEF AddOrder
<1>7. /\ told' \in Seq(Answers)
      /\ Len(told') = Len(told) + 1
  <2>1. PICK answer \in Answers : told' = Append(told, answer)
    BY DEF AddOrder, Answers
  <2>2. told \in Seq(Answers)
    BY DEF TypeOK
  <2> QED BY <2>1, <2>2, AppendProperties
<1>8. openOrdersByPair' \in [Pairs -> Seq(Ids)]
  <2>1. openOrdersByPair[request.pair] \in Seq(Ids)
    BY <1>1 DEF TypeOK
  <2>2. Append(openOrdersByPair[request.pair], id) \in Seq(Ids)
    BY <1>1, <2>1, AppendProperties
  <2> QED BY <1>1, <2>2 DEF AddOrder, TypeOK
<1> HIDE DEF entered
<1>9. TypeOK'
  <2>1. /\ lastPrice' = lastPrice /\ updating' = updating /\ scan' = scan
        /\ aborted' = aborted
    BY DEF AddOrder
  <2>2. /\ DOMAIN openOrders' \subseteq Ids
        /\ openOrders' \in [DOMAIN openOrders' -> Requests]
    BY <1>1, <1>2, <1>3, <1>6
  <2>3. nextOrderNumber' \in 1 .. MaxOrders + 1
    BY <1>1, AccountAssumption DEF Ids
  <2> QED BY <1>5, <1>7, <1>8, <2>1, <2>2, <2>3 DEF TypeOK
<1>10. OneFate'
  <2>1. Len(told') = nextOrderNumber' - 1
    BY <1>1, <1>7 DEF OneFate, Ids
  <2>2. DOMAIN openOrders' \subseteq 1 .. nextOrderNumber' - 1
    BY <1>1, <1>2, <1>3, <1>6 DEF Ids
  <2>3. /\ closedOrders \in Seq(ClosedOrder)
        /\ DOMAIN closedOrders = 1 .. Len(closedOrders)
        /\ \A i \in 1 .. Len(closedOrders) :
             /\ closedOrders[i].id \in Ids
             /\ closedOrders[i].id < id
             /\ closedOrders[i].id \notin DOMAIN openOrders
             /\ \A j \in 1 .. Len(closedOrders) :
                  closedOrders[i].id = closedOrders[j].id => i = j
    <3>1. closedOrders \in Seq(ClosedOrder)
      BY DEF TypeOK
    <3>2. /\ DOMAIN closedOrders = 1 .. Len(closedOrders)
          /\ \A i \in 1 .. Len(closedOrders) : closedOrders[i] \in ClosedOrder
      BY <3>1, ElementOfSeq, LenProperties
    <3>3. \A i \in 1 .. Len(closedOrders) : closedOrders[i].id \in Ids
      BY <3>2 DEF ClosedOrder
    <3> QED BY <3>1, <3>2, <3>3 DEF OneFate
  <2>4. CASE openOrders' = entered /\ closedOrders' = closedOrders
    BY <1>1, <1>3, <2>1, <2>2, <2>3, <2>4, SMTT(30) DEF OneFate, Ids
  <2>5. CASE /\ openOrders' = openOrders
             /\ Len(closedOrders') = Len(closedOrders) + 1
             /\ closedOrders'[Len(closedOrders) + 1].id = id
             /\ \A i \in 1 .. Len(closedOrders) : closedOrders'[i] = closedOrders[i]
    <3>1. DOMAIN closedOrders' = 1 .. Len(closedOrders) + 1
      BY <1>5, <2>5, LenProperties
    <3>2. Len(closedOrders) \in Nat
      BY <2>3, LenProperties
    <3>3. ASSUME NEW i \in DOMAIN closedOrders'
          PROVE  /\ closedOrders'[i].id < id + 1
                 /\ closedOrders'[i].id \notin DOMAIN openOrders'
      BY <1>1, <2>3, <2>5, <3>1, <3>2 DEF Ids
    <3>4. ASSUME NEW i \in DOMAIN closedOrders', NEW j \in DOMAIN closedOrders',
                 closedOrders'[i].id = closedOrders'[j].id
          PROVE  i = j
      BY <1>1, <2>3, <2>5, <3>1, <3>2, <3>4 DEF Ids
    <3> QED BY <1>1, <2>1, <2>2, <3>3, <3>4 DEF OneFate
  <2> QED BY <1>6, <2>4, <2>5
<1>11. OpenOrdersAreListed'
  <2> SUFFICES ASSUME NEW p \in Pairs PROVE ListServesPair(p)'
    BY DEF OpenOrdersAreListed
  <2> DEFINE old == openOrdersByPair[p]
             list == openOrdersByPair'[p]
  <2>1. /\ old \in Seq(Ids)
        /\ \A i, j \in DOMAIN old : i < j => old[i] < old[j]
        /\ \A i \in DOMAIN old :
             /\ old[i] < id
             /\ old[i] \in DOMAIN openOrders => openOrders[old[i]].pair = p
        /\ \A k \in DOMAIN openOrders :
             openOrders[k].pair = p => \E i \in DOMAIN old : old[i] = k
    BY DEF OpenOrdersAreListed, ListServesPair, TypeOK
  <2>2. /\ \A i \in DOMAIN old : old[i] \in Ids
        /\ DOMAIN old = 1 .. Len(old)
        /\ Len(old) \in Nat
    BY <2>1, LenProperties
  <2>3. CASE p # request.pair
    <3>1. list = old
      BY <2>3 DEF AddOrder, TypeOK
    <3> HIDE DEF list, old
    <3>2. \A i \in DOMAIN list :
            /\ list[i] < nextOrderNumber'
            /\ list[i] \in DOMAIN openOrders' => openOrders'[list[i]].pair = p
      BY <1>1, <1>2, <1>3, <1>6, <2>1, <2>2, <3>1 DEF Ids
    <3>3. ASSUME NEW k \in DOMAIN openOrders', openOrders'[k].pair = p
          PROVE  \E i \in DOMAIN list : list[i] = k
      BY <1>1, <1>3, <1>6, <2>1, <2>2, <2>3, <3>1, <3>3
    <3>4. \A i, j \in DOMAIN list : i < j => list[i] < list[j]
      BY <2>1, <3>1
    <3> QED BY <3>2, <3>3, <3>4 DEF list, ListServesPair
  <2>4. CASE p = request.pair
    <3>1. list = Append(old, id)
      BY <1>1, <2>4 DEF AddOrder, TypeOK
    <3>2. /\ DOMAIN list = 1 .. Len(old) + 1
          /\ \A i \in 1 .. Len(old) : list[i] = old[i]
          /\ list[Len(old) + 1] = id
      BY <1>1, <2>1, <2>2, <3>1, AppendProperties, LenProperties
    <3> HIDE DEF list, old
    <3>3. \A i, j \in DOMAIN list : i < j => list[i] < list[j]
      BY <1>1, <2>1, <2>2, <3>2 DEF Ids
    <3>4. \A i \in DOMAIN list :
            /\ list[i] < nextOrderNumber'
            /\ list[i] \in DOMAIN openOrders' => openOrders'[list[i]].pair = p
      BY <1>1, <1>3, <1>6, <2>1, <2>2, <2>4, <3>2 DEF Ids
    <3>5. ASSUME NEW k \in DOMAIN openOrders', openOrders'[k].pair = p
          PROVE  \E i \in DOMAIN list : list[i] = k
      BY <1>1, <1>3, <1>6, <2>1, <2>2, <3>2, <3>5
    <3> QED BY <3>3, <3>4, <3>5 DEF list, ListServesPair
  <2> QED BY <2>3, <2>4
<1>12. ScanStaysInList'
  BY DEF AddOrder, MutexFree, ScanStaysInList
<1> QED BY <1>9, <1>10, <1>11, <1>12

\* cancel_order leaves the list of the pair alone: it only loses its claim to
\* hold open orders alone, which the invariant does not make.
LEMMA CancelOrderStep ==
  ASSUME IInv, NEW id \in Ids, CancelOrder(id)
  PROVE  IInv'
<1> USE DEF IInv
<1>1. /\ DOMAIN openOrders' = DOMAIN openOrders \ {id}
      /\ \A k \in DOMAIN openOrders' : openOrders'[k] = openOrders[k]
      /\ openOrders' \in [DOMAIN openOrders' -> Requests]
  BY DEF CancelOrder, Without, TypeOK
<1>2. /\ openOrdersByPair' = openOrdersByPair /\ nextOrderNumber' = nextOrderNumber
      /\ closedOrders' = closedOrders /\ scan' = scan /\ updating' = updating
      /\ told' = told
  BY DEF CancelOrder
<1>3. TypeOK'
  BY <1>1, <1>2 DEF CancelOrder, TypeOK
<1>4. OneFate'
  BY <1>1, <1>2 DEF OneFate
<1>5. OpenOrdersAreListed'
  BY <1>1, <1>2 DEF OpenOrdersAreListed, ListServesPair
<1>6. ScanStaysInList'
  BY <1>2 DEF ScanStaysInList
<1> QED BY <1>3, <1>4, <1>5, <1>6

LEMMA StoreTradeStep ==
  ASSUME IInv, NEW pair \in Pairs, NEW price \in Prices, StoreTrade(pair, price)
  PROVE  IInv'
<1> USE DEF IInv, StoreTrade
<1>1. TypeOK'
  BY DEF TypeOK
<1>2. OneFate'
  BY DEF OneFate
<1>3. OpenOrdersAreListed'
  BY DEF OpenOrdersAreListed, ListServesPair
<1>4. ScanStaysInList'
  BY AccountAssumption DEF ScanStaysInList
<1> QED BY <1>1, <1>2, <1>3, <1>4

LEMMA HandlerBeginsStep ==
  ASSUME IInv, HandlerBegins
  PROVE  IInv'
<1> USE DEF IInv, HandlerBegins
<1>1. updating \in Pairs /\ openOrdersByPair[updating] \in Seq(Ids)
  BY DEF TypeOK
<1>2. Len(openOrdersByPair[updating]) \in Nat
  BY <1>1, LenProperties
<1>3. TypeOK'
  BY <1>1, <1>2 DEF TypeOK
<1>4. OneFate'
  BY DEF OneFate
<1>5. OpenOrdersAreListed'
  BY DEF OpenOrdersAreListed, ListServesPair
<1>6. ScanStaysInList'
  BY <1>1, <1>2 DEF ScanStaysInList
<1> QED BY <1>3, <1>4, <1>5, <1>6

\* While the loop of the handler has something left, its iterator points to an
\* element of the list of the pair.
LEMMA ScanFacts ==
  ASSUME IInv, scan.left > 0
  PROVE  /\ scan # Idle
         /\ scan.pair \in Pairs
         /\ scan.left \in Nat /\ scan.index \in Nat \ {0}
         /\ openOrdersByPair[scan.pair] \in Seq(Ids)
         /\ Len(openOrdersByPair[scan.pair]) \in Nat
         /\ DOMAIN openOrdersByPair[scan.pair] = 1 .. Len(openOrdersByPair[scan.pair])
         /\ scan.index + scan.left = Len(openOrdersByPair[scan.pair]) + 1
         /\ scan.index \in 1 .. Len(openOrdersByPair[scan.pair])
         /\ ScannedId \in Ids
<1> USE DEF IInv
<1>1. scan # Idle
  BY DEF Idle
<1>2. /\ scan.pair \in Pairs
      /\ scan.index + scan.left = Len(openOrdersByPair[scan.pair]) + 1
  BY <1>1 DEF ScanStaysInList
<1>3. scan.left \in Nat /\ scan.index \in Nat \ {0}
  BY DEF TypeOK
<1>4. openOrdersByPair[scan.pair] \in Seq(Ids)
  BY <1>2 DEF TypeOK
<1>5. /\ Len(openOrdersByPair[scan.pair]) \in Nat
      /\ DOMAIN openOrdersByPair[scan.pair] = 1 .. Len(openOrdersByPair[scan.pair])
  BY <1>4, LenProperties
<1>6. scan.index \in 1 .. Len(openOrdersByPair[scan.pair])
  BY <1>2, <1>3, <1>5
<1>7. ScannedId \in Ids
  BY <1>4, <1>6, ElementOfSeq DEF ScannedId
<1> QED BY <1>1, <1>2, <1>3, <1>4, <1>5, <1>6, <1>7

\* Erasing the scanned id, when it is not or no longer open, keeps the lists
\* complete and in order, and the iterator on the next element.
LEMMA EraseScannedStep ==
  ASSUME IInv, scan.left > 0, EraseScanned,
         scan' = [scan EXCEPT !.left = @ - 1],
         updating' = updating,
         nextOrderNumber' = nextOrderNumber,
         DOMAIN openOrders' = DOMAIN openOrders \ {ScannedId},
         \A k \in DOMAIN openOrders' : openOrders'[k] = openOrders[k]
  PROVE  /\ openOrdersByPair' \in [Pairs -> Seq(Ids)]
         /\ scan' \in [pair : Pairs \cup {NoPair}, left : Nat, index : Nat \ {0}]
         /\ OpenOrdersAreListed'
         /\ ScanStaysInList'
<1> DEFINE old == openOrdersByPair[scan.pair]
           new == openOrdersByPair'[scan.pair]
<1>1. /\ scan.pair \in Pairs
      /\ old \in Seq(Ids) /\ Len(old) \in Nat /\ DOMAIN old = 1 .. Len(old)
      /\ scan.index \in 1 .. Len(old)
      /\ scan.index + scan.left = Len(old) + 1
      /\ scan.left \in Nat
      /\ ScannedId = old[scan.index]
  BY ScanFacts DEF ScannedId
<1>2. openOrdersByPair \in [Pairs -> Seq(Ids)]
  BY DEF IInv, TypeOK
<1>3. /\ new = RemoveAt(old, scan.index)
      /\ \A p \in Pairs \ {scan.pair} : openOrdersByPair'[p] = openOrdersByPair[p]
  BY <1>1, <1>2 DEF EraseScanned
<1>4. /\ new \in Seq(Ids)
      /\ Len(new) = Len(old) - 1
      /\ DOMAIN new = 1 .. Len(old) - 1
      /\ \A j \in 1 .. Len(old) - 1 :
           new[j] = IF j < scan.index THEN old[j] ELSE old[j + 1]
  <2> DEFINE cut == RemoveAt(old, scan.index)
  <2> HIDE DEF old
  <2>1. /\ cut \in Seq(Ids)
        /\ Len(cut) = Len(old) - 1
        /\ \A j \in 1 .. Len(old) - 1 :
             cut[j] = IF j < scan.index THEN old[j] ELSE old[j + 1]
    BY <1>1, RemoveAtFacts
  <2> HIDE DEF cut
  <2>2. DOMAIN cut = 1 .. Len(old) - 1
    BY <2>1, LenProperties
  <2>3. new = cut
    BY <1>3 DEF cut
  <2> QED BY <2>1, <2>2, <2>3
<1>5. openOrdersByPair' \in [Pairs -> Seq(Ids)]
  <2>1. RemoveAt(old, scan.index) \in Seq(Ids)
    BY <1>3, <1>4
  <2> QED BY <1>1, <1>2, <2>1 DEF EraseScanned
<1>6. /\ scan' \in [pair : Pairs \cup {NoPair}, left : Nat, index : Nat \ {0}]
      /\ scan'.pair = scan.pair /\ scan'.left = scan.left - 1
      /\ scan'.index = scan.index
  <2>1. scan \in [pair : Pairs \cup {NoPair}, left : Nat, index : Nat \ {0}]
    BY DEF IInv, TypeOK
  <2>2. scan.left - 1 \in Nat
    BY <1>1
  <2> QED BY <2>1, <2>2
<1>7. ScanStaysInList'
  <2>1. scan.pair = updating
    BY ScanFacts DEF IInv, ScanStaysInList
  <2>2. Len(new) = Len(old) - 1
    BY <1>4
  <2> HIDE DEF old, new
  <2>3. scan'.index + scan'.left = Len(new) + 1
    BY <1>1, <1>6, <2>2
  <2> QED BY <1>1, <1>6, <2>1, <2>3 DEF ScanStaysInList, new
<1>8. /\ \A i, j \in DOMAIN old : i < j => old[i] < old[j]
      /\ \A i \in DOMAIN old :
           /\ old[i] \in Ids
           /\ old[i] < nextOrderNumber
           /\ old[i] \in DOMAIN openOrders => openOrders[old[i]].pair = scan.pair
      /\ \A k \in DOMAIN openOrders :
           openOrders[k].pair = scan.pair => \E i \in DOMAIN old : old[i] = k
  <2>1. ListServesPair(scan.pair)
    BY <1>1 DEF IInv, OpenOrdersAreListed
  <2>2. \A i \in DOMAIN old : old[i] \in Ids
    BY <1>1, ElementOfSeq
  <2> QED BY <2>1, <2>2 DEF ListServesPair
<1>9. ASSUME NEW p \in Pairs
      PROVE  ListServesPair(p)'
  <2>1. CASE p = scan.pair
    <3> HIDE DEF old, new
    <3>1. ASSUME NEW i \in DOMAIN new, NEW j \in DOMAIN new, i < j
          PROVE  new[i] < new[j]
      <4>1. /\ i \in 1 .. Len(old) - 1 /\ j \in 1 .. Len(old) - 1
            /\ i \in DOMAIN old /\ j \in DOMAIN old
            /\ i + 1 \in DOMAIN old /\ j + 1 \in DOMAIN old
        BY <1>1, <1>4
      <4>2. \A m, n \in DOMAIN old : m < n => old[m] < old[n]
        BY <1>8
      <4>3. scan.index \in Nat
        BY <1>1
      <4>4. PICK m \in DOMAIN old : new[i] = old[m] /\ m = IF i < scan.index THEN i ELSE i + 1
        BY <1>4, <4>1
      <4>5. PICK n \in DOMAIN old : new[j] = old[n] /\ n = IF j < scan.index THEN j ELSE j + 1
        BY <1>4, <4>1
      <4>6. m < n
        BY <3>1, <4>1, <4>3, <4>4, <4>5
      <4> QED BY <4>2, <4>4, <4>5, <4>6
    <3>2. \A i \in DOMAIN new :
            /\ new[i] < nextOrderNumber'
            /\ new[i] \in DOMAIN openOrders' => openOrders'[new[i]].pair = p
      <4> SUFFICES ASSUME NEW i \in DOMAIN new
                   PROVE  /\ new[i] < nextOrderNumber'
                          /\ new[i] \in DOMAIN openOrders' => openOrders'[new[i]].pair = p
        OBVIOUS
      <4>1. /\ i \in 1 .. Len(old) - 1
            /\ i \in DOMAIN old /\ i + 1 \in DOMAIN old
        BY <1>1, <1>4
      <4>2. new[i] = old[i] \/ new[i] = old[i + 1]
        BY <1>4, <4>1
      <4>3. PICK m \in DOMAIN old : new[i] = old[m]
        BY <4>1, <4>2
      <4> QED BY <1>8, <2>1, <4>3
    <3>3. ASSUME NEW k \in DOMAIN openOrders', openOrders'[k].pair = p
          PROVE  \E i \in DOMAIN new : new[i] = k
      <4>1. k \in DOMAIN openOrders /\ k # ScannedId /\ openOrders[k].pair = p
        BY <3>3
      <4>2. PICK m \in DOMAIN old : old[m] = k
        BY <1>8, <2>1, <4>1
      <4>3. m # scan.index /\ m \in 1 .. Len(old)
        BY <1>1, <4>1, <4>2
      <4>4. CASE m < scan.index
        <5>1. m \in 1 .. Len(old) - 1
          BY <1>1, <4>3, <4>4
        <5> QED BY <1>4, <4>2, <4>4, <5>1
      <4>5. CASE m > scan.index
        <5>1. m - 1 \in 1 .. Len(old) - 1 /\ ~(m - 1 < scan.index) /\ (m - 1) + 1 = m
          BY <1>1, <4>3, <4>5
        <5>2. new[m - 1] = old[m]
          BY <1>4, <5>1
        <5> QED BY <1>4, <4>2, <5>1, <5>2
      <4> QED BY <1>1, <4>3, <4>4, <4>5
    <3>4. new = openOrdersByPair'[p]
      BY <2>1 DEF new
    <3> QED BY <3>1, <3>2, <3>3, <3>4 DEF ListServesPair
  <2>2. CASE p # scan.pair
    <3>1. ListServesPair(p)
      BY DEF IInv, OpenOrdersAreListed
    <3>2. openOrdersByPair'[p] = openOrdersByPair[p]
      BY <1>3, <2>2
    <3>3. ScannedId \in DOMAIN openOrders => openOrders[ScannedId].pair = scan.pair
      BY <1>1, <1>8
    <3> QED BY <2>2, <3>1, <3>2, <3>3 DEF ListServesPair
  <2> QED BY <2>1, <2>2
<1> QED BY <1>5, <1>6, <1>7, <1>9 DEF OpenOrdersAreListed

LEMMA HandlerDropsStaleIdStep ==
  ASSUME IInv, HandlerDropsStaleId
  PROVE  IInv'
<1> USE DEF IInv
<1>1. /\ openOrders' = openOrders /\ DOMAIN openOrders' = DOMAIN openOrders \ {ScannedId}
      /\ closedOrders' = closedOrders /\ nextOrderNumber' = nextOrderNumber
      /\ told' = told
  BY DEF HandlerDropsStaleId
<1>2. /\ openOrdersByPair' \in [Pairs -> Seq(Ids)]
      /\ scan' \in [pair : Pairs \cup {NoPair}, left : Nat, index : Nat \ {0}]
      /\ OpenOrdersAreListed'
      /\ ScanStaysInList'
  BY <1>1, EraseScannedStep DEF HandlerDropsStaleId
<1>3. TypeOK'
  BY <1>2 DEF HandlerDropsStaleId, TypeOK
<1>4. OneFate'
  BY <1>1 DEF OneFate
<1> QED BY <1>2, <1>3, <1>4

\* An execution in the loop: the order leaves _openOrders and its list for
\* _closedOrders, which did not hold it.
LEMMA HandlerFillsStep ==
  ASSUME IInv, HandlerFills
  PROVE  IInv'
<1> DEFINE id == ScannedId
           request == openOrders[ScannedId]
<1> USE DEF IInv
<1>1. /\ id \in Ids /\ id \in DOMAIN openOrders /\ request \in Requests
      /\ Execute(id, request)
  BY ScanFacts DEF HandlerFills, TypeOK
<1>2. /\ DOMAIN openOrders' = DOMAIN openOrders \ {id}
      /\ \A k \in DOMAIN openOrders' : openOrders'[k] = openOrders[k]
      /\ openOrders' \in [DOMAIN openOrders' -> Requests]
  BY DEF HandlerFills, Without, TypeOK
<1>3. /\ nextOrderNumber' = nextOrderNumber /\ updating' = updating
      /\ told' = told /\ lastPrice' = lastPrice /\ aborted' = aborted
  BY DEF HandlerFills
<1>4. /\ DOMAIN balances' \subseteq Assets
      /\ balances' \in [DOMAIN balances' -> 0 .. VolumeRange - 1]
      /\ DOMAIN trailingOrderLimits' \subseteq Ids
      /\ trailingOrderLimits' \in [DOMAIN trailingOrderLimits' -> Prices]
      /\ closedOrders' \in Seq(ClosedOrder)
      /\ Len(closedOrders') = Len(closedOrders) + 1
      /\ closedOrders'[Len(closedOrders) + 1].id = id
      /\ \A i \in 1 .. Len(closedOrders) : closedOrders'[i] = closedOrders[i]
  BY <1>1, TryFillStep
<1>5. /\ openOrdersByPair' \in [Pairs -> Seq(Ids)]
      /\ scan' \in [pair : Pairs \cup {NoPair}, left : Nat, index : Nat \ {0}]
      /\ OpenOrdersAreListed'
      /\ ScanStaysInList'
  BY <1>2, <1>3, EraseScannedStep DEF HandlerFills
<1>6. TypeOK'
  BY <1>2, <1>3, <1>4, <1>5 DEF TypeOK
<1>7. OneFate'
  <2>1. /\ closedOrders \in Seq(ClosedOrder)
        /\ DOMAIN closedOrders = 1 .. Len(closedOrders)
        /\ Len(closedOrders) \in Nat
        /\ DOMAIN closedOrders' = 1 .. Len(closedOrders) + 1
    BY <1>4, LenProperties DEF TypeOK
  <2>2. /\ id < nextOrderNumber
        /\ \A i \in 1 .. Len(closedOrders) :
             /\ closedOrders[i].id < nextOrderNumber
             /\ closedOrders[i].id \notin DOMAIN openOrders
             /\ \A j \in 1 .. Len(closedOrders) :
                  closedOrders[i].id = closedOrders[j].id => i = j
    BY <1>1, <2>1 DEF OneFate, TypeOK
  <2> HIDE DEF id
  <2>3. ASSUME NEW i \in DOMAIN closedOrders'
        PROVE  /\ closedOrders'[i].id < nextOrderNumber'
               /\ closedOrders'[i].id \notin DOMAIN openOrders'
    BY <1>2, <1>3, <1>4, <2>1, <2>2
  <2>4. ASSUME NEW i \in DOMAIN closedOrders', NEW j \in DOMAIN closedOrders',
               closedOrders'[i].id = closedOrders'[j].id
        PROVE  i = j
    BY <1>1, <1>4, <2>1, <2>2, <2>4
  <2>5. /\ Len(told') = nextOrderNumber' - 1
        /\ DOMAIN openOrders' \subseteq 1 .. nextOrderNumber' - 1
    BY <1>2, <1>3 DEF OneFate
  <2> QED BY <2>3, <2>4, <2>5 DEF OneFate
<1> QED BY <1>5, <1>6, <1>7

LEMMA HandlerKeepsStep ==
  ASSUME IInv, HandlerKeeps
  PROVE  IInv'
<1> DEFINE id == ScannedId
           request == openOrders[ScannedId]
<1> USE DEF IInv
<1>1. /\ id \in Ids /\ request \in Requests /\ Keep(id, request)
  BY ScanFacts DEF HandlerKeeps, TypeOK
<1>2. /\ nextOrderNumber' = nextOrderNumber /\ updating' = updating
      /\ told' = told /\ lastPrice' = lastPrice /\ aborted' = aborted
      /\ openOrders' = openOrders /\ openOrdersByPair' = openOrdersByPair
      /\ balances' = balances /\ closedOrders' = closedOrders
  BY <1>1 DEF HandlerKeeps, Keep
<1>3. /\ DOMAIN trailingOrderLimits' \subseteq Ids
      /\ trailingOrderLimits' \in [DOMAIN trailingOrderLimits' -> Prices]
  BY <1>1, TryFillStep
<1>4. /\ scan' \in [pair : Pairs \cup {NoPair}, left : Nat, index : Nat \ {0}]
      /\ scan'.pair = scan.pair /\ scan'.left = scan.left - 1
      /\ scan'.index = scan.index + 1
  <2>1. scan \in [pair : Pairs \cup {NoPair}, left : Nat, index : Nat \ {0}]
    BY DEF TypeOK
  <2>2. scan.left - 1 \in Nat /\ scan.index + 1 \in Nat \ {0}
    BY <2>1 DEF HandlerKeeps
  <2> QED BY <2>1, <2>2 DEF HandlerKeeps
<1>5. TypeOK'
  BY <1>2, <1>3, <1>4 DEF TypeOK
<1>6. OneFate'
  BY <1>2 DEF OneFate
<1>7. OpenOrdersAreListed'
  BY <1>2 DEF OpenOrdersAreListed, ListServesPair
<1>8. ScanStaysInList'
  <2>1. /\ scan.pair \in Pairs /\ scan.left \in Nat /\ scan.index \in Nat
        /\ scan.index + scan.left = Len(openOrdersByPair[scan.pair]) + 1
        /\ scan # Idle
    BY ScanFacts DEF HandlerKeeps
  <2>2. scan.pair = updating
    BY <2>1 DEF ScanStaysInList
  <2>3. scan'.index + scan'.left = Len(openOrdersByPair[scan.pair]) + 1
    BY <1>4, <2>1
  <2> QED BY <1>2, <1>4, <2>1, <2>2, <2>3 DEF ScanStaysInList
<1> QED BY <1>5, <1>6, <1>7, <1>8

LEMMA HandlerThrowsStep ==
  ASSUME IInv, HandlerThrows
  PROVE  IInv'
<1> USE DEF IInv
<1>1. /\ ScannedId \in Ids /\ openOrders[ScannedId] \in Requests
      /\ Refuse(ScannedId, openOrders[ScannedId])
  BY ScanFacts DEF HandlerThrows, TypeOK
<1>2. /\ DOMAIN trailingOrderLimits' \subseteq Ids
      /\ trailingOrderLimits' \in [DOMAIN trailingOrderLimits' -> Prices]
  BY <1>1, TryFillStep
<1>3. balances' = balances /\ closedOrders' = closedOrders
  BY <1>1 DEF Refuse
<1>4. TypeOK'
  BY <1>2, <1>3 DEF HandlerThrows, TypeOK, Idle
<1>5. OneFate'
  BY <1>3 DEF HandlerThrows, OneFate
<1>6. OpenOrdersAreListed'
  BY DEF HandlerThrows, OpenOrdersAreListed, ListServesPair
<1>7. ScanStaysInList'
  BY DEF HandlerThrows, ScanStaysInList, Idle
<1> QED BY <1>4, <1>5, <1>6, <1>7

LEMMA HandlerReturnsStep ==
  ASSUME IInv, HandlerReturns
  PROVE  IInv'
<1> USE DEF IInv, HandlerReturns
<1>1. TypeOK'
  BY DEF TypeOK, Idle
<1>2. OneFate'
  BY DEF OneFate
<1>3. OpenOrdersAreListed'
  BY DEF OpenOrdersAreListed, ListServesPair
<1>4. ScanStaysInList'
  BY DEF ScanStaysInList, Idle
<1> QED BY <1>1, <1>2, <1>3, <1>4

LEMMA NextInv == IInv /\ [Next]_vars => IInv'
<1> SUFFICES ASSUME IInv, [Next]_vars PROVE IInv'
  OBVIOUS
<1>1. ASSUME NEW request \in Requests, AddOrder(request) PROVE IInv'
  BY <1>1, AddOrderStep
<1>2. ASSUME NEW id \in Ids, CancelOrder(id) PROVE IInv'
  BY <1>2, CancelOrderStep
<1>3. ASSUME NEW pair \in Pairs, NEW price \in Prices, StoreTrade(pair, price) PROVE IInv'
  BY <1>3, StoreTradeStep
<1>4. CASE Handler
  BY <1>4, HandlerBeginsStep, HandlerDropsStaleIdStep, HandlerFillsStep,
     HandlerKeepsStep, HandlerThrowsStep, HandlerReturnsStep DEF Handler
<1>5. CASE UNCHANGED vars
  BY <1>5 DEF vars, IInv, TypeOK, OneFate, OpenOrdersAreListed, ListServesPair,
              ScanStaysInList
<1> QED BY <1>1, <1>2, <1>3, <1>4, <1>5 DEF Next

LEMMA Invariance == Spec => []IInv
BY InitInv, NextInv, PTL DEF Spec

\* The account's state keeps its types: in particular no balance ever leaves
\* the values of volume_t (has_sufficient_funds, execute_order).
THEOREM TypeCorrectness == Spec => []TypeOK
<1>1. IInv => TypeOK
  BY DEF IInv
<1> QED BY <1>1, Invariance, PTL

\* No order is executed twice, or executed and still open: execute_order and
\* the loop of trade_update_handler agree on the fate of every order.
THEOREM OrdersHaveOneFate == Spec => []OneFate
<1>1. IInv => OneFate
  BY DEF IInv
<1> QED BY <1>1, Invariance, PTL

\* The lazily cleaned _openOrdersByPair always lists every open order of a
\* pair once, in order of submission.
THEOREM ListsAreComplete == Spec => []OpenOrdersAreListed
<1>1. IInv => OpenOrdersAreListed
  BY DEF IInv
<1> QED BY <1>1, Invariance, PTL

\* The loop of trade_update_handler, which erases from the vector it walks,
\* never dereferences an iterator past its end and skips no element.
THEOREM ScanIsInBounds == Spec => []ScanStaysInList
<1>1. IInv => ScanStaysInList
  BY DEF IInv
<1> QED BY <1>1, Invariance, PTL

-----------------------------------------------------------------------------
(***************************************************************************)
(* paper_trade_api implements OrderLifecycle.                              *)
(***************************************************************************)
FilledIds == {closedOrders[i].id : i \in DOMAIN closedOrders}

\* What the ways out of try_fill_order do to the set of executed orders.
LEMMA FilledIdsStep ==
  ASSUME TypeOK, NEW id \in Ids, NEW request \in Requests
  PROVE  /\ Keep(id, request) \/ Refuse(id, request) => FilledIds' = FilledIds
         /\ Execute(id, request) => FilledIds' = FilledIds \cup {id}
<1>1. Keep(id, request) \/ Refuse(id, request) => FilledIds' = FilledIds
  BY DEF Keep, Refuse, FilledIds
<1>2. ASSUME Execute(id, request) PROVE FilledIds' = FilledIds \cup {id}
  <2>1. /\ closedOrders' \in Seq(ClosedOrder)
        /\ Len(closedOrders') = Len(closedOrders) + 1
        /\ closedOrders'[Len(closedOrders) + 1].id = id
        /\ \A i \in 1 .. Len(closedOrders) : closedOrders'[i] = closedOrders[i]
    BY <1>2, TryFillStep
  <2>2. /\ DOMAIN closedOrders = 1 .. Len(closedOrders)
        /\ Len(closedOrders) \in Nat
        /\ DOMAIN closedOrders' = 1 .. Len(closedOrders) + 1
    BY <2>1, LenProperties DEF TypeOK
  <2>3. ASSUME NEW k \in FilledIds' PROVE k \in FilledIds \cup {id}
    <3>1. PICK i \in DOMAIN closedOrders' : k = closedOrders'[i].id
      BY <2>3 DEF FilledIds
    <3>2. i \in 1 .. Len(closedOrders) \/ i = Len(closedOrders) + 1
      BY <2>2, <3>1
    <3> QED BY <2>1, <2>2, <3>1, <3>2 DEF FilledIds
  <2>4. ASSUME NEW k \in FilledIds PROVE k \in FilledIds'
    <3>1. PICK i \in DOMAIN closedOrders : k = closedOrders[i].id
      BY <2>4 DEF FilledIds
    <3>2. i \in DOMAIN closedOrders' /\ k = closedOrders'[i].id
      BY <2>1, <2>2, <3>1
    <3> QED BY <3>2 DEF FilledIds
  <2>5. id \in FilledIds'
    <3>1. Len(closedOrders) + 1 \in DOMAIN closedOrders'
      BY <2>2
    <3> QED BY <2>1, <3>1 DEF FilledIds
  <2> QED BY <2>3, <2>4, <2>5
<1> QED BY <1>1, <1>2

LEMMA LifecycleInitially == Init => Lifecycle!LifecycleInit
BY DEF Init, AccountInit, Lifecycle!LifecycleInit

LEMMA LifecycleStep ==
  IInv /\ [Next]_vars => [Lifecycle!LifecycleNext]_(Lifecycle!lifecycleVars)
<1> SUFFICES ASSUME IInv, [Next]_vars
             PROVE  Lifecycle!LifecycleNext \/ UNCHANGED Lifecycle!lifecycleVars
  OBVIOUS
<1> DEFINE open == DOMAIN openOrders
<1>0. /\ MaxOrders \in Nat
      /\ nextOrderNumber \in 1 .. MaxOrders + 1
      /\ TypeOK
  BY AccountAssumption DEF IInv, TypeOK
<1>1. ASSUME NEW request \in Requests, AddOrder(request)
      PROVE  Lifecycle!Submit \/ Lifecycle!SubmitAndFill
  <2> DEFINE id == nextOrderNumber
             entered == With(openOrders, id, request)
  <2>1. /\ id \in Ids /\ id = (id - 1) + 1 /\ id - 1 < MaxOrders
        /\ nextOrderNumber' - 1 = (id - 1) + 1
    BY <1>0, <1>1 DEF AddOrder, Ids
  <2>2. /\ DOMAIN entered = open \cup {id}
        /\ DOMAIN Without(entered, id) = open
    <3>1. DOMAIN entered = open \cup {id}
      BY DEF With
    <3>2. id \notin open
      BY <1>0 DEF IInv, OneFate
    <3> QED BY <3>1, <3>2 DEF Without
  <2>3. CASE Execute(id, request) /\ openOrders' = Without(entered, id)
    <3>1. FilledIds' = FilledIds \cup {id} /\ open' = open
      BY <1>0, <2>1, <2>2, <2>3, FilledIdsStep
    <3> QED BY <2>1, <3>1 DEF Lifecycle!SubmitAndFill, FilledIds
  <2>4. CASE /\ Keep(id, request) \/ Refuse(id, request) \/ SubscribeFails(request)
             /\ openOrders' = entered
    <3>1. FilledIds' = FilledIds
      <4>1. CASE SubscribeFails(request)
        BY <4>1 DEF SubscribeFails, accountVars, FilledIds
      <4> QED BY <1>0, <2>1, <2>4, <4>1, FilledIdsStep
    <3>2. open' = open \cup {id}
      BY <2>2, <2>4
    <3> QED BY <2>1, <3>1, <3>2 DEF Lifecycle!Submit, FilledIds
  <2> QED BY <1>1, <2>3, <2>4 DEF AddOrder
<1>2. ASSUME NEW id \in Ids, CancelOrder(id)
      PROVE  Lifecycle!Cancel(id)
  BY <1>2 DEF CancelOrder, Without, Lifecycle!Cancel
<1>3. ASSUME HandlerFills
      PROVE  \E id \in Ids : Lifecycle!FillOpen(id)
  <2>1. PICK id \in Ids : id = ScannedId
    BY <1>3, ScanFacts DEF HandlerFills
  <2>2. /\ id \in open /\ openOrders[id] \in Requests
        /\ Execute(id, openOrders[id])
        /\ nextOrderNumber' = nextOrderNumber
        /\ openOrders' = Without(openOrders, id)
    BY <1>3, <2>1 DEF HandlerFills, IInv, TypeOK
  <2>3. FilledIds' = FilledIds \cup {id}
    BY <1>0, <2>2, FilledIdsStep
  <2>4. open' = open \ {id}
    BY <2>2 DEF Without
  <2>5. Lifecycle!FillOpen(id)
    BY <2>2, <2>3, <2>4 DEF Lifecycle!FillOpen, FilledIds
  <2> QED BY <2>5
<1>4. ASSUME \/ \E pair \in Pairs, price \in Prices : StoreTrade(pair, price)
             \/ HandlerBegins \/ HandlerDropsStaleId \/ HandlerKeeps
             \/ HandlerThrows \/ HandlerReturns \/ UNCHANGED vars
      PROVE  UNCHANGED Lifecycle!lifecycleVars
  BY <1>4 DEF StoreTrade, HandlerBegins, HandlerDropsStaleId, HandlerKeeps, Keep,
              HandlerThrows, Refuse, HandlerReturns, vars, Lifecycle!lifecycleVars
<1>5. Lifecycle!Ids = Ids
  BY DEF Lifecycle!Ids, Ids
<1> QED BY <1>1, <1>2, <1>3, <1>4, <1>5 DEF Next, Handler, Lifecycle!LifecycleNext

\* Every behaviour of the account, seen through its identifiers, open and
\* closed orders, is a behaviour of OrderLifecycle: an id is handed out once,
\* and what was executed or cancelled never comes back.
THEOREM PaperTradingImplementsLifecycle == Spec => ImplementsLifecycle
BY LifecycleInitially, LifecycleStep, Invariance, PTL
   DEF Spec, ImplementsLifecycle, Lifecycle!LifecycleSpec

-----------------------------------------------------------------------------
(***************************************************************************)
(* What try_fill_order does to the limits.                                 *)
(***************************************************************************)
\* The price an open order was last compared with has no further effect on it: it
\* does not trigger the order, and a trailing limit has followed it.
Considered(id, request) ==
  /\ ~Triggered(id, request)
  /\ request.type = "TRAILING_STOP_LOSS" /\ lastPrice[request.pair] # 0
       => /\ id \in DOMAIN trailingOrderLimits
          /\ IF request.action = "BUY"
               THEN trailingOrderLimits[id] <= lastPrice[request.pair]
               ELSE trailingOrderLimits[id] >= lastPrice[request.pair]

\* try_fill_order changes the limit of its own order only.
LEMMA LimitsOfOthers ==
  ASSUME TypeOK, NEW id \in Ids, NEW request \in Requests,
         Keep(id, request) \/ Execute(id, request) \/ Refuse(id, request),
         NEW k, k # id
  PROVE  /\ k \in DOMAIN trailingOrderLimits' <=> k \in DOMAIN trailingOrderLimits
         /\ k \in DOMAIN trailingOrderLimits => trailingOrderLimits'[k] = trailingOrderLimits[k]
<1>1. trailingOrderLimits' = LimitsAfter(id, request)
  BY DEF Keep, Execute, Refuse
<1>2. \/ LimitsAfter(id, request) = trailingOrderLimits
      \/ LimitsAfter(id, request) = Without(trailingOrderLimits, id)
      \/ \E v : LimitsAfter(id, request) = With(trailingOrderLimits, id, v)
  BY DEF LimitsAfter
<1>3. CASE LimitsAfter(id, request) = trailingOrderLimits
  BY <1>1, <1>3
<1>4. CASE LimitsAfter(id, request) = Without(trailingOrderLimits, id)
  BY <1>1, <1>4 DEF Without
<1>5. ASSUME NEW v, LimitsAfter(id, request) = With(trailingOrderLimits, id, v)
      PROVE  /\ k \in DOMAIN trailingOrderLimits' <=> k \in DOMAIN trailingOrderLimits
             /\ k \in DOMAIN trailingOrderLimits => trailingOrderLimits'[k] = trailingOrderLimits[k]
  BY <1>1, <1>5 DEF With
<1> QED BY <1>2, <1>3, <1>4, <1>5

\* An order that try_fill_order leaves open has been compared with the price.
LEMMA KeepConsiders ==
  ASSUME TypeOK, NEW id \in Ids, NEW request \in Requests, Keep(id, request),
         lastPrice' = lastPrice
  PROVE  Considered(id, request)'
<1> DEFINE price == lastPrice[request.pair]
           extremum == TrailingExtremum(id, request, price)
<1>1. /\ ~Triggered(id, request)
      /\ trailingOrderLimits' = LimitsAfter(id, request)
  BY DEF Keep
<1>2. /\ price \in Nat
      /\ \A i \in DOMAIN trailingOrderLimits : trailingOrderLimits[i] \in Nat
  BY PriceTyping, AccountAssumption DEF TypeOK
<1>3. CASE request.type # "TRAILING_STOP_LOSS" \/ price = 0
  <2>1. CASE price = 0
    BY <2>1 DEF Considered, Triggered
  <2>2. CASE request.type # "TRAILING_STOP_LOSS"
    <3>1. request.type \in {"MARKET", "LIMIT", "STOP_LOSS"}
      BY <2>2, RequestTyping DEF OrderTypes
    <3>2. Triggered(id, request)' <=> Triggered(id, request)
      BY <3>1 DEF Triggered, CrossesLimit, CrossesStop
    <3> QED BY <1>1, <2>2, <3>2 DEF Considered
  <2> QED BY <1>3, <2>1, <2>2
<1>4. CASE request.type = "TRAILING_STOP_LOSS" /\ price # 0
  <2>1. trailingOrderLimits' = With(trailingOrderLimits, id, extremum)
    BY <1>1, <1>4 DEF LimitsAfter
  <2>2. id \in DOMAIN trailingOrderLimits' /\ trailingOrderLimits'[id] = extremum
    BY <2>1 DEF With
  <2>3. IF request.action = "BUY" THEN extremum <= price ELSE extremum >= price
    BY <1>2 DEF TrailingExtremum, Smaller, Larger
  <2>4. extremum \in Nat
    BY <1>2 DEF TrailingExtremum, Smaller, Larger
  <2>5. TrailingExtremum(id, request, price)' = extremum
    <3> HIDE DEF extremum, price
    <3>1. price' = price
      BY DEF price
    <3> QED BY <1>2, <2>2, <2>3, <2>4, <3>1 DEF TrailingExtremum, Smaller, Larger
  <2>6. ~CrossesTrail(id, request, price)
    BY <1>1, <1>4 DEF Triggered
  <2>7. ~CrossesTrail(id, request, price)'
    BY <2>5, <2>6 DEF CrossesTrail
  <2>8. ~Triggered(id, request)'
    BY <1>4, <2>7 DEF Triggered
  <2> QED BY <2>2, <2>3, <2>8 DEF Considered
<1> QED BY <1>3, <1>4

\* As long as the pair's price and the order's limit stay, so does that.
LEMMA ConsideredStays ==
  ASSUME TypeOK, NEW id \in Ids, NEW request \in Requests,
         Considered(id, request),
         lastPrice'[request.pair] = lastPrice[request.pair],
         id \in DOMAIN trailingOrderLimits' <=> id \in DOMAIN trailingOrderLimits,
         id \in DOMAIN trailingOrderLimits => trailingOrderLimits'[id] = trailingOrderLimits[id]
  PROVE  Considered(id, request)'
<1> DEFINE price == lastPrice[request.pair]
<1>1. TrailingExtremum(id, request, price)' = TrailingExtremum(id, request, price)
  BY DEF TrailingExtremum
<1>2. CrossesTrail(id, request, price)' = CrossesTrail(id, request, price)
  BY <1>1 DEF CrossesTrail
<1>3. Triggered(id, request)' = Triggered(id, request)
  BY <1>2 DEF Triggered, CrossesLimit, CrossesStop
<1> QED BY <1>3 DEF Considered

-----------------------------------------------------------------------------
(***************************************************************************)
(* Every open order of the pairs that are served has been compared with    *)
(* the last price of its pair, is about to be, or was refused for lack of  *)
(* funds.  With IInv this is inductive: a price is stored only when no     *)
(* handler runs, and the loop of the handler comes past every order the    *)
(* lists hold.  Live, every pair is served; in a back test those whose     *)
(* price has been notified.                                                *)
(***************************************************************************)
Reached(id) ==
  \/ told[id] = "INSUFFICIENT_FUNDS"
  \/ StillToVisit(id)
  \/ Considered(id, openOrders[id])

ReachedOn(served) ==
  ~aborted => \A id \in DOMAIN openOrders : openOrders[id].pair \in served => Reached(id)

PriceInv == ReachedOn(Pairs)

\* An order neither the strategy nor the handler deals with in a step.
LEMMA OrderLeftAlone ==
  ASSUME IInv, IInv', NEW id \in DOMAIN openOrders, Reached(id),
         id \in DOMAIN openOrders', openOrders'[id] = openOrders[id],
         told'[id] = told[id],
         StillToVisit(id) => StillToVisit(id)',
         lastPrice' = lastPrice,
         id \in DOMAIN trailingOrderLimits' <=> id \in DOMAIN trailingOrderLimits,
         id \in DOMAIN trailingOrderLimits => trailingOrderLimits'[id] = trailingOrderLimits[id]
  PROVE  Reached(id)'
<1>1. TypeOK /\ id \in Ids /\ openOrders[id] \in Requests
  BY DEF IInv, TypeOK
<1>2. Considered(id, openOrders[id]) => Considered(id, openOrders[id])'
  <2>1. ASSUME NEW request \in Requests, Considered(id, request) PROVE Considered(id, request)'
    BY <1>1, <2>1, ConsideredStays
  <2> QED BY <1>1, <2>1 DEF Considered, Triggered
<1> QED BY <1>2 DEF Reached

\* add_order compares the new order with the price, or refuses it; the mutex is
\* free, so the handler has all of its pair's orders before it, or none.
LEMMA AddOrderReaches ==
  ASSUME IInv, IInv', NEW served, ReachedOn(served),
         NEW request \in Requests, AddOrder(request)
  PROVE  ReachedOn(served)'
<1>0. PICK new \in Ids : new = nextOrderNumber
  BY DEF AddOrder, IInv, TypeOK, Ids
<1> DEFINE entered == With(openOrders, new, request)
<1>1. /\ TypeOK /\ new \notin DOMAIN openOrders
      /\ new = Len(told) + 1
      /\ told \in Seq(Answers)
      /\ ~aborted /\ scan = Idle
  <2>1. TypeOK /\ told \in Seq(Answers)
    BY DEF IInv, TypeOK
  <2>2. /\ Len(told) = new - 1 /\ new \in Nat
        /\ DOMAIN openOrders \subseteq 1 .. new - 1
    BY <1>0 DEF IInv, OneFate, Ids
  <2>3. ~aborted /\ scan = Idle
    BY DEF AddOrder, MutexFree
  <2> QED BY <2>1, <2>2, <2>3
<1>2. UNCHANGED <<lastPrice, updating, scan, aborted>>
  BY DEF AddOrder
<1>3. \E answer \in Answers : told' = Append(told, answer)
  BY DEF AddOrder, Answers
<1>4. \A k \in 1 .. Len(told) : told'[k] = told[k]
  BY <1>1, <1>3, AppendProperties
<1>5. DOMAIN openOrders \subseteq 1 .. Len(told)
  BY <1>1 DEF IInv, OneFate, TypeOK
<1>6. /\ DOMAIN entered = DOMAIN openOrders \cup {new}
      /\ entered[new] = request
      /\ \A k \in DOMAIN openOrders : entered[k] = openOrders[k]
  BY <1>1 DEF With
<1>7. /\ DOMAIN Without(entered, new) = DOMAIN openOrders
      /\ \A k \in DOMAIN openOrders : Without(entered, new)[k] = openOrders[k]
  BY <1>1, <1>6 DEF Without
<1> HIDE DEF entered
<1>8. openOrders' = entered \/ openOrders' = Without(entered, new)
  BY <1>0 DEF AddOrder, entered
<1>9. ASSUME NEW k \in DOMAIN openOrders, openOrders[k].pair \in served
      PROVE  Reached(k)'
  <2>1. k # new /\ k \in 1 .. Len(told)
    BY <1>1, <1>5
  <2>2. k \in DOMAIN openOrders' /\ openOrders'[k] = openOrders[k]
    BY <1>6, <1>7, <1>8
  <2>3. /\ k \in DOMAIN trailingOrderLimits' <=> k \in DOMAIN trailingOrderLimits
        /\ k \in DOMAIN trailingOrderLimits => trailingOrderLimits'[k] = trailingOrderLimits[k]
    <3>1. CASE UNCHANGED accountVars
      BY <3>1 DEF accountVars
    <3>2. CASE Keep(new, request) \/ Execute(new, request) \/ Refuse(new, request)
      BY <1>1, <2>1, <3>2, LimitsOfOthers
    <3> QED BY <1>0, <3>1, <3>2 DEF AddOrder, SubscribeFails
  <2>4. StillToVisit(k) => StillToVisit(k)'
    BY <1>1, <1>2, <2>2 DEF StillToVisit
  <2>5. Reached(k) /\ told'[k] = told[k]
    BY <1>1, <1>4, <1>9, <2>1 DEF ReachedOn
  <2> QED BY <1>2, <2>2, <2>3, <2>4, <2>5, OrderLeftAlone
<1>10. ASSUME new \in DOMAIN openOrders'
       PROVE  Reached(new)'
  <2>1. openOrders' = entered /\ openOrders'[new] = request
    BY <1>1, <1>6, <1>7, <1>8, <1>10
  <2>2. CASE Keep(new, request)
    <3>1. Considered(new, request)'
      BY <1>1, <1>2, <2>2, KeepConsiders
    <3> QED BY <2>1, <3>1 DEF Reached, Considered, Triggered
  <2>3. CASE told' = Append(told, "INSUFFICIENT_FUNDS")
    <3>1. told'[new] = "INSUFFICIENT_FUNDS"
      BY <1>1, <2>3, AppendProperties DEF Answers
    <3> QED BY <3>1 DEF Reached
  <2>4. CASE SubscribeFails(request)
    BY <1>2, <2>1, <2>4 DEF SubscribeFails, Reached, Considered, Triggered
  <2>5. ~(Execute(new, request) /\ openOrders' = Without(entered, new))
    BY <1>1, <1>7, <1>10
  <2> QED BY <1>0, <2>2, <2>3, <2>4, <2>5 DEF AddOrder, entered
<1>11. /\ DOMAIN openOrders' \subseteq DOMAIN openOrders \cup {new}
       /\ \A k \in DOMAIN openOrders : openOrders'[k] = openOrders[k]
  BY <1>6, <1>7, <1>8
<1> QED BY <1>9, <1>10, <1>11 DEF ReachedOn

LEMMA CancelOrderReaches ==
  ASSUME IInv, IInv', NEW served, ReachedOn(served),
         NEW id \in Ids, CancelOrder(id)
  PROVE  ReachedOn(served)'
<1>1. /\ UNCHANGED <<lastPrice, updating, scan, openOrdersByPair, trailingOrderLimits, aborted, told>>
      /\ DOMAIN openOrders' = DOMAIN openOrders \ {id}
      /\ \A k \in DOMAIN openOrders' : openOrders'[k] = openOrders[k]
  BY DEF CancelOrder, Without
<1>2. ASSUME NEW k \in DOMAIN openOrders', ~aborted, openOrders[k].pair \in served
      PROVE  Reached(k)'
  BY <1>1, <1>2, OrderLeftAlone DEF ReachedOn, StillToVisit
<1> QED BY <1>1, <1>2 DEF ReachedOn

\* update_trade: the orders of the pair are all before the handler now.
LEMMA StoreTradeReaches ==
  ASSUME IInv, IInv', NEW served, ReachedOn(served),
         NEW pair \in Pairs, NEW price \in Prices, StoreTrade(pair, price)
  PROVE  ReachedOn(served)'
<1>1. /\ updating = NoPair /\ updating' = pair /\ ~aborted
      /\ lastPrice' = [lastPrice EXCEPT ![pair] = price]
      /\ UNCHANGED <<scan, openOrders, openOrdersByPair, trailingOrderLimits, aborted, told>>
  BY DEF StoreTrade
<1>2. scan = Idle
  BY <1>1, AccountAssumption DEF IInv, ScanStaysInList, Idle
<1>3. ASSUME NEW k \in DOMAIN openOrders, openOrders[k].pair \in served
      PROVE  Reached(k)'
  <2>1. /\ TypeOK /\ k \in Ids /\ openOrders[k] \in Requests /\ openOrders[k].pair \in Pairs
    BY <1>3, RequestTyping DEF IInv, TypeOK
  <2>2. CASE openOrders[k].pair = pair
    BY <1>1, <1>2, <2>2 DEF Reached, StillToVisit
  <2>3. CASE openOrders[k].pair # pair
    <3>1. ~StillToVisit(k)
      BY <1>1, <2>1, AccountAssumption DEF StillToVisit
    <3>2. lastPrice'[openOrders[k].pair] = lastPrice[openOrders[k].pair]
      BY <1>1, <2>1, <2>3 DEF TypeOK
    <3>3. ASSUME NEW request \in Requests, Considered(k, request),
                 lastPrice'[request.pair] = lastPrice[request.pair]
          PROVE  Considered(k, request)'
      BY <1>1, <2>1, <3>3, ConsideredStays
    <3>4. Considered(k, openOrders[k]) => Considered(k, openOrders[k])'
      BY <1>1, <2>1, <3>2, <3>3 DEF Considered, Triggered
    <3> QED BY <1>1, <1>3, <3>1, <3>4 DEF ReachedOn, Reached
  <2> QED BY <2>2, <2>3
<1> QED BY <1>1, <1>3 DEF ReachedOn

\* The loop of the handler will come past every order the list holds.
LEMMA HandlerBeginsReaches ==
  ASSUME IInv, IInv', NEW served, ReachedOn(served), HandlerBegins
  PROVE  ReachedOn(served)'
<1>1. /\ updating # NoPair /\ scan'.index = 1 /\ ~aborted
      /\ UNCHANGED <<lastPrice, updating, openOrders, openOrdersByPair, trailingOrderLimits, aborted, told>>
  BY DEF HandlerBegins, MutexFree
<1>2. ASSUME NEW k \in DOMAIN openOrders, openOrders[k].pair \in served
      PROVE  Reached(k)'
  <2>1. StillToVisit(k) => StillToVisit(k)'
    <3> DEFINE list == openOrdersByPair[openOrders[k].pair]
    <3>1. openOrders[k].pair \in Pairs
      BY <1>2, RequestTyping DEF IInv, TypeOK
    <3>2. list \in Seq(Ids) /\ DOMAIN list = 1 .. Len(list)
      BY <3>1, LenProperties DEF IInv, TypeOK
    <3>3. \E i \in DOMAIN list : list[i] = k
      BY <1>2, <3>1 DEF IInv, OpenOrdersAreListed, ListServesPair
    <3> QED BY <1>1, <3>2, <3>3 DEF StillToVisit
  <2> QED BY <1>1, <1>2, <2>1, OrderLeftAlone DEF ReachedOn
<1> QED BY <1>1, <1>2 DEF ReachedOn

\* An order the loop has not come to is still before it when the iterator moves on
\* past another one, or that one is erased.
LEMMA StillBefore ==
  ASSUME IInv, IInv', scan.left > 0, NEW k \in DOMAIN openOrders, k # ScannedId,
         updating' = updating, openOrders'[k] = openOrders[k],
         \/ /\ EraseScanned
            /\ scan' = [scan EXCEPT !.left = @ - 1]
         \/ /\ openOrdersByPair' = openOrdersByPair
            /\ scan' = [scan EXCEPT !.left = @ - 1, !.index = @ + 1],
         StillToVisit(k)
  PROVE  StillToVisit(k)'
<1> DEFINE old == openOrdersByPair[scan.pair]
<1>1. /\ scan.pair \in Pairs /\ scan # Idle
      /\ old \in Seq(Ids) /\ Len(old) \in Nat
      /\ scan.index \in 1 .. Len(old)
      /\ ScannedId = old[scan.index]
      /\ openOrders[k].pair = scan.pair /\ updating = scan.pair
  BY ScanFacts DEF ScannedId, IInv, ScanStaysInList, StillToVisit
<1>2. PICK i \in scan.index .. Len(old) : old[i] = k
  BY <1>1 DEF StillToVisit
<1>3. i \in scan.index + 1 .. Len(old)
  BY <1>1, <1>2
<1>4. scan \in [pair : Pairs \cup {NoPair}, left : Nat, index : Nat \ {0}]
  BY DEF IInv, TypeOK
<1>5. CASE /\ openOrdersByPair' = openOrdersByPair
           /\ scan' = [scan EXCEPT !.left = @ - 1, !.index = @ + 1]
  <2>1. scan'.index = scan.index + 1
    BY <1>4, <1>5
  <2> QED BY <1>1, <1>2, <1>3, <1>5, <2>1 DEF StillToVisit
<1>6. CASE EraseScanned /\ scan' = [scan EXCEPT !.left = @ - 1]
  <2> DEFINE cut == RemoveAt(old, scan.index)
  <2>1. scan'.index = scan.index
    BY <1>4, <1>6
  <2>2. openOrdersByPair'[scan.pair] = cut
    BY <1>1, <1>6 DEF EraseScanned, IInv, TypeOK
  <2> HIDE DEF old
  <2>3. /\ Len(cut) = Len(old) - 1
        /\ \A j \in 1 .. Len(old) - 1 :
             cut[j] = IF j < scan.index THEN old[j] ELSE old[j + 1]
    BY <1>1, RemoveAtFacts
  <2> HIDE DEF cut
  <2>4. i - 1 \in scan.index .. Len(cut) /\ cut[i - 1] = k
    BY <1>1, <1>2, <1>3, <2>3
  <2> QED BY <1>1, <1>6, <2>1, <2>2, <2>4 DEF StillToVisit
<1> QED BY <1>5, <1>6

\* The loop deals with the scanned order, and with no other.
LEMMA LoopStepReaches ==
  ASSUME IInv, IInv', NEW served, ReachedOn(served),
         HandlerDropsStaleId \/ HandlerFills \/ HandlerKeeps
  PROVE  ReachedOn(served)'
<1> DEFINE request == openOrders[ScannedId]
<1>1. /\ scan.left > 0 /\ ScannedId \in Ids /\ TypeOK
      /\ UNCHANGED <<lastPrice, updating, aborted, told>>
  BY ScanFacts DEF HandlerDropsStaleId, HandlerFills, HandlerKeeps, IInv
<1>2. /\ DOMAIN openOrders' \subseteq DOMAIN openOrders
      /\ \A k \in DOMAIN openOrders' : openOrders'[k] = openOrders[k]
  BY DEF HandlerDropsStaleId, HandlerFills, HandlerKeeps, Without
<1>3. \/ EraseScanned /\ scan' = [scan EXCEPT !.left = @ - 1]
      \/ openOrdersByPair' = openOrdersByPair /\ scan' = [scan EXCEPT !.left = @ - 1, !.index = @ + 1]
  BY DEF HandlerDropsStaleId, HandlerFills, HandlerKeeps
<1>4. ScannedId \in DOMAIN openOrders => request \in Requests
  BY <1>1 DEF TypeOK
<1>5. ASSUME NEW k \in DOMAIN openOrders', k # ScannedId, ~aborted,
             openOrders[k].pair \in served
      PROVE  Reached(k)'
  <2>1. /\ k \in DOMAIN trailingOrderLimits' <=> k \in DOMAIN trailingOrderLimits
        /\ k \in DOMAIN trailingOrderLimits => trailingOrderLimits'[k] = trailingOrderLimits[k]
    <3>1. CASE HandlerDropsStaleId
      BY <3>1 DEF HandlerDropsStaleId
    <3>2. CASE HandlerFills \/ HandlerKeeps
      BY <1>1, <1>4, <1>5, <3>2, LimitsOfOthers DEF HandlerFills, HandlerKeeps
    <3> QED BY <3>1, <3>2
  <2>2. StillToVisit(k) => StillToVisit(k)'
    BY <1>1, <1>2, <1>3, <1>5, StillBefore
  <2> QED BY <1>1, <1>2, <1>5, <2>1, <2>2, OrderLeftAlone DEF ReachedOn
<1>6. ASSUME NEW k \in DOMAIN openOrders', k = ScannedId
      PROVE  Reached(k)'
  <2>1. HandlerKeeps
    BY <1>6 DEF HandlerDropsStaleId, HandlerFills, Without
  <2>2. PICK r \in Requests : r = request
    BY <1>2, <1>4, <1>6
  <2>3. Keep(k, r) /\ openOrders'[k] = r
    BY <1>2, <1>6, <2>1, <2>2 DEF HandlerKeeps
  <2>4. Considered(k, r)'
    BY <1>1, <1>6, <2>3, KeepConsiders
  <2> QED BY <2>3, <2>4 DEF Reached, Considered, Triggered
<1> QED BY <1>1, <1>2, <1>5, <1>6 DEF ReachedOn

\* When the loop is over, no order is left before it.
LEMMA HandlerReturnsReaches ==
  ASSUME IInv, IInv', NEW served, ReachedOn(served), HandlerReturns
  PROVE  ReachedOn(served)'
<1>1. /\ scan # Idle /\ scan.left = 0
      /\ UNCHANGED <<lastPrice, openOrders, openOrdersByPair, trailingOrderLimits, aborted, told>>
  BY DEF HandlerReturns
<1>2. ASSUME NEW k \in DOMAIN openOrders, ~aborted, openOrders[k].pair \in served
      PROVE  Reached(k)'
  <2>1. ~StillToVisit(k)
    <3>1. openOrders[k].pair \in Pairs
      BY <1>2, RequestTyping DEF IInv, TypeOK
    <3>2. Len(openOrdersByPair[openOrders[k].pair]) \in Nat
      BY <3>1, LenProperties DEF IInv, TypeOK
    <3>3. updating = openOrders[k].pair => scan.index = Len(openOrdersByPair[openOrders[k].pair]) + 1
      BY <1>1 DEF IInv, ScanStaysInList, TypeOK
    <3> QED BY <1>1, <3>2, <3>3 DEF StillToVisit
  <2> QED BY <1>1, <1>2, <2>1, OrderLeftAlone DEF ReachedOn
<1> QED BY <1>1, <1>2 DEF ReachedOn

LEMMA HandlerReaches ==
  ASSUME IInv, IInv', NEW served, ReachedOn(served), Handler
  PROVE  ReachedOn(served)'
<1>1. CASE HandlerThrows
  BY <1>1 DEF HandlerThrows, ReachedOn
<1> QED BY <1>1, HandlerBeginsReaches, LoopStepReaches, HandlerReturnsReaches DEF Handler

\* Nothing the account knows of changes.
LEMMA StutterReaches ==
  ASSUME IInv, IInv', NEW served, ReachedOn(served),
         UNCHANGED <<lastPrice, updating, scan, openOrders, openOrdersByPair,
                     trailingOrderLimits, told>>,
         aborted => aborted'
  PROVE  ReachedOn(served)'
<1>1. ASSUME NEW k \in DOMAIN openOrders, ~aborted, openOrders[k].pair \in served
      PROVE  Reached(k)'
  BY <1>1, OrderLeftAlone DEF ReachedOn, StillToVisit
<1> QED BY <1>1 DEF ReachedOn

LEMMA InitReaches == Init => PriceInv
BY DEF Init, AccountInit, PriceInv, ReachedOn

LEMMA NextReaches == IInv /\ PriceInv /\ [Next]_vars => PriceInv'
<1> SUFFICES ASSUME IInv, PriceInv, [Next]_vars PROVE PriceInv'
  OBVIOUS
<1> USE DEF PriceInv
<1>0. IInv'
  BY NextInv
<1>1. ASSUME NEW request \in Requests, AddOrder(request) PROVE PriceInv'
  BY <1>0, <1>1, AddOrderReaches
<1>2. ASSUME NEW id \in Ids, CancelOrder(id) PROVE PriceInv'
  BY <1>0, <1>2, CancelOrderReaches
<1>3. ASSUME NEW pair \in Pairs, NEW price \in Prices, StoreTrade(pair, price) PROVE PriceInv'
  BY <1>0, <1>3, StoreTradeReaches
<1>4. CASE Handler
  BY <1>0, <1>4, HandlerReaches
<1>5. CASE UNCHANGED vars
  BY <1>0, <1>5, StutterReaches DEF vars
<1> QED BY <1>1, <1>2, <1>3, <1>4, <1>5 DEF Next

LEMMA PriceInvMeaning ==
  ASSUME IInv, PriceInv, ~aborted, NEW id \in DOMAIN openOrders
  PROVE  Reached(id)
<1>1. openOrders[id].pair \in Pairs
  BY RequestTyping DEF IInv, TypeOK
<1> QED BY <1>1 DEF PriceInv, ReachedOn

LEMMA ReachesAlways == Spec => [](IInv /\ PriceInv)
BY InitInv, NextInv, InitReaches, NextReaches, PTL DEF Spec

\* Whatever the order in which prices, the handler's iterations and the strategy's
\* calls follow each other, an open order whose condition the last price meets
\* (try_fill_order) is still before the handler, or add_order refused it.
THEOREM NoExecutionIsMissed == Spec => []NoTriggeredOrderLeft
<1>1. IInv /\ PriceInv => NoTriggeredOrderLeft
  BY PriceInvMeaning DEF Reached, Considered, NoTriggeredOrderLeft
<1> QED BY <1>1, ReachesAlways, PTL

\* A trailing order the handler has come past has followed the last price
\* (the two branches of try_fill_order for trailing stop losses).
THEOREM TrailingLimitsFollowThePrice == Spec => []TrailingLimitIsCurrent
<1>1. IInv /\ PriceInv => TrailingLimitIsCurrent
  BY PriceInvMeaning DEF Reached, Considered, TrailingLimitIsCurrent
<1> QED BY <1>1, ReachesAlways, PTL

-----------------------------------------------------------------------------
(***************************************************************************)
(* The limit of an order that stays open moves one way.                    *)
(***************************************************************************)
\* try_fill_order, for the order itself.
LEMMA KeepRatchets ==
  ASSUME TypeOK, NEW id \in Ids, NEW request \in Requests, Keep(id, request),
         id \in DOMAIN trailingOrderLimits
  PROVE  /\ id \in DOMAIN trailingOrderLimits'
         /\ IF request.action = "BUY"
              THEN trailingOrderLimits'[id] <= trailingOrderLimits[id]
              ELSE trailingOrderLimits'[id] >= trailingOrderLimits[id]
<1> DEFINE price == lastPrice[request.pair]
<1>1. ~Triggered(id, request) /\ trailingOrderLimits' = LimitsAfter(id, request)
  BY DEF Keep
<1>2. price \in Nat /\ trailingOrderLimits[id] \in Nat
  BY PriceTyping, AccountAssumption DEF TypeOK
<1>3. CASE request.type # "TRAILING_STOP_LOSS" \/ price = 0
  BY <1>1, <1>2, <1>3 DEF LimitsAfter
<1>4. CASE request.type = "TRAILING_STOP_LOSS" /\ price # 0
  <2>1. trailingOrderLimits' = With(trailingOrderLimits, id, TrailingExtremum(id, request, price))
    BY <1>1, <1>4 DEF LimitsAfter
  <2>2. /\ id \in DOMAIN trailingOrderLimits'
        /\ trailingOrderLimits'[id] = TrailingExtremum(id, request, price)
    BY <2>1 DEF With
  <2> QED BY <1>2, <2>2 DEF TrailingExtremum, Smaller, Larger
<1> QED BY <1>3, <1>4

LEMMA RatchetStep ==
  ASSUME IInv, [Next]_vars, NEW id \in DOMAIN openOrders \cap DOMAIN trailingOrderLimits,
         id \in DOMAIN openOrders', ~aborted'
  PROVE  /\ id \in DOMAIN trailingOrderLimits'
         /\ IF openOrders[id].action = "BUY"
              THEN trailingOrderLimits'[id] <= trailingOrderLimits[id]
              ELSE trailingOrderLimits'[id] >= trailingOrderLimits[id]
<1>1. /\ TypeOK /\ id \in Ids /\ openOrders[id] \in Requests
      /\ trailingOrderLimits[id] \in Nat
  BY AccountAssumption DEF IInv, TypeOK
<1>2. CASE trailingOrderLimits' = trailingOrderLimits
  BY <1>1, <1>2
<1>3. ASSUME NEW k \in Ids, NEW request \in Requests, k # id,
             Keep(k, request) \/ Execute(k, request) \/ Refuse(k, request)
      PROVE  id \in DOMAIN trailingOrderLimits' /\ trailingOrderLimits'[id] = trailingOrderLimits[id]
  BY <1>1, <1>3, LimitsOfOthers
<1>4. ASSUME NEW request \in Requests, AddOrder(request)
      PROVE  \/ trailingOrderLimits' = trailingOrderLimits
             \/ id \in DOMAIN trailingOrderLimits' /\ trailingOrderLimits'[id] = trailingOrderLimits[id]
  <2>1. nextOrderNumber \in Ids /\ nextOrderNumber # id
    BY <1>1, <1>4 DEF AddOrder, IInv, OneFate, TypeOK, Ids
  <2>2. CASE Keep(nextOrderNumber, request) \/ Execute(nextOrderNumber, request)
             \/ Refuse(nextOrderNumber, request)
    BY <1>3, <2>1, <2>2
  <2>3. CASE SubscribeFails(request)
    BY <2>3 DEF SubscribeFails, accountVars
  <2> QED BY <1>4, <2>2, <2>3 DEF AddOrder
<1>5. ASSUME HandlerFills \/ HandlerKeeps, ScannedId # id
      PROVE  id \in DOMAIN trailingOrderLimits' /\ trailingOrderLimits'[id] = trailingOrderLimits[id]
  <2>1. ScannedId \in Ids /\ openOrders[ScannedId] \in Requests
    BY <1>1, <1>5, ScanFacts DEF HandlerFills, HandlerKeeps, TypeOK
  <2> QED BY <1>3, <1>5, <2>1 DEF HandlerFills, HandlerKeeps
<1>6. CASE HandlerKeeps /\ ScannedId = id
  BY <1>1, <1>6, KeepRatchets DEF HandlerKeeps
<1>7. ~(HandlerFills /\ ScannedId = id) /\ ~HandlerThrows
  BY DEF HandlerFills, HandlerThrows, Without
<1>8. \/ \E request \in Requests : AddOrder(request)
      \/ HandlerFills \/ HandlerKeeps
      \/ trailingOrderLimits' = trailingOrderLimits
  BY <1>7 DEF Next, Handler, CancelOrder, StoreTrade, HandlerBegins, HandlerDropsStaleId,
              HandlerReturns, vars
<1> QED BY <1>1, <1>2, <1>4, <1>5, <1>6, <1>7, <1>8

\* No call, price or loop of the handler moves a trailing limit against its order
\* or forgets it while the order stays open (_trailingOrderLimits).
THEOREM TrailingLimitsMoveOneWay == Spec => TrailingLimitRatchets
<1>1. IInv /\ [Next]_vars =>
        [\A id \in DOMAIN openOrders \cap DOMAIN trailingOrderLimits :
           id \in DOMAIN openOrders' /\ ~aborted' =>
             /\ id \in DOMAIN trailingOrderLimits'
             /\ IF openOrders[id].action = "BUY"
                  THEN trailingOrderLimits'[id] <= trailingOrderLimits[id]
                  ELSE trailingOrderLimits'[id] >= trailingOrderLimits[id]]_vars
  BY RatchetStep
<1> QED BY <1>1, Invariance, PTL DEF Spec, TrailingLimitRatchets
-----------------------------------------------------------------------------
(***************************************************************************)
(* The books: every balance is what the closed orders add up to.           *)
(***************************************************************************)
\* to_integer_volume never makes a negative volume of an order.
LEMMA VolumesAreNatural ==
  ASSUME NEW request \in Requests, NEW fillPrice \in Nat
  PROVE  GainVolume(request, fillPrice) \in Nat /\ SoldVolume(request, fillPrice) \in Nat
<1>1. /\ request.volume \in Nat
      /\ FeeDen \in Nat \ {0} /\ FeeDen - FeeNum \in Nat /\ FeeDen + FeeNum \in Nat
  BY RequestTyping, AccountAssumption
<1>2. Cost(request, fillPrice) \in Nat
  BY <1>1, NaturalProduct DEF Cost
<1>3. /\ Cost(request, fillPrice) * (FeeDen - FeeNum) \in Nat
      /\ Cost(request, fillPrice) * (FeeDen + FeeNum) \in Nat
  BY <1>1, <1>2, NaturalProduct
<1>4. /\ (Cost(request, fillPrice) * (FeeDen - FeeNum)) \div FeeDen \in Nat
      /\ (Cost(request, fillPrice) * (FeeDen + FeeNum)) \div FeeDen \in Nat
  BY <1>1, <1>3, NaturalQuotient
<1> QED BY <1>1, <1>4 DEF GainVolume, SoldVolume

LEMMA ExecutionTyping ==
  ASSUME NEW c \in ClosedOrder, NEW asset
  PROVE  /\ Gained(asset, c) \in Nat /\ Sold(asset, c) \in Nat
         /\ Gained(asset, c) - Sold(asset, c) \in Int
<1>1. c.request \in Requests /\ c.fillPrice \in Nat
  BY DEF ClosedOrder
<1>2. GainVolume(c.request, c.fillPrice) \in Nat /\ SoldVolume(c.request, c.fillPrice) \in Nat
  BY <1>1, VolumesAreNatural
<1> QED BY <1>2 DEF Gained, Sold

InitialHolding(asset) ==
  IF asset \in DOMAIN InitialBalances THEN InitialBalances[asset] ELSE 0

LEMMA InitialHoldingTyping ==
  ASSUME NEW asset PROVE InitialHolding(asset) \in 0 .. VolumeRange - 1
BY AccountAssumption DEF InitialHolding

\* The recursive definition of the net holdings has a solution: its values.
LEMMA NetHoldingsFacts ==
  ASSUME NEW asset, NEW s \in Seq(ClosedOrder)
  PROVE  LET Net == NetHoldings(asset, s)
         IN  /\ Net \in [0 .. Len(s) -> Int]
             /\ Net[0] = InitialHolding(asset)
             /\ \A n \in 1 .. Len(s) :
                  Net[n] = Net[n - 1] + Gained(asset, s[n]) - Sold(asset, s[n])
<1> DEFINE step == [c \in Int \X (1 .. Len(s)) |->
                      c[1] + Gained(asset, s[c[2]]) - Sold(asset, s[c[2]])]
           Net == NetHoldings(asset, s)
<1>1. /\ Len(s) \in Nat /\ InitialHolding(asset) \in Int
      /\ \A n \in 1 .. Len(s) : Gained(asset, s[n]) \in Int /\ Sold(asset, s[n]) \in Int
  <2>1. \A n \in 1 .. Len(s) : s[n] \in ClosedOrder
    OBVIOUS
  <2> QED BY <2>1, ExecutionTyping, InitialHoldingTyping, AccountAssumption
<1>2. step \in Steps(Int, Len(s))
  BY <1>1 DEF Steps
<1>3. \A v \in Int, n \in 1 .. Len(s) :
        step[<<v, n>>] = v + Gained(asset, s[n]) - Sold(asset, s[n])
  OBVIOUS
<1> HIDE DEF step
<1>4. PICK f : IsRecursion(f, Int, InitialHolding(asset), Len(s), step)
  BY <1>1, <1>2, PrimitiveRecursion
<1>5. f \in [0 .. Len(s) -> Int] /\ f[0] = InitialHolding(asset)
  BY <1>4 DEF IsRecursion
<1>6. ASSUME NEW n \in 1 .. Len(s)
      PROVE  f[n] = f[n - 1] + Gained(asset, s[n]) - Sold(asset, s[n])
  <2>1. f[n - 1] \in Int
    BY <1>1, <1>5
  <2>2. f[n] = step[<<f[n - 1], n>>]
    BY <1>4 DEF IsRecursion
  <2> QED BY <1>3, <2>1, <2>2
<1>7. f = [n \in 0 .. Len(s) |->
             IF n = 0 THEN InitialHolding(asset)
             ELSE f[n - 1] + Gained(asset, s[n]) - Sold(asset, s[n])]
  BY <1>1, <1>5, <1>6
<1>8. Net = [n \in 0 .. Len(s) |->
             IF n = 0 THEN InitialHolding(asset)
             ELSE Net[n - 1] + Gained(asset, s[n]) - Sold(asset, s[n])]
  BY <1>7, Zenon DEF NetHoldings, InitialHolding
<1> HIDE DEF Net
<1>9. /\ Net[0] = InitialHolding(asset)
      /\ \A n \in 1 .. Len(s) : Net[n] = Net[n - 1] + Gained(asset, s[n]) - Sold(asset, s[n])
  <2>1. \A n \in 0 .. Len(s) :
          Net[n] = IF n = 0 THEN InitialHolding(asset)
                   ELSE Net[n - 1] + Gained(asset, s[n]) - Sold(asset, s[n])
    BY <1>8, Zenon
  <2>2. 0 \in 0 .. Len(s) /\ \A n \in 1 .. Len(s) : n \in 0 .. Len(s) /\ n # 0
    BY <1>1
  <2> QED BY <2>1, <2>2, Zenon
<1> DEFINE Integral == {n \in 0 .. Len(s) : Net[n] \in Int}
<1>10. 0 \in Integral
  BY <1>1, <1>9
<1>11. ASSUME NEW n \in 1 .. Len(s), n - 1 \in Integral PROVE n \in Integral
  BY <1>1, <1>9, <1>11
<1> HIDE DEF Integral
<1>12. 0 .. Len(s) \subseteq Integral
  BY <1>1, <1>10, <1>11, SetInductionUpTo
<1>13. Net \in [0 .. Len(s) -> Int]
  BY <1>8, <1>12 DEF Integral
<1> QED BY <1>9, <1>13 DEF Net

\* One more execution.
LEMMA NetHoldingsAppended ==
  ASSUME NEW asset, NEW s \in Seq(ClosedOrder), NEW c \in ClosedOrder
  PROVE  /\ NetHoldings(asset, s)[Len(s)] \in Int
         /\ Len(Append(s, c)) = Len(s) + 1
         /\ NetHoldings(asset, Append(s, c))[Len(s) + 1]
              = NetHoldings(asset, s)[Len(s)] + Gained(asset, c) - Sold(asset, c)
<1> DEFINE t == Append(s, c)
           f == NetHoldings(asset, s)
           g == NetHoldings(asset, t)
           N == Len(s)
<1>1. /\ N \in Nat /\ t \in Seq(ClosedOrder) /\ Len(t) = N + 1
      /\ \A n \in 1 .. N : t[n] = s[n]
      /\ t[N + 1] = c
  BY AppendProperties
<1>2. /\ f \in [0 .. N -> Int] /\ f[0] = InitialHolding(asset)
      /\ \A n \in 1 .. N : f[n] = f[n - 1] + Gained(asset, s[n]) - Sold(asset, s[n])
  BY NetHoldingsFacts
<1>3. /\ g[0] = InitialHolding(asset)
      /\ \A n \in 1 .. Len(t) : g[n] = g[n - 1] + Gained(asset, t[n]) - Sold(asset, t[n])
  BY <1>1, NetHoldingsFacts
<1> HIDE DEF t, f, g, N
<1> DEFINE Equal == {n \in 0 .. N : f[n] = g[n]}
<1>4. 0 \in Equal
  BY <1>1, <1>2, <1>3
<1>5. ASSUME NEW n \in 1 .. N, n - 1 \in Equal
      PROVE  n \in Equal
  <2>1. n \in 1 .. Len(t) /\ t[n] = s[n]
    BY <1>1
  <2> QED BY <1>2, <1>3, <1>5, <2>1
<1> HIDE DEF Equal
<1>6. N \in Equal
  <2>1. 0 .. N \subseteq Equal
    BY <1>1, <1>4, <1>5, SetInductionUpTo
  <2> QED BY <1>1, <2>1
<1>7. f[N] = g[N] /\ f[N] \in Int
  BY <1>1, <1>2, <1>6 DEF Equal
<1>8. g[N + 1] = g[N] + Gained(asset, c) - Sold(asset, c)
  <2>1. N + 1 \in 1 .. Len(t) /\ (N + 1) - 1 = N
    BY <1>1
  <2> QED BY <1>1, <1>3, <2>1
<1> QED BY <1>1, <1>7, <1>8 DEF t, f, g, N

Held(held, asset) == IF asset \in DOMAIN held THEN held[asset] ELSE 0

\* execute_order on the balances: credit, then debit, modulo the width.
LEMMA SettledFacts ==
  ASSUME TypeOK, NEW request \in Requests, CanPay(request), NEW asset
  PROVE  LET gain == GainVolume(request, FillPrice(request))
             paid == SoldVolume(request, FillPrice(request))
             old == Held(balances, asset)
         IN  Held(Settled(balances, request, FillPrice(request)), asset)
               = IF asset = GainedAsset(request) THEN (old + gain) % VolumeRange
                 ELSE IF asset = SoldAsset(request) THEN (old - paid) % VolumeRange
                 ELSE old
<1> DEFINE gain == GainVolume(request, FillPrice(request))
           paid == SoldVolume(request, FillPrice(request))
           gained == GainedAsset(request)
           payer == SoldAsset(request)
           credited == With(balances, gained, (Held(balances, gained) + gain) % VolumeRange)
<1>1. gained # payer /\ payer \in DOMAIN balances
  BY RequestTyping DEF CanPay, HasSufficientFunds
<1>2. Settled(balances, request, FillPrice(request))
        = [credited EXCEPT ![payer] = (@ - paid) % VolumeRange]
  BY DEF Settled, Held
<1> HIDE DEF gain, paid, gained, payer
<1>3. /\ DOMAIN credited = DOMAIN balances \cup {gained}
      /\ credited[gained] = (Held(balances, gained) + gain) % VolumeRange
      /\ \A a \in DOMAIN balances : a # gained => credited[a] = balances[a]
  BY DEF With
<1> HIDE DEF credited
<1> DEFINE after == [credited EXCEPT ![payer] = (@ - paid) % VolumeRange]
<1>4. /\ DOMAIN after = DOMAIN balances \cup {gained}
      /\ after[gained] = (Held(balances, gained) + gain) % VolumeRange
      /\ after[payer] = (balances[payer] - paid) % VolumeRange
      /\ \A a \in DOMAIN balances : a # gained /\ a # payer => after[a] = balances[a]
  BY <1>1, <1>3
<1> HIDE DEF after
<1>5. Held(after, asset)
        = IF asset = gained THEN (Held(balances, asset) + gain) % VolumeRange
          ELSE IF asset = payer THEN (Held(balances, asset) - paid) % VolumeRange
          ELSE Held(balances, asset)
  BY <1>1, <1>4 DEF Held
<1> QED BY <1>2, <1>5 DEF after, gain, paid, gained, payer

\* An execution is recorded with what it gains and sells, and is paid for with
\* funds the account has.
LEMMA ExecutionKeepsBooks ==
  ASSUME TypeOK, LedgerMatchesClosedOrders, NEW id \in Ids, NEW request \in Requests,
         Execute(id, request)
  PROVE  LedgerMatchesClosedOrders'
<1> DEFINE price == FillPrice(request)
           c == [id |-> id, request |-> request, fillPrice |-> price]
           gain == GainVolume(request, price)
           paid == SoldVolume(request, price)
<1>1. /\ CanPay(request)
      /\ balances' = Settled(balances, request, price)
      /\ closedOrders' = Append(closedOrders, c)
  BY DEF Execute
<1>2. /\ price \in Nat /\ c \in ClosedOrder /\ gain \in Nat /\ paid \in Nat
      /\ closedOrders \in Seq(ClosedOrder)
      /\ GainedAsset(request) # SoldAsset(request)
      /\ VolumeRange \in Nat \ {0}
  BY PriceTyping, RequestTyping, VolumesAreNatural, AccountAssumption DEF ClosedOrder, TypeOK
<1>3. ASSUME NEW asset \in Assets
      PROVE  /\ NetHolding(asset)' >= 0
             /\ Held(balances, asset)' = NetHolding(asset)' % VolumeRange
  <2> DEFINE net == NetHolding(asset)
             old == Held(balances, asset)
  <2>1. /\ net \in Int
        /\ NetHolding(asset)' = net + Gained(asset, c) - Sold(asset, c)
    BY <1>1, <1>2, NetHoldingsAppended DEF NetHolding
  <2>2. net >= 0
    BY DEF LedgerMatchesClosedOrders
  <2>3. old = net % VolumeRange
    BY DEF LedgerMatchesClosedOrders, Held
  <2>4. Held(balances, asset)'
          = IF asset = GainedAsset(request) THEN (old + gain) % VolumeRange
            ELSE IF asset = SoldAsset(request) THEN (old - paid) % VolumeRange
            ELSE old
    <3>1. Held(balances', asset)
            = IF asset = GainedAsset(request) THEN (old + gain) % VolumeRange
              ELSE IF asset = SoldAsset(request) THEN (old - paid) % VolumeRange
              ELSE old
      BY <1>1, SettledFacts
    <3> QED BY <3>1 DEF Held
  <2>5. /\ Gained(asset, c) = IF asset = GainedAsset(request) THEN gain ELSE 0
        /\ Sold(asset, c) = IF asset = SoldAsset(request) THEN paid ELSE 0
    BY DEF Gained, Sold
  <2>6. asset = SoldAsset(request) => old >= paid
    BY <1>1 DEF CanPay, HasSufficientFunds, Held
  <2> HIDE DEF net, old, gain, paid, c
  <2>7. CASE asset = GainedAsset(request)
    <3>1. NetHolding(asset)' = net + gain
      BY <1>2, <2>1, <2>5, <2>7
    <3>2. Held(balances, asset)' = ((net % VolumeRange) + gain) % VolumeRange
      BY <2>3, <2>4, <2>7
    <3>3. ((net % VolumeRange) + gain) % VolumeRange = (net + gain) % VolumeRange
      <4>1. VolumeRange \in Nat \ {0} /\ net \in Int /\ gain \in Int
        BY <1>2, <2>1
      <4> QED BY <4>1, RemainderOfSum, Zenon
    <3>4. net + gain >= 0
      <4>1. net \in Int /\ net >= 0
        BY <2>1, <2>2
      <4>2. gain \in Nat
        BY <1>2
      <4> QED BY <4>1, <4>2
    <3> QED BY <3>1, <3>2, <3>3, <3>4
  <2>8. CASE asset = SoldAsset(request)
    <3>1. NetHolding(asset)' = net - paid
      BY <1>2, <2>1, <2>5, <2>8
    <3>2. Held(balances, asset)' = ((net % VolumeRange) - paid) % VolumeRange
      BY <1>2, <2>3, <2>4, <2>8
    <3>3. ((net % VolumeRange) - paid) % VolumeRange = (net - paid) % VolumeRange
      <4>1. VolumeRange \in Nat \ {0} /\ net \in Int /\ -paid \in Int /\ net % VolumeRange \in Int
        BY <1>2, <2>1
      <4>2. ((net % VolumeRange) + (-paid)) % VolumeRange = (net + (-paid)) % VolumeRange
        BY <4>1, RemainderOfSum, Zenon
      <4>3. (net % VolumeRange) + (-paid) = (net % VolumeRange) - paid /\ net + (-paid) = net - paid
        BY <1>2, <2>1, <4>1
      <4> QED BY <4>2, <4>3
    <3>4. net % VolumeRange <= net
      <4>1. net \in Nat
        BY <2>1, <2>2
      <4> QED BY <1>2, <4>1, RemainderIsAtMost
    <3>5. net - paid >= 0
      <4>1. net % VolumeRange \in Int /\ net % VolumeRange >= paid
        BY <1>2, <2>1, <2>3, <2>6, <2>8
      <4> QED BY <1>2, <2>1, <3>4, <4>1
    <3> QED BY <3>1, <3>2, <3>3, <3>5
  <2>9. CASE asset # GainedAsset(request) /\ asset # SoldAsset(request)
    <3>1. NetHolding(asset)' = net
      BY <2>1, <2>5, <2>9
    <3> QED BY <2>2, <2>3, <2>4, <2>9, <3>1
  <2> QED BY <2>7, <2>8, <2>9
<1> QED BY <1>3 DEF LedgerMatchesClosedOrders, Held

LEMMA LedgerInitially ==
  ASSUME AccountInit
  PROVE  LedgerMatchesClosedOrders
<1>1. balances = InitialBalances /\ closedOrders = <<>>
  BY DEF AccountInit
<1>2. <<>> \in Seq(ClosedOrder) /\ Len(<<>>) = 0
  OBVIOUS
<1>3. ASSUME NEW asset \in Assets
      PROVE  NetHolding(asset) = InitialHolding(asset)
  BY <1>1, <1>2, NetHoldingsFacts DEF NetHolding
<1>4. ASSUME NEW h \in 0 .. VolumeRange - 1
      PROVE  h >= 0 /\ h = h % VolumeRange
  BY AccountAssumption
<1>5. ASSUME NEW asset \in Assets
      PROVE  InitialHolding(asset) >= 0 /\ InitialHolding(asset) = InitialHolding(asset) % VolumeRange
  BY <1>4, InitialHoldingTyping
<1> QED BY <1>1, <1>3, <1>5 DEF LedgerMatchesClosedOrders, InitialHolding

\* Only an execution touches the books.
LEMMA LedgerStep ==
  ASSUME IInv, LedgerMatchesClosedOrders, [Next]_vars
  PROVE  LedgerMatchesClosedOrders'
<1>1. CASE UNCHANGED <<balances, closedOrders>>
  BY <1>1 DEF LedgerMatchesClosedOrders, NetHolding
<1>2. ASSUME NEW request \in Requests, AddOrder(request)
      PROVE  LedgerMatchesClosedOrders'
  <2>1. CASE Execute(nextOrderNumber, request)
    <3>1. nextOrderNumber \in Ids
      BY <1>2 DEF AddOrder, IInv, TypeOK, Ids
    <3> QED BY <2>1, <3>1, ExecutionKeepsBooks DEF IInv
  <2>2. CASE ~Execute(nextOrderNumber, request)
    BY <1>1, <1>2, <2>2 DEF AddOrder, Keep, Refuse, SubscribeFails, accountVars
  <2> QED BY <2>1, <2>2
<1>3. CASE HandlerFills
  <2>1. /\ ScannedId \in Ids /\ openOrders[ScannedId] \in Requests
        /\ Execute(ScannedId, openOrders[ScannedId])
    BY <1>3, ScanFacts DEF HandlerFills, IInv, TypeOK
  <2> QED BY <2>1, ExecutionKeepsBooks DEF IInv
<1>4. \/ \E request \in Requests : AddOrder(request)
      \/ HandlerFills
      \/ UNCHANGED <<balances, closedOrders>>
  BY DEF Next, Handler, CancelOrder, StoreTrade, HandlerBegins, HandlerDropsStaleId,
         HandlerKeeps, HandlerThrows, HandlerReturns, Keep, Refuse, vars
<1> QED BY <1>1, <1>2, <1>3, <1>4

\* Whatever is ordered, cancelled and filled, at any prices and with any fee: every
\* balance is the initial one plus the gains minus the payments of _closedOrders,
\* modulo the width of volume_t, and no execution spends what is not there
\* (execute_order, has_sufficient_funds).
THEOREM TheBooksBalance == Spec => []LedgerMatchesClosedOrders
<1>1. Init => LedgerMatchesClosedOrders
  BY LedgerInitially DEF Init
<1>2. IInv /\ LedgerMatchesClosedOrders /\ [Next]_vars => LedgerMatchesClosedOrders'
  BY LedgerStep
<1> QED BY <1>1, <1>2, InitInv, NextInv, PTL DEF Spec

-----------------------------------------------------------------------------
(***************************************************************************)
(* Back tests, for any files, times, pairs and orders.                     *)
(*                                                                         *)
(* The rows that are loaded have times at least a step apart, so that a    *)
(* step of time passes at most one candle of a pair and get_iterator,      *)
(* which resumes where it last stopped, finds the candle of the time.      *)
(* Prices are then a function of the data and the time: asking for one     *)
(* changes none.  With that, the account has its own invariant (IInv), and *)
(* the orders of the pairs that notify has come to are dealt with.         *)
(* Last, the loop of get_ohlcv: its two iterators walk back one window at  *)
(* a time, and each window is merged into the candle of its rows.          *)
(***************************************************************************)
-----------------------------------------------------------------------------
\* What the account's handler does to the open orders: it only removes.
LEMMA HandlerOnlyRemoves ==
  ASSUME Handler
  PROVE  /\ DOMAIN openOrders' \subseteq DOMAIN openOrders
         /\ \A id \in DOMAIN openOrders' : openOrders'[id] = openOrders[id]
<1>1. CASE HandlerFills
  BY <1>1 DEF HandlerFills, Without
<1>2. CASE ~HandlerFills
  <2>1. openOrders' = openOrders
    BY <1>2 DEF Handler, HandlerBegins, HandlerDropsStaleId, HandlerKeeps, HandlerThrows,
                HandlerReturns
  <2> QED BY <2>1
<1> QED BY <1>1, <1>2

\* A new order is the only one add_order adds.
LEMMA AddOrderAddsOne ==
  ASSUME NEW request \in Requests, AddOrder(request)
  PROVE  \A id \in DOMAIN openOrders' :
           \/ id \in DOMAIN openOrders /\ openOrders'[id] = openOrders[id]
           \/ openOrders'[id] = request
<1> DEFINE entered == With(openOrders, nextOrderNumber, request)
<1>1. \A id \in DOMAIN entered :
        \/ id \in DOMAIN openOrders /\ entered[id] = openOrders[id]
        \/ entered[id] = request
  BY DEF With
<1>2. openOrders' = entered \/ openOrders' = Without(entered, nextOrderNumber)
  BY DEF AddOrder
<1> HIDE DEF entered
<1>3. CASE openOrders' = entered
  BY <1>1, <1>3
<1>4. CASE openOrders' = Without(entered, nextOrderNumber)
  BY <1>1, <1>4 DEF Without
<1> QED BY <1>2, <1>3, <1>4

-----------------------------------------------------------------------------
\* An order's pair is subscribed when the order is added (add_order) and stays
\* so, since only Unsubscribe takes a subscription away.
LEMMA SubscribedStep ==
  ASSUME OpenOrdersAreSubscribed, [BackTestNext]_allVars
  PROVE  OpenOrdersAreSubscribed'
<1>1. CASE UNCHANGED <<openOrders, subscriptions>>
  BY <1>1 DEF OpenOrdersAreSubscribed
<1>2. ASSUME NEW request \in Requests, Order(request)
      PROVE  OpenOrdersAreSubscribed'
  <2>1. \A id \in DOMAIN openOrders' :
          \/ id \in DOMAIN openOrders /\ openOrders'[id] = openOrders[id]
          \/ openOrders'[id] = request
    BY <1>2, AddOrderAddsOne DEF Order
  <2>2. subscriptions' = subscriptions \cup {<<"TRADE", request.pair>>}
    BY <1>2 DEF Order
  <2> QED BY <2>1, <2>2 DEF OpenOrdersAreSubscribed
<1>3. CASE AccountHandler
  <2>1. subscriptions' = subscriptions
    BY <1>3 DEF AccountHandler, runVars
  <2>2. Handler
    BY <1>3 DEF AccountHandler
  <2> QED BY <2>1, <2>2, HandlerOnlyRemoves DEF OpenOrdersAreSubscribed
<1>4. ASSUME NEW id \in Ids, Cancel(id)
      PROVE  OpenOrdersAreSubscribed'
  <2>1. openOrders' = Without(openOrders, id) /\ subscriptions' = subscriptions
    BY <1>4 DEF Cancel, CancelOrder, runVars
  <2> QED BY <2>1 DEF OpenOrdersAreSubscribed, Without
<1>5. ASSUME NEW s \in Subscribable, Subscribe(s[1], s[2])
      PROVE  OpenOrdersAreSubscribed'
  <2>1. openOrders' = openOrders /\ subscriptions \subseteq subscriptions'
    BY <1>5 DEF Subscribe, vars
  <2> QED BY <2>1 DEF OpenOrdersAreSubscribed
<1>6. ASSUME NEW s \in Subscribable, Unsubscribe(s[1], s[2])
      PROVE  OpenOrdersAreSubscribed'
  <2>1. s = <<s[1], s[2]>>
    BY BackTestAssumption
  <2>2. openOrders' = openOrders /\ subscriptions' = subscriptions \ {s}
    BY <1>6, <2>1 DEF Unsubscribe, vars
  <2> QED BY <2>2 DEF OpenOrdersAreSubscribed
<1>7. ASSUME NEW p \in Pairs, NotifyTrade(p) \/ Ask(p)
      PROVE  UNCHANGED <<openOrders, subscriptions>>
  BY <1>7 DEF NotifyTrade, Ask, orderVars, vars, runVars
<1>8. ASSUME NEW s \in Subscribable, NotifyOther(s[1], s[2])
      PROVE  UNCHANGED <<openOrders, subscriptions>>
  BY <1>8 DEF NotifyOther, orderVars
<1>9. ASSUME RunIteration \/ IterationReturns \/ IterationThrows
      PROVE  UNCHANGED <<openOrders, subscriptions>>
  BY <1>9 DEF RunIteration, IterationReturns, IterationThrows, NextStep, orderVars, vars
<1>10. CASE UNCHANGED allVars
  BY <1>1, <1>10 DEF allVars, vars, runVars
<1> QED BY <1>1, <1>2, <1>3, <1>4, <1>5, <1>6, <1>7, <1>8, <1>9, <1>10 DEF BackTestNext

\* Every order is served from the next step on: the pair of an open order is
\* subscribed, whatever is ordered and in whichever phase of a step
\* (paper_trade_api::add_order, backtest_websocket_stream::subscribe).
THEOREM OrdersStaySubscribed == BackTestSpec => []OpenOrdersAreSubscribed
<1>1. BackTestInit => OpenOrdersAreSubscribed
  BY DEF BackTestInit, AccountInit, OpenOrdersAreSubscribed
<1>2. OpenOrdersAreSubscribed /\ [BackTestNext]_allVars => OpenOrdersAreSubscribed'
  BY SubscribedStep
<1> QED BY <1>1, <1>2, PTL DEF BackTestSpec

-----------------------------------------------------------------------------
(***************************************************************************)
(* What is loaded of a file.                                               *)
(***************************************************************************)
\* Times at least a step apart.
Spaced(d) == \A i, j \in DOMAIN d : i < j => d[j].time >= d[i].time + StepSize

\* The selections of a file's rows.
Selections(rows) ==
  {d \in Seq(Row) : Spaced(d) /\ \A i \in DOMAIN d : \E j \in DOMAIN rows : d[i] = rows[j]}

\* A row is appended only if its time is a step later than that of the last.
LEMMA SelectRowFacts ==
  ASSUME NEW rows \in Seq(Row), NEW kept \in Selections(rows), NEW j \in DOMAIN rows
  PROVE  SelectRow(kept, rows[j]) \in Selections(rows)
<1> DEFINE row == rows[j]
           N == Len(kept)
           more == Append(kept, row)
<1>1. /\ row \in Row /\ kept \in Seq(Row) /\ N \in Nat /\ DOMAIN kept = 1 .. N
      /\ StepSize \in Nat \ {0}
      /\ \A r \in Row : r.time \in Nat
  <2>1. \A r \in Row : r.time \in Nat
    BY DEF Row
  <2> QED BY <2>1, BackTestAssumption, LenProperties DEF Selections, DataAssumption
<1>2. CASE SelectRow(kept, row) = kept
  BY <1>2
<1>3. CASE SelectRow(kept, row) = more /\ (kept = <<>> \/ row.time >= kept[N].time + StepSize)
  <2>1. /\ more \in Seq(Row) /\ DOMAIN more = 1 .. N + 1
        /\ more[N + 1] = row
        /\ \A i \in 1 .. N : more[i] = kept[i]
    BY <1>1, AppendProperties
  <2> HIDE DEF more, N, row
  <2>2. ASSUME NEW i \in 1 .. N
        PROVE  row.time >= kept[i].time + StepSize
    <3>1. kept # <<>> /\ N \in 1 .. N
      BY <1>1 DEF N
    <3>2. i < N => kept[N].time >= kept[i].time + StepSize
      BY <1>1, <3>1 DEF Selections, Spaced
    <3>3. kept[i].time \in Nat /\ kept[N].time \in Nat /\ row.time \in Nat
      BY <1>1, <3>1
    <3> QED BY <1>1, <1>3, <3>1, <3>2, <3>3
  <2>3. Spaced(more)
    <3>1. ASSUME NEW i \in 1 .. N + 1, NEW k \in 1 .. N + 1, i < k
          PROVE  more[k].time >= more[i].time + StepSize
      <4>1. i \in 1 .. N /\ (k \in 1 .. N \/ k = N + 1)
        BY <1>1, <3>1
      <4> QED BY <1>1, <2>1, <2>2, <3>1, <4>1 DEF Selections, Spaced
    <3> QED BY <2>1, <3>1 DEF Spaced
  <2>4. ASSUME NEW i \in 1 .. N + 1
        PROVE  \E k \in DOMAIN rows : more[i] = rows[k]
    <3>1. i \in 1 .. N \/ i = N + 1
      BY <1>1
    <3> QED BY <1>1, <2>1, <3>1 DEF Selections, row
  <2>5. more \in Selections(rows)
    BY <2>1, <2>3, <2>4 DEF Selections
  <2> QED BY <1>3, <2>5 DEF row
<1>4. /\ row.time \in Nat
      /\ kept # <<>> => kept[N].time \in Nat
  <2>1. kept # <<>> => N \in 1 .. N
    BY <1>1
  <2> QED BY <1>1, <2>1
<1>5. \/ SelectRow(kept, row) = kept
      \/ SelectRow(kept, row) = more /\ (kept = <<>> \/ ~(row.time - kept[N].time < StepSize))
  BY DEF SelectRow
<1>6. kept # <<>> /\ ~(row.time - kept[N].time < StepSize) => row.time >= kept[N].time + StepSize
  <2> HIDE DEF row, N
  <2> QED BY <1>1, <1>4
<1> QED BY <1>2, <1>3, <1>5, <1>6

\* What is loaded is a selection of the rows, and something of a file with rows.
LEMMA LoadDataFacts ==
  ASSUME NEW rows \in Seq(Row)
  PROVE  /\ LoadData(rows) \in Selections(rows)
         /\ rows # <<>> => LoadData(rows) # <<>>
<1> DEFINE Kept[n \in 0 .. Len(rows)] ==
             IF n = 0 THEN <<>> ELSE SelectRow(Kept[n - 1], rows[n])
           S == Selections(rows)
           step == [c \in S \X (1 .. Len(rows)) |-> SelectRow(c[1], rows[c[2]])]
<1>1. Len(rows) \in Nat /\ <<>> \in S /\ DOMAIN rows = 1 .. Len(rows)
  BY DEF Selections, Spaced
<1>2. step \in Steps(S, Len(rows))
  BY <1>1, SelectRowFacts DEF Steps
<1>3. \A kept \in S, n \in 1 .. Len(rows) : step[<<kept, n>>] = SelectRow(kept, rows[n])
  OBVIOUS
<1> HIDE DEF S, step
<1>4. PICK f : IsRecursion(f, S, <<>>, Len(rows), step)
  BY <1>1, <1>2, PrimitiveRecursion
<1>5. f \in [0 .. Len(rows) -> S] /\ f[0] = <<>>
  BY <1>4 DEF IsRecursion
<1>6. ASSUME NEW n \in 1 .. Len(rows)
      PROVE  f[n] = SelectRow(f[n - 1], rows[n])
  <2>1. f[n - 1] \in S
    BY <1>1, <1>5
  <2>2. f[n] = step[<<f[n - 1], n>>]
    BY <1>4 DEF IsRecursion
  <2> QED BY <1>3, <2>1, <2>2
<1>7. f = [n \in 0 .. Len(rows) |-> IF n = 0 THEN <<>> ELSE SelectRow(f[n - 1], rows[n])]
  BY <1>1, <1>5, <1>6
<1>8. Kept = [n \in 0 .. Len(rows) |-> IF n = 0 THEN <<>> ELSE SelectRow(Kept[n - 1], rows[n])]
  BY <1>7, Zenon
<1>9. LoadData(rows) = Kept[Len(rows)]
  BY DEF LoadData
<1> HIDE DEF Kept
<1> DEFINE T == {n \in 0 .. Len(rows) : Kept[n] \in S}
<1>10. 0 \in T
  BY <1>1, <1>8
<1>11. ASSUME NEW n \in 1 .. Len(rows), n - 1 \in T
       PROVE  n \in T
  <2>1. Kept[n] = SelectRow(Kept[n - 1], rows[n])
    BY <1>1, <1>8
  <2> QED BY <1>1, <1>11, <2>1, SelectRowFacts DEF S
<1> HIDE DEF T
<1>12. 0 .. Len(rows) \subseteq T
  BY <1>1, <1>10, <1>11, SetInductionUpTo
<1>13. ASSUME rows # <<>>
       PROVE  Kept[Len(rows)] # <<>>
  <2>1. Len(rows) \in 1 .. Len(rows) /\ Len(rows) - 1 \in 0 .. Len(rows)
    BY <1>1, <1>13, EmptySeq
  <2>2. Kept[Len(rows) - 1] \in Seq(Row)
    BY <1>12, <2>1 DEF T, S, Selections
  <2>3. Kept[Len(rows)] = SelectRow(Kept[Len(rows) - 1], rows[Len(rows)])
    BY <1>8, <2>1
  <2>4. Append(Kept[Len(rows) - 1], rows[Len(rows)]) # <<>>
    BY <2>1, <2>2
  <2> QED BY <2>3, <2>4 DEF SelectRow
<1> QED BY <1>1, <1>9, <1>12, <1>13 DEF T, S


-----------------------------------------------------------------------------
(***************************************************************************)
(* get_iterator finds the candle that has begun last.                      *)
(***************************************************************************)
\* What Max and Min of a set are.
LEMMA MaxIs ==
  ASSUME NEW S, S \subseteq Int, NEW m \in S, \A y \in S : y <= m
  PROVE  Sets!Max(S) = m
<1> DEFINE P(x) == \A y \in S : x >= y
<1>1. P(m)
  OBVIOUS
<1>2. ASSUME NEW x \in S, P(x) PROVE x = m
  BY <1>2
<1> HIDE DEF P
<1>3. (CHOOSE x \in S : P(x)) = m
  BY <1>1, <1>2
<1> QED BY <1>3 DEF P, Sets!Max

LEMMA MinIs ==
  ASSUME NEW S, S \subseteq Int, NEW m \in S, \A y \in S : m <= y
  PROVE  Sets!Min(S) = m
<1> DEFINE P(x) == \A y \in S : x <= y
<1>1. P(m)
  OBVIOUS
<1>2. ASSUME NEW x \in S, P(x) PROVE x = m
  BY <1>2
<1> HIDE DEF P
<1>3. (CHOOSE x \in S : P(x)) = m
  BY <1>1, <1>2
<1> QED BY <1>3 DEF P, Sets!Min

\* Candles with times at least a step apart.
Candles == {d \in Seq(Row) : Spaced(d)}

\* Candles, spelled out.
LEMMA CandleFacts ==
  ASSUME NEW d \in Candles
  PROVE  /\ Len(d) \in Nat /\ DOMAIN d = 1 .. Len(d)
         /\ \A i \in 1 .. Len(d) : d[i] \in Row /\ d[i].time \in Nat
         /\ \A i, j \in 1 .. Len(d) : i < j => d[i].time + StepSize <= d[j].time
         /\ d = <<>> <=> Len(d) = 0
         /\ StepSize \in Nat \ {0}
<1>1. Len(d) \in Nat /\ DOMAIN d = 1 .. Len(d) /\ d \in Seq(Row)
  BY LenProperties DEF Candles
<1>2. \A i \in 1 .. Len(d) : d[i] \in Row /\ d[i].time \in Nat
  <2>1. \A r \in Row : r.time \in Nat
    BY DEF Row
  <2> QED BY <1>1, <2>1
<1>3. \A i, j \in 1 .. Len(d) : i < j => d[j].time >= d[i].time + StepSize
  BY <1>1 DEF Candles, Spaced
<1>4. StepSize \in Nat \ {0}
  BY BackTestAssumption DEF DataAssumption
<1>5. \A i, j \in 1 .. Len(d) : i < j => d[i].time + StepSize <= d[j].time
  BY <1>2, <1>3, <1>4
<1>6. d = <<>> <=> Len(d) = 0
  BY <1>1, EmptySeq
<1> QED BY <1>1, <1>2, <1>4, <1>5, <1>6

\* The candles that have begun are those up to LatestAt.
LEMMA LatestFacts ==
  ASSUME NEW d \in Candles, NEW time \in Nat
  PROVE  /\ LatestAt(d, time) \in 0 .. Len(d)
         /\ \A i \in 1 .. Len(d) : d[i].time <= time <=> i <= LatestAt(d, time)
<1> DEFINE begun == {0} \cup {i \in DOMAIN d : d[i].time <= time}
<1>1. begun \subseteq 0 .. Len(d) /\ begun # {} /\ Len(d) \in Nat
  BY CandleFacts
<1>2. PICK m \in begun : \A i \in begun : i <= m
  <2> HIDE DEF begun
  <2> QED BY <1>1, GreatestNatural
<1>3. LatestAt(d, time) = m
  <2>1. Sets!Max(begun) = m
    <3> HIDE DEF begun
    <3>1. begun \subseteq Int
      BY <1>1
    <3> QED BY <1>2, <3>1, MaxIs
  <2> QED BY <2>1 DEF LatestAt
<1>4. ASSUME NEW i \in 1 .. Len(d), i <= m
      PROVE  d[i].time <= time
  <2>1. m \in 1 .. Len(d) /\ d[m].time <= time
    BY <1>1, <1>2, <1>4, CandleFacts
  <2>2. i < m => d[i].time + StepSize <= d[m].time
    BY <2>1, CandleFacts
  <2>3. d[i].time \in Nat /\ d[m].time \in Nat /\ StepSize \in Nat
    BY <2>1, CandleFacts
  <2> QED BY <1>4, <2>1, <2>2, <2>3
<1>5. ASSUME NEW i \in 1 .. Len(d), d[i].time <= time
      PROVE  i <= m
  BY <1>2, <1>5, CandleFacts
<1> QED BY <1>1, <1>2, <1>3, <1>4, <1>5

\* The loop of get_iterator, from a candle that has begun.
LEMMA WalkFindsLatest ==
  ASSUME NEW d \in Candles, dataTime \in Nat, ~BeforeData(d), ~PastData(d),
         NEW from \in 1 .. LatestAt(d, dataTime)
  PROVE  Walk(d, from) = LatestAt(d, dataTime)
<1> DEFINE later == {i \in from .. Len(d) : d[i].time >= dataTime}
           latest == LatestAt(d, dataTime)
<1>1. /\ Len(d) \in Nat
      /\ \A i \in 1 .. Len(d) : d[i].time \in Nat
      /\ \A i, j \in 1 .. Len(d) : i < j => d[i].time + StepSize <= d[j].time
      /\ StepSize \in Nat \ {0}
  BY CandleFacts
<1>2. /\ latest \in 0 .. Len(d)
      /\ \A i \in 1 .. Len(d) : d[i].time <= dataTime <=> i <= latest
  BY LatestFacts
<1>3. Len(d) \in later
  <2>1. d # <<>> /\ d[Len(d)].time >= dataTime
    <3>1. ~(dataTime > d[Len(d)].time) /\ d # <<>>
      BY DEF BeforeData, PastData
    <3>2. Len(d) # 0
      BY <3>1, CandleFacts
    <3> QED BY <1>1, <3>1, <3>2
  <2>2. Len(d) # 0
    BY <2>1, CandleFacts
  <2> QED BY <1>1, <1>2, <2>1, <2>2
<1>4. PICK m \in later : \A i \in later : m <= i
  <2>1. later \subseteq Nat
    BY <1>1
  <2> HIDE DEF later
  <2> QED BY <1>3, <2>1, LeastNatural
<1>5. Sets!Min(later) = m
  <2>1. later \subseteq Int
    BY <1>1
  <2> HIDE DEF later
  <2> QED BY <1>4, <2>1, MinIs
<1>6. Walk(d, from) = IF d[m].time > dataTime THEN m - 1 ELSE m
  BY <1>5 DEF Walk
<1> HIDE DEF latest
<1>7. m \in from .. Len(d) /\ m \in 1 .. Len(d) /\ d[m].time >= dataTime
  BY <1>1, <1>2, <1>4
<1>8. CASE d[m].time > dataTime
  <2>1. ~(m <= latest)
    BY <1>1, <1>2, <1>7, <1>8
  <2>2. m - 1 \in from .. Len(d)
    BY <1>1, <1>2, <1>7, <2>1 DEF latest
  <2>3. ~(d[m - 1].time >= dataTime)
    BY <1>1, <1>4, <1>7, <2>2
  <2>4. m - 1 <= latest
    <3>1. m - 1 >= 1
      BY <1>7, <2>2
    <3>2. m - 1 \in 1 .. Len(d) /\ d[m - 1].time \in Nat
      BY <1>1, <1>7, <3>1
    <3>3. d[m - 1].time <= dataTime
      BY <2>3, <3>2
    <3> QED BY <1>2, <3>2, <3>3
  <2> QED BY <1>2, <1>6, <1>7, <1>8, <2>1, <2>4 DEF latest
<1>9. CASE ~(d[m].time > dataTime)
  <2>1. m <= latest
    BY <1>1, <1>2, <1>7, <1>9
  <2>2. ASSUME m < latest PROVE FALSE
    <3>1. latest \in 1 .. Len(d) /\ d[latest].time <= dataTime
      BY <1>1, <1>2, <1>7, <2>2
    <3>2. d[m].time + StepSize <= d[latest].time
      BY <1>1, <1>7, <2>2, <3>1
    <3> QED BY <1>1, <1>7, <3>1, <3>2
  <2> QED BY <1>2, <1>6, <1>7, <1>9, <2>1, <2>2 DEF latest
<1> QED BY <1>8, <1>9

\* The data loaded, the time and the cached iterators of a run.
DataInv ==
  /\ data \in [Pairs -> Candles]
  /\ \A p \in Pairs : \A i \in DOMAIN data[p] : {data[p][i].open, data[p][i].close} \subseteq Prices
  /\ dataTime \in Nat
  /\ iteratorCache \in [Pairs -> Nat]
  /\ \A p \in Pairs : iteratorCache[p] <= LatestAt(data[p], dataTime)

\* The cached iterator is never past the candle of the time, whatever was asked.
LEMMA GetIteratorFindsLatest ==
  ASSUME DataInv, NEW p \in Pairs
  PROVE  GetIterator(p) = LatestAt(data[p], dataTime)
<1> DEFINE d == data[p]
           latest == LatestAt(d, dataTime)
<1>1. d \in Candles /\ dataTime \in Nat
  BY DEF DataInv
<1>2. /\ Len(d) \in Nat
      /\ \A i \in 1 .. Len(d) : d[i].time \in Nat
      /\ d = <<>> <=> Len(d) = 0
  BY <1>1, CandleFacts
<1>3. /\ latest \in 0 .. Len(d)
      /\ \A i \in 1 .. Len(d) : d[i].time <= dataTime <=> i <= latest
  BY <1>1, LatestFacts
<1>4. CASE BeforeData(d)
  <2>1. GetIterator(p) = 0
    BY <1>4 DEF GetIterator
  <2>2. latest = 0
    <3>1. Len(d) # 0 => ~(d[1].time <= dataTime) /\ 1 \in 1 .. Len(d)
      BY <1>1, <1>2, <1>4 DEF BeforeData
    <3> HIDE DEF latest
    <3> QED BY <1>2, <1>3, <3>1
  <2> QED BY <2>1, <2>2
<1>5. CASE ~BeforeData(d) /\ PastData(d)
  <2>1. GetIterator(p) = Len(d)
    BY <1>5 DEF GetIterator
  <2>2. Len(d) \in 1 .. Len(d) /\ d[Len(d)].time <= dataTime
    BY <1>1, <1>2, <1>5 DEF BeforeData, PastData
  <2>3. latest = Len(d)
    <3> HIDE DEF latest
    <3> QED BY <1>2, <1>3, <2>2
  <2> QED BY <2>1, <2>3
<1>6. CASE ~BeforeData(d) /\ ~PastData(d)
  <2>1. GetIterator(p) = Walk(d, Later(1, iteratorCache[p]))
    BY <1>6 DEF GetIterator
  <2>2. latest >= 1
    <3>1. 1 \in 1 .. Len(d) /\ d[1].time <= dataTime
      BY <1>1, <1>2, <1>6 DEF BeforeData
    <3> HIDE DEF latest
    <3> QED BY <1>2, <1>3, <3>1
  <2>3. iteratorCache[p] \in Nat /\ iteratorCache[p] <= latest
    BY DEF DataInv
  <2>4. Later(1, iteratorCache[p]) \in 1 .. latest
    <3> HIDE DEF latest
    <3> QED BY <1>2, <1>3, <2>2, <2>3 DEF Later
  <2> QED BY <1>1, <1>6, <2>1, <2>4, WalkFindsLatest
<1> QED BY <1>4, <1>5, <1>6

\* A query leaves the iterator where it found the candle.
LEMMA QueryKeepsData ==
  ASSUME DataInv, NEW p \in Pairs, iteratorCache' = CacheAfter(p), UNCHANGED <<data, dataTime>>
  PROVE  DataInv'
<1>1. /\ GetIterator(p) = LatestAt(data[p], dataTime)
      /\ LatestAt(data[p], dataTime) \in Nat
  <2>1. data[p] \in Candles /\ dataTime \in Nat
    BY DEF DataInv
  <2>2. LatestAt(data[p], dataTime) \in 0 .. Len(data[p]) /\ Len(data[p]) \in Nat
    BY <2>1, LatestFacts, CandleFacts
  <2> QED BY <2>2, GetIteratorFindsLatest
<1>2. /\ iteratorCache' \in [Pairs -> Nat]
      /\ \A q \in Pairs : iteratorCache'[q] <= LatestAt(data[q], dataTime)
  <2>1. CASE iteratorCache' = iteratorCache
    BY <2>1 DEF DataInv
  <2>2. CASE iteratorCache' = [iteratorCache EXCEPT ![p] = GetIterator(p)]
    BY <1>1, <2>2 DEF DataInv
  <2> QED BY <2>1, <2>2 DEF CacheAfter
<1> QED BY <1>2 DEF DataInv

\* A step of time passes over at most one candle, and over none backwards.
LEMMA LatestStep ==
  ASSUME NEW d \in Candles, NEW time \in Nat
  PROVE  /\ LatestAt(d, time) <= LatestAt(d, time + StepSize)
         /\ LatestAt(d, time + StepSize) <= LatestAt(d, time) + 1
<1> DEFINE before == LatestAt(d, time)
           after == LatestAt(d, time + StepSize)
<1>1. /\ Len(d) \in Nat
      /\ \A i \in 1 .. Len(d) : d[i].time \in Nat
      /\ \A i, j \in 1 .. Len(d) : i < j => d[i].time + StepSize <= d[j].time
      /\ StepSize \in Nat \ {0}
  BY CandleFacts
<1>2. /\ before \in 0 .. Len(d)
      /\ \A i \in 1 .. Len(d) : d[i].time <= time <=> i <= before
  BY LatestFacts
<1>3. /\ after \in 0 .. Len(d)
      /\ \A i \in 1 .. Len(d) : d[i].time <= time + StepSize <=> i <= after
  <2>1. time + StepSize \in Nat
    BY <1>1
  <2> QED BY <2>1, LatestFacts
<1> HIDE DEF before, after
<1>4. before <= after
  <2>1. before \in 1 .. Len(d) => d[before].time <= time + StepSize
    BY <1>1, <1>2
  <2> QED BY <1>1, <1>2, <1>3, <2>1
<1>5. ASSUME after > before + 1 PROVE FALSE
  <2>1. before + 1 \in 1 .. Len(d) /\ after \in 1 .. Len(d)
    BY <1>1, <1>2, <1>3, <1>5
  <2>2. d[before + 1].time > time
    BY <1>1, <1>2, <2>1
  <2>3. d[before + 1].time + StepSize <= d[after].time
    BY <1>1, <1>5, <2>1
  <2>4. d[after].time <= time + StepSize
    BY <1>3, <2>1
  <2> QED BY <1>1, <2>1, <2>2, <2>3, <2>4
<1>6. after <= before + 1
  BY <1>1, <1>2, <1>3, <1>5
<1> QED BY <1>4, <1>6 DEF before, after

\* increment leaves the caches where they are: not past the later candle.
LEMMA IncrementKeepsData ==
  ASSUME DataInv, Increment
  PROVE  DataInv'
<1>1. StepSize \in Nat /\ dataTime \in Nat /\ dataTime' = dataTime + StepSize
  BY BackTestAssumption DEF DataInv, DataAssumption, Increment
<1>2. UNCHANGED <<data, iteratorCache>>
  BY DEF Increment
<1>3. ASSUME NEW p \in Pairs
      PROVE  iteratorCache[p] <= LatestAt(data[p], dataTime + StepSize)
  <2>1. /\ data[p] \in Candles /\ iteratorCache[p] \in Nat
        /\ iteratorCache[p] <= LatestAt(data[p], dataTime)
    BY DEF DataInv
  <2>2. LatestAt(data[p], dataTime) \in Nat /\ LatestAt(data[p], dataTime + StepSize) \in Nat
    <3>1. dataTime + StepSize \in Nat /\ Len(data[p]) \in Nat
      BY <1>1, <2>1, CandleFacts
    <3>2. /\ LatestAt(data[p], dataTime) \in 0 .. Len(data[p])
          /\ LatestAt(data[p], dataTime + StepSize) \in 0 .. Len(data[p])
      BY <1>1, <2>1, <3>1, LatestFacts
    <3> QED BY <3>1, <3>2
  <2>3. LatestAt(data[p], dataTime) <= LatestAt(data[p], dataTime + StepSize)
    BY <1>1, <2>1, LatestStep
  <2> QED BY <2>1, <2>2, <2>3
<1> QED BY <1>1, <1>2, <1>3 DEF DataInv

-----------------------------------------------------------------------------
(***************************************************************************)
(* What is loaded, and the prices that come of it.                         *)
(***************************************************************************)
LEMMA LoadedFile ==
  ASSUME NEW f \in Files, NEW p \in Pairs
  PROVE  /\ LoadData(f[p]) \in Candles
         /\ \A i \in DOMAIN LoadData(f[p]) :
              {LoadData(f[p])[i].open, LoadData(f[p])[i].close} \subseteq Prices
         /\ f[p] # <<>> => LoadData(f[p]) # <<>>
<1>1. f[p] \in Seq(Row)
  BY BackTestAssumption DEF DataAssumption
<1>2. /\ LoadData(f[p]) \in Selections(f[p])
      /\ f[p] # <<>> => LoadData(f[p]) # <<>>
  BY <1>1, LoadDataFacts
<1>3. \A i \in DOMAIN f[p] : {f[p][i].open, f[p][i].close} \subseteq Prices
  BY BackTestAssumption
<1> QED BY <1>2, <1>3 DEF Selections, Candles

\* The start of the configuration, or the earliest time of the data.
LEMMA StartTimeTyping ==
  ASSUME data \in [Pairs -> Candles], \E p \in Pairs : data[p] # <<>>
  PROVE  StartTime \in Nat
<1> DEFINE starts == {data[p][1].time : p \in Loaded}
<1>1. CASE ConfigStart # 0
  BY <1>1, BackTestAssumption DEF StartTime, DataAssumption
<1>2. CASE ConfigStart = 0
  <2>1. starts \subseteq Nat /\ starts # {}
    <3>1. ASSUME NEW p \in Loaded PROVE data[p][1].time \in Nat
      <4>1. data[p] \in Candles /\ data[p] # <<>>
        BY DEF Loaded
      <4>2. 1 \in 1 .. Len(data[p])
        BY <4>1, CandleFacts
      <4> QED BY <4>1, <4>2, CandleFacts
    <3>2. Loaded # {}
      BY DEF Loaded
    <3> QED BY <3>1, <3>2
  <2> HIDE DEF starts
  <2>2. PICK m \in starts : \A t \in starts : m <= t
    BY <2>1, LeastNatural
  <2>3. Sets!Min(starts) = m
    <3>1. starts \subseteq Int
      BY <2>1
    <3> QED BY <2>2, <3>1, MinIs
  <2>4. StartTime = Sets!Min(starts)
    BY <1>2 DEF StartTime, starts
  <2> QED BY <2>1, <2>3, <2>4
<1> QED BY <1>1, <1>2

\* The constructor: everything is loaded, nothing is cached.
LEMMA DataInitially ==
  ASSUME DataInit
  PROVE  DataInv
<1>1. PICK f \in Files : data = [p \in Pairs |-> LoadData(f[p])]
  BY DEF DataInit
<1>2. /\ data \in [Pairs -> Candles]
      /\ \A p \in Pairs : \A i \in DOMAIN data[p] :
           {data[p][i].open, data[p][i].close} \subseteq Prices
  BY <1>1, LoadedFile
<1>3. dataTime \in Nat
  <2>1. PICK p \in Pairs : f[p] # <<>>
    BY BackTestAssumption DEF DataAssumption
  <2>2. data[p] # <<>>
    BY <1>1, <2>1, LoadedFile
  <2> QED BY <1>2, <2>2, StartTimeTyping DEF DataInit
<1>4. iteratorCache = [p \in Pairs |-> 0]
  BY DEF DataInit
<1>5. ASSUME NEW p \in Pairs PROVE 0 <= LatestAt(data[p], dataTime)
  <2>1. /\ LatestAt(data[p], dataTime) \in 0 .. Len(data[p])
        /\ Len(data[p]) \in Nat
    BY <1>2, <1>3, LatestFacts, CandleFacts
  <2> QED BY <2>1
<1> QED BY <1>2, <1>3, <1>4, <1>5 DEF DataInv

\* The price of the time, without the cache.
PriceAt(p) ==
  LET d == data[p]
      it == LatestAt(d, dataTime)
  IN  IF it = 0 THEN 0
      ELSE IF it = Len(d) /\ dataTime > d[it].time THEN d[it].close
      ELSE d[it].open

PricesAt == [p \in Pairs |-> PriceAt(p)]

\* get_trade answers them.
PricesAnswered ==
  /\ PricesAt \in [Pairs -> Prices \cup {0}]
  /\ \A p \in Pairs : TradePrice(p) = PricesAt[p]

LEMMA TradePriceIsPriceAt == DataInv => PricesAnswered
<1> SUFFICES ASSUME DataInv PROVE PricesAnswered
  OBVIOUS
<1>1. ASSUME NEW p \in Pairs
      PROVE  TradePrice(p) = PriceAt(p) /\ PriceAt(p) \in Prices \cup {0}
  <2>1. GetIterator(p) = LatestAt(data[p], dataTime)
    BY GetIteratorFindsLatest
  <2>2. /\ LatestAt(data[p], dataTime) \in 0 .. Len(data[p])
        /\ DOMAIN data[p] = 1 .. Len(data[p]) /\ Len(data[p]) \in Nat
    BY LatestFacts, CandleFacts DEF DataInv
  <2>3. \A i \in DOMAIN data[p] : {data[p][i].open, data[p][i].close} \subseteq Prices
    BY DEF DataInv
  <2>4. TradePrice(p) = PriceAt(p)
    BY <2>1 DEF TradePrice, PriceAt
  <2>5. PriceAt(p) \in Prices \cup {0}
    BY <2>2, <2>3 DEF PriceAt
  <2> QED BY <2>4, <2>5
<1> QED BY <1>1 DEF PricesAt, PricesAnswered

LEMMA TradePriceIsPriceAtNext == DataInv' => PricesAnswered'
BY TradePriceIsPriceAt, PTL

-----------------------------------------------------------------------------
(***************************************************************************)
(* The invariant of a back test.  The account's own (IInv, that every id,  *)
(* list and iterator is in order) holds as it does live.  Prices are those *)
(* of the data at dataTime; only notify delivers them; and an order of a   *)
(* pair that notify has come to in this step has been compared with the    *)
(* price, or is about to be.                                               *)
(***************************************************************************)
NotifiedPairs == {p \in Pairs : <<"TRADE", p>> \in notified}

PhaseInv ==
  /\ phase \in {"notify", "strategy", "done"}
  /\ updating # NoPair => phase = "notify"
  /\ ReportedTradesAreInFile

BackTestInv ==
  /\ IInv
  /\ DataInv
  /\ lastPrice = PricesAt
  /\ PhaseInv
  /\ ReachedOn(NotifiedPairs)

LEMMA BackTestInitially == BackTestInit => BackTestInv
<1> SUFFICES ASSUME BackTestInit PROVE BackTestInv
  OBVIOUS
<1>1. DataInv
  BY DataInitially DEF BackTestInit
<1>2. lastPrice = PricesAt /\ lastPrice \in [Pairs -> Prices \cup {0}]
  BY <1>1, TradePriceIsPriceAt DEF BackTestInit, PricesAnswered, PricesAt
<1>3. IInv
  BY <1>2, AccountInitInv DEF BackTestInit
<1>4. PhaseInv
  BY DEF BackTestInit, AccountInit, PhaseInv, ReportedTradesAreInFile
<1>5. ReachedOn(NotifiedPairs)
  BY DEF BackTestInit, AccountInit, ReachedOn
<1> QED BY <1>1, <1>2, <1>3, <1>4, <1>5 DEF BackTestInv

\* A query changes neither the account nor the prices it would answer.
LEMMA QueriedFacts ==
  ASSUME DataInv, NEW p \in Pairs, Queried(p)
  PROVE  DataInv' /\ PricesAt' = PricesAt
BY QueryKeepsData DEF Queried, PricesAt, PriceAt

\* No handler runs when no price is being delivered.
LEMMA IdleWithoutPrice ==
  ASSUME IInv, updating = NoPair
  PROVE  scan = Idle
BY AccountAssumption DEF IInv, ScanStaysInList

\* The invariant of the account and what it says of the orders do not depend on
\* what else changes.
LEMMA AccountKept ==
  ASSUME IInv, NEW served, ReachedOn(served),
         UNCHANGED <<lastPrice, updating, orderVars>>, aborted' \in BOOLEAN, aborted => aborted'
  PROVE  IInv' /\ ReachedOn(served)'
<1>1. IInv'
  BY DEF IInv, TypeOK, OneFate, OpenOrdersAreListed, ListServesPair, ScanStaysInList, orderVars
<1> QED BY <1>1, StutterReaches DEF orderVars

\* A step that leaves account, prices and trades alone.
LEMMA QuietStep ==
  ASSUME BackTestInv, DataInv', PricesAt' = PricesAt,
         UNCHANGED <<lastPrice, updating, orderVars, flushed, thrown>>,
         aborted' \in BOOLEAN, aborted => aborted',
         NotifiedPairs' = NotifiedPairs,
         phase' = phase \/ (phase = "notify" /\ updating = NoPair /\ phase' = "strategy")
  PROVE  BackTestInv'
<1>1. PICK served : served = NotifiedPairs
  OBVIOUS
<1>2. ReachedOn(served)
  BY <1>1 DEF BackTestInv, ReachedOn
<1>3. IInv' /\ ReachedOn(served)'
  BY <1>2, AccountKept DEF BackTestInv
<1>4. ReachedOn(NotifiedPairs)'
  BY <1>1, <1>3 DEF ReachedOn
<1>5. PhaseInv'
  BY DEF BackTestInv, PhaseInv, ReportedTradesAreInFile, orderVars
<1> QED BY <1>3, <1>4, <1>5 DEF BackTestInv

\* A step of the account, in a phase of the run that is not its end.
LEMMA AccountStep ==
  ASSUME BackTestInv, DataInv', PricesAt' = PricesAt,
         UNCHANGED <<lastPrice, phase, notified, flushed, thrown>>,
         phase # "done", updating' # NoPair => updating = updating',
         \/ \E request \in Requests : AddOrder(request)
         \/ \E id \in Ids : CancelOrder(id)
         \/ Handler
  PROVE  BackTestInv'
<1>1. PICK served : served = NotifiedPairs
  OBVIOUS
<1>2. IInv /\ ReachedOn(served)
  BY <1>1 DEF BackTestInv, ReachedOn
<1>3. IInv'
  BY <1>2, NextInv DEF Next
<1>4. ReachedOn(served)'
  BY <1>2, <1>3, AddOrderReaches, CancelOrderReaches, HandlerReaches
<1>5. ReachedOn(NotifiedPairs)'
  BY <1>1, <1>4 DEF ReachedOn, NotifiedPairs
<1>6. PhaseInv'
  BY DEF BackTestInv, PhaseInv, ReportedTradesAreInFile
<1> QED BY <1>3, <1>5, <1>6 DEF BackTestInv

\* notify comes to a pair: the account's handler is to deal with its orders, and
\* what it did for the pairs before stands.
LEMMA NotifyTradeStep ==
  ASSUME BackTestInv, NEW p \in Pairs, NotifyTrade(p)
  PROVE  BackTestInv'
<1>1. /\ updating = NoPair /\ updating' = p /\ phase = "notify"
      /\ notified' = notified \cup {<<"TRADE", p>>}
      /\ UNCHANGED <<lastPrice, orderVars, aborted, phase, flushed, thrown>>
      /\ Queried(p)
  BY DEF NotifyTrade, Notifying
<1>2. DataInv' /\ PricesAt' = PricesAt
  BY <1>1, QueriedFacts DEF BackTestInv
<1>3. IInv /\ scan = Idle /\ TypeOK
  BY <1>1, IdleWithoutPrice DEF BackTestInv, IInv
<1>4. IInv'
  <2>1. TypeOK'
    BY <1>1, <1>3 DEF TypeOK, orderVars
  <2>2. OneFate' /\ OpenOrdersAreListed'
    BY <1>1, <1>3 DEF IInv, OneFate, OpenOrdersAreListed, ListServesPair, orderVars
  <2>3. ScanStaysInList'
    BY <1>1, <1>3 DEF ScanStaysInList, orderVars, Idle
  <2> QED BY <2>1, <2>2, <2>3 DEF IInv
<1>5. ASSUME NEW id \in DOMAIN openOrders, ~aborted, openOrders[id].pair \in NotifiedPairs'
      PROVE  Reached(id)'
  <2>1. id \in Ids /\ openOrders[id] \in Requests
    BY <1>3 DEF TypeOK
  <2>2. CASE openOrders[id].pair = p
    BY <1>1, <1>3, <2>2 DEF Reached, StillToVisit, orderVars
  <2>3. CASE openOrders[id].pair # p
    <3>1. openOrders[id].pair \in NotifiedPairs
      BY <1>1, <1>5, <2>3 DEF NotifiedPairs
    <3>2. Reached(id) /\ ~StillToVisit(id)
      BY <1>1, <1>5, <2>1, <3>1, RequestTyping, AccountAssumption
        DEF BackTestInv, ReachedOn, StillToVisit
    <3>3. Considered(id, openOrders[id]) => Considered(id, openOrders[id])'
      <4>1. ASSUME NEW request \in Requests, Considered(id, request) PROVE Considered(id, request)'
        BY <1>1, <1>3, <2>1, <4>1, ConsideredStays DEF orderVars
      <4> QED BY <1>1, <2>1, <4>1 DEF Considered, Triggered, orderVars
    <3> QED BY <1>1, <3>2, <3>3 DEF Reached, orderVars
  <2> QED BY <2>2, <2>3
<1>6. ReachedOn(NotifiedPairs)'
  BY <1>1, <1>5 DEF ReachedOn, orderVars
<1>7. PhaseInv'
  BY <1>1 DEF BackTestInv, PhaseInv, ReportedTradesAreInFile
<1> QED BY <1>1, <1>2, <1>4, <1>6, <1>7 DEF BackTestInv

\* The end of a step: new prices, and nobody has been notified of them yet.
LEMMA NextStepStep ==
  ASSUME BackTestInv, NextStep, phase = "strategy",
         flushed' = Len(closedOrders) \/ thrown'
  PROVE  BackTestInv'
<1>1. /\ updating = NoPair /\ updating' = NoPair
      /\ UNCHANGED <<orderVars, aborted>>
      /\ notified' = {}
      /\ phase' \in {"notify", "done"}
  BY DEF NextStep, BackTestInv, PhaseInv
<1>2. DataInv'
  BY IncrementKeepsData DEF NextStep, BackTestInv
<1>3. lastPrice' = PricesAt' /\ PricesAt' \in [Pairs -> Prices \cup {0}]
  <2>1. PricesAnswered'
    BY <1>2, TradePriceIsPriceAtNext
  <2>2. lastPrice' = [p \in Pairs |-> TradePrice(p)']
    BY DEF NextStep
  <2>3. \A p \in Pairs : TradePrice(p)' = PricesAt'[p]
    BY <2>1 DEF PricesAnswered
  <2> QED BY <2>1, <2>2, <2>3 DEF PricesAnswered, PricesAt
<1>4. IInv'
  <2>1. IInv
    BY DEF BackTestInv
  <2>2. TypeOK'
    BY <1>1, <1>3, <2>1 DEF IInv, TypeOK, orderVars
  <2> QED BY <1>1, <2>1, <2>2
        DEF IInv, OneFate, OpenOrdersAreListed, ListServesPair, ScanStaysInList, orderVars
<1>5. ReachedOn(NotifiedPairs)'
  BY <1>1 DEF ReachedOn, NotifiedPairs
<1>6. PhaseInv'
  BY <1>1 DEF PhaseInv, ReportedTradesAreInFile, orderVars
<1> QED BY <1>2, <1>3, <1>4, <1>5, <1>6 DEF BackTestInv

LEMMA BackTestStep == BackTestInv /\ [BackTestNext]_allVars => BackTestInv'
<1> SUFFICES ASSUME BackTestInv, [BackTestNext]_allVars PROVE BackTestInv'
  OBVIOUS
<1>0. DataInv /\ lastPrice = PricesAt /\ IInv /\ aborted \in BOOLEAN
  BY DEF BackTestInv, IInv, TypeOK
<1>1. ASSUME NEW p \in Pairs, NotifyTrade(p) PROVE BackTestInv'
  BY <1>1, NotifyTradeStep
<1>2. ASSUME NEW p \in Pairs, Ask(p) PROVE BackTestInv'
  <2>1. Queried(p) /\ UNCHANGED <<vars, runVars>>
    BY <1>2 DEF Ask, Query, Queried
  <2> QED BY <1>0, <2>1, QueriedFacts, QuietStep DEF vars, runVars, orderVars, NotifiedPairs
<1>3. ASSUME NEW s \in Subscribable, NotifyOther(s[1], s[2]) PROVE BackTestInv'
  <2>1. s[2] \in Pairs
    BY BackTestAssumption
  <2>2. /\ Queried(s[2]) /\ s[1] # "TRADE"
        /\ notified' = notified \cup {<<s[1], s[2]>>}
        /\ aborted' \in BOOLEAN /\ ~aborted
        /\ UNCHANGED <<lastPrice, updating, orderVars, phase, flushed, thrown>>
    BY <1>0, <1>3 DEF NotifyOther, Notifying
  <2>3. NotifiedPairs' = NotifiedPairs
    BY <2>2 DEF NotifiedPairs
  <2> QED BY <1>0, <2>1, <2>2, <2>3, QueriedFacts, QuietStep
<1>4. ASSUME NEW s \in Subscribable, Subscribe(s[1], s[2]) \/ Unsubscribe(s[1], s[2])
      PROVE  BackTestInv'
  <2>1. UNCHANGED <<vars, clockVars, phase, notified, flushed, thrown>>
    BY <1>4 DEF Subscribe, Unsubscribe
  <2>2. DataInv' /\ PricesAt' = PricesAt
    BY <1>0, <2>1 DEF clockVars, DataInv, PricesAt, PriceAt
  <2> QED BY <1>0, <2>1, <2>2, QuietStep DEF vars, orderVars, NotifiedPairs
<1>5. CASE RunIteration
  <2>1. /\ UNCHANGED <<vars, clockVars, notified, flushed, thrown>>
        /\ phase = "notify" /\ updating = NoPair /\ phase' = "strategy"
    BY <1>5 DEF RunIteration, Notifying
  <2>2. DataInv' /\ PricesAt' = PricesAt
    BY <1>0, <2>1 DEF clockVars, DataInv, PricesAt, PriceAt
  <2> QED BY <1>0, <2>1, <2>2, QuietStep DEF vars, orderVars, NotifiedPairs
<1>6. CASE AccountHandler
  <2>1. Handler /\ UNCHANGED <<clockVars, runVars>>
    BY <1>6 DEF AccountHandler
  <2>2. DataInv' /\ PricesAt' = PricesAt
    BY <1>0, <2>1 DEF clockVars, DataInv, PricesAt, PriceAt
  <2>3. updating # NoPair
    BY <1>0, <2>1, IdleWithoutPrice DEF Handler, HandlerBegins, HandlerDropsStaleId, HandlerFills,
         HandlerKeeps, HandlerThrows, HandlerReturns, Idle
  <2>4. UNCHANGED lastPrice /\ (updating' # NoPair => updating = updating')
    BY <2>1 DEF Handler, HandlerBegins, HandlerDropsStaleId, HandlerFills,
         HandlerKeeps, HandlerThrows, HandlerReturns
  <2>5. phase # "done"
    BY <2>3 DEF BackTestInv, PhaseInv
  <2> QED BY <2>1, <2>2, <2>4, <2>5, AccountStep DEF runVars
<1>7. ASSUME NEW request \in Requests, Order(request) PROVE BackTestInv'
  <2>1. /\ AddOrder(request) /\ Queried(request.pair)
        /\ UNCHANGED <<phase, notified, flushed, thrown>>
        /\ phase # "done"
    BY <1>7 DEF Order, InStrategy, InHandler, Notifying
  <2>2. UNCHANGED <<lastPrice, updating>>
    BY <2>1 DEF AddOrder
  <2>3. DataInv' /\ PricesAt' = PricesAt
    BY <1>0, <2>1, RequestTyping, QueriedFacts
  <2> QED BY <2>1, <2>2, <2>3, AccountStep
<1>8. ASSUME NEW id \in Ids, Cancel(id) PROVE BackTestInv'
  <2>1. CancelOrder(id) /\ UNCHANGED <<clockVars, runVars>> /\ phase # "done"
    BY <1>8 DEF Cancel, InStrategy, InHandler, Notifying
  <2>2. UNCHANGED <<lastPrice, updating>>
    BY <2>1 DEF CancelOrder
  <2>3. DataInv' /\ PricesAt' = PricesAt
    BY <1>0, <2>1 DEF clockVars, DataInv, PricesAt, PriceAt
  <2> QED BY <2>1, <2>2, <2>3, AccountStep DEF runVars
<1>9. CASE IterationReturns \/ IterationThrows
  <2>1. NextStep /\ phase = "strategy" /\ (flushed' = Len(closedOrders) \/ thrown')
    BY <1>9 DEF IterationReturns, IterationThrows, InStrategy
  <2> QED BY <2>1, NextStepStep
<1>10. CASE UNCHANGED allVars
  <2>1. UNCHANGED <<vars, clockVars, runVars>>
    BY <1>10 DEF allVars
  <2>2. DataInv' /\ PricesAt' = PricesAt
    BY <1>0, <2>1 DEF clockVars, DataInv, PricesAt, PriceAt
  <2> QED BY <1>0, <2>1, <2>2, QuietStep DEF vars, orderVars, runVars, NotifiedPairs
<1> QED BY <1>1, <1>2, <1>3, <1>4, <1>5, <1>6, <1>7, <1>8, <1>9, <1>10 DEF BackTestNext

LEMMA BackTestInvariance == BackTestSpec => []BackTestInv
BY BackTestInitially, BackTestStep, PTL DEF BackTestSpec

\* Whatever rows the files have and whatever was asked before, a query of the data
\* finds the candle that has begun last (get_iterator and its cache).
THEOREM CacheNeverRunsAhead == BackTestSpec => []IteratorIsLatest
<1>1. BackTestInv => IteratorIsLatest
  BY GetIteratorFindsLatest DEF BackTestInv, IteratorIsLatest
<1> QED BY <1>1, BackTestInvariance, PTL

\* When the strategy runs, the account trades at the prices the strategy is told,
\* and has dealt with every order that they trigger (notify before run_iteration).
THEOREM AccountFollowsTheData == BackTestSpec => []AccountIsUpToDate
<1>1. BackTestInv => AccountIsUpToDate
  <2> SUFFICES ASSUME BackTestInv, InStrategy PROVE AccountIsUpToDate
    BY DEF AccountIsUpToDate
  <2>1. \A p \in Pairs : lastPrice[p] = TradePrice(p)
    BY TradePriceIsPriceAt DEF BackTestInv, PricesAnswered
  <2>2. updating = NoPair /\ ~aborted
    BY DEF BackTestInv, PhaseInv, InStrategy
  <2>3. ASSUME NEW id \in DOMAIN openOrders, Triggered(id, openOrders[id]),
               <<"TRADE", openOrders[id].pair>> \in notified
        PROVE  told[id] = "INSUFFICIENT_FUNDS"
    <3>1. openOrders[id].pair \in Pairs
      BY <2>3, RequestTyping DEF BackTestInv, IInv, TypeOK
    <3>2. Reached(id)
      BY <2>2, <2>3, <3>1 DEF BackTestInv, ReachedOn, NotifiedPairs
    <3>3. ~StillToVisit(id)
      BY <2>2, <3>1, AccountAssumption DEF StillToVisit
    <3> QED BY <2>3, <3>2, <3>3 DEF Reached, Considered
  <2> QED BY <2>1, <2>3 DEF AccountIsUpToDate
<1> QED BY <1>1, BackTestInvariance, PTL

\* Every trade of the report is in the file when the run is over, unless the last
\* iteration of the strategy threw (flush_trades, run_iteration).
THEOREM FileHoldsTheTrades == BackTestSpec => []ReportedTradesAreInFile
<1>1. BackTestInv => ReportedTradesAreInFile
  BY DEF BackTestInv, PhaseInv
<1> QED BY <1>1, BackTestInvariance, PTL

\* The data changes with the clock only, and a step of the clock passes at most one
\* candle of any pair (data_factory's steps, ohlcv_data_selector).
LEMMA ClockStep ==
  ASSUME BackTestInv, [BackTestNext]_allVars, NEW p \in Pairs
  PROVE  LatestAt(data'[p], dataTime') <= LatestAt(data[p], dataTime) + 1
<1>1. data[p] \in Candles /\ dataTime \in Nat /\ LatestAt(data[p], dataTime) \in Nat
  <2>1. data[p] \in Candles /\ dataTime \in Nat
    BY DEF BackTestInv, DataInv
  <2>2. LatestAt(data[p], dataTime) \in 0 .. Len(data[p]) /\ Len(data[p]) \in Nat
    BY <2>1, LatestFacts, CandleFacts
  <2> QED BY <2>1, <2>2
<1>2. CASE UNCHANGED <<data, dataTime>>
  BY <1>1, <1>2
<1>3. CASE dataTime' = dataTime + StepSize /\ UNCHANGED data
  BY <1>1, <1>3, LatestStep
<1>4. UNCHANGED <<data, dataTime>> \/ (dataTime' = dataTime + StepSize /\ UNCHANGED data)
  BY DEF BackTestNext, NotifyTrade, NotifyOther, Queried, AccountHandler, RunIteration, Order,
         Cancel, Ask, Query, Subscribe, Unsubscribe, IterationReturns, IterationThrows, NextStep,
         Increment, clockVars, allVars
<1> QED BY <1>2, <1>3, <1>4

\* No step of a back test passes over a candle.
THEOREM EveryCandleIsSeen == BackTestSpec => NoCandleSkipped
<1>1. BackTestInv /\ [BackTestNext]_allVars =>
        [\A p \in Pairs : LatestAt(data'[p], dataTime') <= LatestAt(data[p], dataTime) + 1
          ]_<<data, dataTime, iteratorCache>>
  BY ClockStep
<1> QED BY <1>1, BackTestInvariance, PTL DEF BackTestSpec, NoCandleSkipped

-----------------------------------------------------------------------------
\* Only a step of the account touches the books.
LEMMA BackTestKeepsBooks ==
  ASSUME BackTestInv, LedgerMatchesClosedOrders, [BackTestNext]_allVars
  PROVE  LedgerMatchesClosedOrders'
<1>1. CASE UNCHANGED <<balances, closedOrders>>
  BY <1>1 DEF LedgerMatchesClosedOrders, NetHolding
<1>2. CASE \/ \E request \in Requests : AddOrder(request)
           \/ Handler
  BY <1>2, LedgerStep DEF Next, BackTestInv
<1>3. \/ \E request \in Requests : AddOrder(request)
      \/ Handler
      \/ UNCHANGED <<balances, closedOrders>>
  BY DEF BackTestNext, NotifyTrade, NotifyOther, AccountHandler, RunIteration, Order, Cancel,
         CancelOrder, Ask, Subscribe, Unsubscribe, IterationReturns, IterationThrows, NextStep,
         orderVars, vars, allVars
<1> QED BY <1>1, <1>2, <1>3

\* The account of a back test is in the same order as that of a live test, though
\* all its prices change at once and the strategy orders and cancels between the
\* handlers: every id has one fate and is where the loop looks for it, and the
\* books balance (paper_trade_api as back_test_runner uses it).
THEOREM BackTestedAccountIsInOrder ==
  BackTestSpec => [](/\ TypeOK /\ OneFate /\ OpenOrdersAreListed /\ ScanStaysInList
                     /\ LedgerMatchesClosedOrders)
<1>1. BackTestInit => LedgerMatchesClosedOrders
  BY LedgerInitially DEF BackTestInit
<1>2. BackTestInv /\ LedgerMatchesClosedOrders /\ [BackTestNext]_allVars
        => LedgerMatchesClosedOrders'
  BY BackTestKeepsBooks
<1>3. BackTestInv => TypeOK /\ OneFate /\ OpenOrdersAreListed /\ ScanStaysInList
  BY DEF BackTestInv, IInv
<1> QED BY <1>1, <1>2, <1>3, BackTestInvariance, PTL DEF BackTestSpec

-----------------------------------------------------------------------------
(***************************************************************************)
(* get_ohlcv: the candles merged into a window.                            *)
(***************************************************************************)
\* A candle of an answer.
Bar == [time : Nat, open : Nat, high : Nat, low : Nat, close : Nat, volume : Nat]

\* The members of a row.
LEMMA RowFacts ==
  ASSUME NEW r \in Row
  PROVE  /\ r.time \in Nat /\ r.open \in Nat /\ r.high \in Nat /\ r.low \in Nat
         /\ r.close \in Nat /\ r.volume \in Nat
BY DEF Row

\* The recursion of VolumeUpTo has a solution: its values.
LEMMA VolumeFacts ==
  ASSUME NEW d \in Candles
  PROVE  /\ VolumeUpTo(d) \in [0 .. Len(d) -> Nat]
         /\ \A n \in 1 .. Len(d) : VolumeUpTo(d)[n] = VolumeUpTo(d)[n - 1] + d[n].volume
<1> DEFINE step == [c \in Nat \X (1 .. Len(d)) |-> c[1] + d[c[2]].volume]
           Traded == VolumeUpTo(d)
<1>1. /\ Len(d) \in Nat
      /\ \A n \in 1 .. Len(d) : d[n].volume \in Nat
  BY CandleFacts, RowFacts
<1>2. step \in Steps(Nat, Len(d))
  BY <1>1 DEF Steps
<1>3. \A v \in Nat, n \in 1 .. Len(d) : step[<<v, n>>] = v + d[n].volume
  OBVIOUS
<1> HIDE DEF step
<1>4. PICK f : IsRecursion(f, Nat, 0, Len(d), step)
  BY <1>1, <1>2, PrimitiveRecursion
<1>5. f \in [0 .. Len(d) -> Nat] /\ f[0] = 0
  BY <1>4 DEF IsRecursion
<1>6. ASSUME NEW n \in 1 .. Len(d)
      PROVE  f[n] = f[n - 1] + d[n].volume
  <2>1. f[n - 1] \in Nat
    BY <1>1, <1>5
  <2>2. f[n] = step[<<f[n - 1], n>>]
    BY <1>4 DEF IsRecursion
  <2> QED BY <1>3, <2>1, <2>2
<1>7. f = [n \in 0 .. Len(d) |-> IF n = 0 THEN 0 ELSE f[n - 1] + d[n].volume]
  BY <1>1, <1>5, <1>6
<1>8. Traded = [n \in 0 .. Len(d) |-> IF n = 0 THEN 0 ELSE Traded[n - 1] + d[n].volume]
  BY <1>7, Zenon DEF VolumeUpTo
<1> HIDE DEF Traded
<1>9. /\ Traded[0] = 0
      /\ \A n \in 1 .. Len(d) : Traded[n] = Traded[n - 1] + d[n].volume
  <2>1. \A n \in 0 .. Len(d) : Traded[n] = IF n = 0 THEN 0 ELSE Traded[n - 1] + d[n].volume
    BY <1>8, Zenon
  <2>2. 0 \in 0 .. Len(d) /\ \A n \in 1 .. Len(d) : n \in 0 .. Len(d) /\ n # 0
    BY <1>1
  <2> QED BY <2>1, <2>2, Zenon
<1> DEFINE Natural == {n \in 0 .. Len(d) : Traded[n] \in Nat}
<1>10. 0 \in Natural
  BY <1>1, <1>9
<1>11. ASSUME NEW n \in 1 .. Len(d), n - 1 \in Natural PROVE n \in Natural
  BY <1>1, <1>9, <1>11
<1> HIDE DEF Natural
<1>12. 0 .. Len(d) \subseteq Natural
  BY <1>1, <1>10, <1>11, SetInductionUpTo
<1>13. Traded \in [0 .. Len(d) -> Nat]
  BY <1>8, <1>12 DEF Natural
<1> QED BY <1>9, <1>13 DEF Traded

\* One more row of a window, member by member.
LEMMA MergeCandleFacts ==
  ASSUME NEW c \in Bar, NEW r \in Row
  PROVE  /\ MergeCandle(c, r) \in Bar
         /\ MergeCandle(c, r).time = c.time /\ MergeCandle(c, r).open = c.open
         /\ MergeCandle(c, r).high = Later(c.high, r.high)
         /\ MergeCandle(c, r).low = (IF r.low < c.low THEN r.low ELSE c.low)
         /\ MergeCandle(c, r).close = r.close
         /\ MergeCandle(c, r).volume = c.volume + r.volume
<1> DEFINE high == Later(c.high, r.high)
           low == IF r.low < c.low THEN r.low ELSE c.low
           volume == c.volume + r.volume
<1>1. high \in Nat /\ low \in Nat /\ volume \in Nat /\ r.close \in Nat
  <2>1. c.high \in Nat /\ c.low \in Nat /\ c.volume \in Nat
    BY DEF Bar
  <2> QED BY <2>1, RowFacts DEF Later
<1>2. MergeCandle(c, r) = [c EXCEPT !.high = high, !.low = low, !.close = r.close, !.volume = volume]
  BY Zenon DEF MergeCandle
<1> HIDE DEF high, low, volume
<1> QED BY <1>1, <1>2 DEF Bar, high, low, volume

\* The recursion of merge_ohlcv.
IsMerged(f, d, first, last, time) ==
  /\ f \in [0 .. last - first -> Bar]
  /\ f[0] = [d[first] EXCEPT !.time = time]
  /\ \A n \in 1 .. last - first : f[n] = MergeCandle(f[n - 1], d[first + n])
  /\ MergeOhlcv(d, first, last, time) = f[last - first]

\* It has a solution, of candles.
LEMMA MergedFacts ==
  ASSUME NEW d \in Candles, NEW first \in 1 .. Len(d), NEW last \in first .. Len(d), NEW time \in Nat
  PROVE  \E f : IsMerged(f, d, first, last, time)
<1> DEFINE N == last - first
           base == [d[first] EXCEPT !.time = time]
           step == [c \in Bar \X (1 .. N) |-> MergeCandle(c[1], d[first + c[2]])]
           Merged == CHOOSE m : m = [n \in 0 .. N |-> IF n = 0 THEN base
                                                     ELSE MergeCandle(m[n - 1], d[first + n])]
<1>1. /\ N \in Nat
      /\ \A n \in 0 .. N : d[first + n] \in Row
      /\ d[first] \in Row
  <2>1. Len(d) \in Nat /\ \A i \in 1 .. Len(d) : d[i] \in Row
    BY CandleFacts
  <2>2. \A n \in 0 .. N : first + n \in 1 .. Len(d)
    BY <2>1
  <2> QED BY <2>1, <2>2
<1>2. base \in Bar
  BY <1>1 DEF Row, Bar
<1>3. step \in Steps(Bar, N)
  <2>1. ASSUME NEW c \in Bar, NEW n \in 1 .. N
        PROVE  MergeCandle(c, d[first + n]) \in Bar
    BY <1>1, MergeCandleFacts
  <2> QED BY <2>1 DEF Steps
<1>4. \A c \in Bar, n \in 1 .. N : step[<<c, n>>] = MergeCandle(c, d[first + n])
  OBVIOUS
<1> HIDE DEF step
<1>0. MergeOhlcv(d, first, last, time) = Merged[N]
  BY Zenon DEF MergeOhlcv
<1> HIDE DEF base, N
<1>5. PICK f : IsRecursion(f, Bar, base, N, step)
  BY <1>1, <1>2, <1>3, PrimitiveRecursion
<1>6. f \in [0 .. N -> Bar] /\ f[0] = base
  BY <1>5 DEF IsRecursion
<1>7. ASSUME NEW n \in 1 .. N
      PROVE  f[n] = MergeCandle(f[n - 1], d[first + n])
  <2>1. f[n - 1] \in Bar
    BY <1>1, <1>6
  <2>2. f[n] = step[<<f[n - 1], n>>]
    BY <1>5 DEF IsRecursion
  <2> QED BY <1>4, <2>1, <2>2
<1>8. f = [n \in 0 .. N |-> IF n = 0 THEN base ELSE MergeCandle(f[n - 1], d[first + n])]
  BY <1>1, <1>6, <1>7
<1>9. Merged = [n \in 0 .. N |-> IF n = 0 THEN base ELSE MergeCandle(Merged[n - 1], d[first + n])]
  BY <1>8, Zenon
<1> HIDE DEF Merged
<1>10. /\ Merged[0] = base
       /\ \A n \in 1 .. N : Merged[n] = MergeCandle(Merged[n - 1], d[first + n])
  <2>1. \A n \in 0 .. N : Merged[n] = IF n = 0 THEN base ELSE MergeCandle(Merged[n - 1], d[first + n])
    BY <1>9, Zenon
  <2>2. 0 \in 0 .. N /\ \A n \in 1 .. N : n \in 0 .. N /\ n # 0
    BY <1>1
  <2> QED BY <2>1, <2>2, Zenon
<1> DEFINE T == {n \in 0 .. N : Merged[n] \in Bar}
<1>11. 0 \in T
  BY <1>1, <1>2, <1>10
<1>12. ASSUME NEW n \in 1 .. N, n - 1 \in T PROVE n \in T
  <2>1. Merged[n - 1] \in Bar /\ d[first + n] \in Row /\ Merged[n] = MergeCandle(Merged[n - 1], d[first + n])
    BY <1>1, <1>10, <1>12
  <2>2. Merged[n] \in Bar
    BY <2>1, MergeCandleFacts
  <2> QED BY <1>1, <2>2
<1> HIDE DEF T
<1>13. 0 .. N \subseteq T
  BY <1>1, <1>11, <1>12, SetInductionUpTo
<1>14. Merged \in [0 .. N -> Bar]
  BY <1>9, <1>13 DEF T
<1>15. IsMerged(Merged, d, first, last, time)
  BY <1>0, <1>10, <1>14 DEF N, base, IsMerged
<1> QED BY <1>15

\* The candle of d[first .. last], by what its members mean.
Merges(c, d, first, last, time) ==
  /\ c \in Bar
  /\ c.time = time /\ c.open = d[first].open /\ c.close = d[last].close
  /\ \E i \in first .. last : c.high = d[i].high
  /\ \A i \in first .. last : d[i].high <= c.high
  /\ \E i \in first .. last : c.low = d[i].low
  /\ \A i \in first .. last : c.low <= d[i].low
  /\ c.volume = VolumeUpTo(d)[last] - VolumeUpTo(d)[first - 1]

\* A window of one candle.
LEMMA FirstMerges ==
  ASSUME NEW d \in Candles, NEW first \in 1 .. Len(d), NEW time \in Nat
  PROVE  Merges([d[first] EXCEPT !.time = time], d, first, first, time)
<1> DEFINE c == [d[first] EXCEPT !.time = time]
<1>1. /\ d[first] \in Row /\ first .. first = {first}
      /\ d[first].high \in Nat /\ d[first].low \in Nat /\ d[first].volume \in Nat
  BY CandleFacts, RowFacts
<1>2. /\ c \in Bar /\ c.time = time /\ c.open = d[first].open /\ c.close = d[first].close
      /\ c.high = d[first].high /\ c.low = d[first].low /\ c.volume = d[first].volume
  BY <1>1 DEF Row, Bar
<1>3. VolumeUpTo(d)[first] = VolumeUpTo(d)[first - 1] + d[first].volume /\ VolumeUpTo(d)[first - 1] \in Nat
  <2>1. /\ VolumeUpTo(d) \in [0 .. Len(d) -> Nat]
        /\ \A n \in 1 .. Len(d) : VolumeUpTo(d)[n] = VolumeUpTo(d)[n - 1] + d[n].volume
    BY VolumeFacts
  <2>2. Len(d) \in Nat
    BY CandleFacts
  <2> QED BY <2>1, <2>2
<1>4. c.volume = VolumeUpTo(d)[first] - VolumeUpTo(d)[first - 1]
  BY <1>1, <1>2, <1>3
<1> HIDE DEF c
<1>5. d[first].high <= c.high /\ c.low <= d[first].low
  BY <1>1, <1>2
<1>6. Merges(c, d, first, first, time)
  BY <1>1, <1>2, <1>4, <1>5 DEF Merges
<1> QED BY <1>6 DEF c

\* A window with one more candle.
LEMMA NextMerges ==
  ASSUME NEW d \in Candles, NEW first \in 1 .. Len(d), NEW last \in first + 1 .. Len(d), NEW time,
         NEW c, Merges(c, d, first, last - 1, time)
  PROVE  Merges(MergeCandle(c, d[last]), d, first, last, time)
<1> DEFINE b == MergeCandle(c, d[last])
<1>0. Len(d) \in Nat /\ last \in 1 .. Len(d) /\ last - 1 \in 1 .. Len(d) /\ last \in Int
  BY CandleFacts
<1>1. /\ d[last] \in Row /\ d[last].high \in Nat /\ d[last].low \in Nat /\ d[last].volume \in Nat
  BY <1>0, CandleFacts, RowFacts
<1>2. c \in Bar /\ c.high \in Nat /\ c.low \in Nat
  BY DEF Merges, Bar
<1>3. /\ b \in Bar /\ b.time = c.time /\ b.open = c.open /\ b.close = d[last].close
      /\ b.high = Later(c.high, d[last].high)
      /\ b.low = (IF d[last].low < c.low THEN d[last].low ELSE c.low)
      /\ b.volume = c.volume + d[last].volume
  BY <1>1, <1>2, MergeCandleFacts
<1>4. /\ VolumeUpTo(d)[last] = VolumeUpTo(d)[last - 1] + d[last].volume
      /\ VolumeUpTo(d)[last - 1] \in Nat /\ VolumeUpTo(d)[first - 1] \in Nat
  <2>1. /\ VolumeUpTo(d) \in [0 .. Len(d) -> Nat]
        /\ \A n \in 1 .. Len(d) : VolumeUpTo(d)[n] = VolumeUpTo(d)[n - 1] + d[n].volume
    BY VolumeFacts
  <2>2. last - 1 \in 0 .. Len(d) /\ first - 1 \in 0 .. Len(d)
    BY <1>0
  <2> QED BY <1>0, <2>1, <2>2
<1>5. \A i \in first .. last : i \in first .. last - 1 \/ i = last
  BY <1>0
<1>6. last \in first .. last /\ \A i \in first .. last - 1 : i \in first .. last /\ i \in 1 .. Len(d)
  BY <1>0
<1>7. \A i \in first .. last - 1 : d[i].high \in Nat /\ d[i].low \in Nat
  BY <1>6, CandleFacts, RowFacts
<1>8. /\ \A i \in first .. last - 1 : d[i].high <= c.high /\ c.low <= d[i].low
      /\ \E i \in first .. last - 1 : c.high = d[i].high
      /\ \E i \in first .. last - 1 : c.low = d[i].low
      /\ c.volume = VolumeUpTo(d)[last - 1] - VolumeUpTo(d)[first - 1]
      /\ c.time = time /\ c.open = d[first].open
  BY DEF Merges
<1> HIDE DEF b
<1>9. /\ \A i \in first .. last - 1 : d[i].high <= b.high /\ b.low <= d[i].low
      /\ d[last].high <= b.high /\ b.low <= d[last].low
  <2>1. /\ b.high \in Nat /\ c.high <= b.high /\ d[last].high <= b.high
        /\ b.low \in Nat /\ b.low <= c.low /\ b.low <= d[last].low
    BY <1>1, <1>2, <1>3 DEF Later
  <2>2. ASSUME NEW i \in first .. last - 1
        PROVE  d[i].high <= b.high /\ b.low <= d[i].low
    <3> DEFINE h == d[i].high
               l == d[i].low
    <3>1. h \in Nat /\ l \in Nat /\ h <= c.high /\ c.low <= l
      BY <1>7, <1>8
    <3>2. h \in Nat /\ l \in Nat /\ h <= b.high /\ b.low <= l
      <4> HIDE DEF h, l
      <4> QED BY <1>2, <2>1, <3>1
    <3> QED BY <3>2
  <2> QED BY <2>1, <2>2
<1>10. /\ \A i \in first .. last : d[i].high <= b.high
       /\ \A i \in first .. last : b.low <= d[i].low
  BY <1>5, <1>9
<1>11. \E i \in first .. last : b.high = d[i].high
  BY <1>3, <1>6, <1>8 DEF Later
<1>12. \E i \in first .. last : b.low = d[i].low
  BY <1>3, <1>6, <1>8
<1>13. b.volume = VolumeUpTo(d)[last] - VolumeUpTo(d)[first - 1]
  <2>1. d[last].volume \in Nat /\ b.volume = c.volume + d[last].volume
    BY <1>1, <1>3
  <2>2. c.volume = VolumeUpTo(d)[last - 1] - VolumeUpTo(d)[first - 1]
    BY <1>8
  <2> QED BY <1>4, <2>1, <2>2
<1>14. Merges(b, d, first, last, time)
  BY <1>3, <1>8, <1>10, <1>11, <1>12, <1>13 DEF Merges
<1> QED BY <1>14 DEF b

\* merge_ohlcv over the candles one after another arrives there.
LEMMA MergeOhlcvMerges ==
  ASSUME NEW d \in Candles, NEW first \in 1 .. Len(d), NEW last \in first .. Len(d), NEW time \in Nat
  PROVE  Merges(MergeOhlcv(d, first, last, time), d, first, last, time)
<1> DEFINE N == last - first
<1>1. PICK f : /\ f \in [0 .. N -> Bar]
               /\ f[0] = [d[first] EXCEPT !.time = time]
               /\ \A n \in 1 .. N : f[n] = MergeCandle(f[n - 1], d[first + n])
               /\ MergeOhlcv(d, first, last, time) = f[N]
  <2>1. PICK f : IsMerged(f, d, first, last, time)
    BY MergedFacts
  <2> QED BY <2>1 DEF IsMerged
<1>2. Len(d) \in Nat /\ N \in Nat
  BY CandleFacts
<1> DEFINE T == {n \in 0 .. N : Merges(f[n], d, first, first + n, time)}
<1>3. 0 \in T
  <2>1. Merges(f[0], d, first, first, time)
    BY <1>1, FirstMerges
  <2> QED BY <1>2, <2>1
<1>4. ASSUME NEW n \in 1 .. N, n - 1 \in T
      PROVE  n \in T
  <2>1. /\ first + n \in first + 1 .. Len(d) /\ first + (n - 1) = (first + n) - 1
        /\ f[n] = MergeCandle(f[n - 1], d[first + n])
    BY <1>1, <1>2
  <2>2. Merges(f[n - 1], d, first, (first + n) - 1, time)
    BY <1>4, <2>1
  <2>3. Merges(f[n], d, first, first + n, time)
    BY <2>1, <2>2, NextMerges
  <2> QED BY <2>3
<1> HIDE DEF T
<1>5. N \in T
  <2>1. 0 .. N \subseteq T
    BY <1>2, <1>3, <1>4, SetInductionUpTo
  <2> QED BY <1>2, <2>1
<1>6. Merges(f[N], d, first, first + N, time) /\ first + N = last
  BY <1>2, <1>5 DEF T
<1> QED BY <1>1, <1>6

-----------------------------------------------------------------------------
(***************************************************************************)
(* get_ohlcv: the two iterators that walk back from window to window.      *)
(***************************************************************************)
\* The last candle that begins before `time'.
LastBefore(d, time) == Sets!Max({i \in DOMAIN d : d[i].time < time})

\* It is the candle of that time, or the one before if that begins at it.
LEMMA LastBeforeIs ==
  ASSUME NEW d \in Candles, NEW time \in Nat, Len(d) >= 1, d[1].time < time
  PROVE  LET latest == LatestAt(d, time)
         IN  /\ latest \in 1 .. Len(d)
             /\ LastBefore(d, time) = (IF time > d[latest].time THEN latest + 1 ELSE latest) - 1
             /\ \A i \in 1 .. Len(d) : d[i].time < time <=> i <= LastBefore(d, time)
             /\ LastBefore(d, time) \in 1 .. Len(d)
<1> DEFINE latest == LatestAt(d, time)
           before == {i \in DOMAIN d : d[i].time < time}
           m == (IF time > d[latest].time THEN latest + 1 ELSE latest) - 1
<1>1. /\ Len(d) \in Nat /\ DOMAIN d = 1 .. Len(d)
      /\ \A i \in 1 .. Len(d) : d[i].time \in Nat
      /\ \A i, j \in 1 .. Len(d) : i < j => d[i].time + StepSize <= d[j].time
      /\ StepSize \in Nat \ {0}
  BY CandleFacts
<1>2. /\ latest \in 0 .. Len(d)
      /\ \A i \in 1 .. Len(d) : d[i].time <= time <=> i <= latest
  BY LatestFacts
<1>3. latest \in 1 .. Len(d) /\ d[latest].time <= time
  <2>1. 1 \in 1 .. Len(d) /\ d[1].time <= time
    BY <1>1
  <2> HIDE DEF latest
  <2>2. 1 <= latest
    BY <1>2, <2>1
  <2> QED BY <1>1, <1>2, <2>2
<1> HIDE DEF latest
<1>4. ASSUME NEW i \in 1 .. Len(d)
      PROVE  d[i].time < time <=> i <= m
  <2>1. CASE time > d[latest].time
    <3>1. d[i].time < time => i <= latest
      <4>1. d[i].time \in Nat /\ (d[i].time <= time <=> i <= latest)
        BY <1>1, <1>2
      <4> QED BY <4>1
    <3>2. i <= latest => d[i].time <= d[latest].time
      BY <1>1, <1>3
    <3> QED BY <1>1, <1>3, <2>1, <3>1, <3>2
  <2>2. CASE ~(time > d[latest].time)
    <3>1. d[latest].time = time
      BY <1>1, <1>3, <2>2
    <3>2. i < latest => d[i].time < time
      BY <1>1, <1>3, <3>1
    <3>3. i >= latest => ~(d[i].time < time)
      BY <1>1, <1>3, <3>1
    <3> QED BY <1>1, <1>3, <2>2, <3>2, <3>3
  <2> QED BY <2>1, <2>2
<1>5. m \in 1 .. Len(d)
  <2>1. 1 \in 1 .. Len(d) /\ 1 <= m
    BY <1>1, <1>4
  <2>2. m <= latest /\ m \in Int
    BY <1>3
  <2> QED BY <1>1, <1>3, <2>1, <2>2
<1> HIDE DEF m
<1>6. Sets!Max(before) = m
  <2>1. before \subseteq Int /\ m \in before /\ \A i \in before : i <= m
    BY <1>1, <1>4, <1>5
  <2> HIDE DEF before
  <2> QED BY <2>1, MaxIs
<1>7. LastBefore(d, time) = m
  BY <1>6, Zenon DEF LastBefore
<1> QED BY <1>3, <1>4, <1>5, <1>7 DEF latest, m

Window == [time : Nat, first : Nat, last : Nat]
Walker == [target : Nat, end : Nat, done : BOOLEAN, windows : Seq(Window)]

\* What an iteration of get_ohlcv does to a walker whose iterator `end' is at the
\* candle that has begun last at `target'.
WalksBack(n, d, interval, w) ==
  LET back == w.target - interval
      target == IF back > d[1].time THEN back ELSE d[1].time
  IN  /\ n \in Walker
      /\ n.target = target /\ n.end = LatestAt(d, target)
      /\ n.done <=> target = d[1].time
      /\ \E window \in Window :
           /\ n.windows = Append(w.windows, window)
           /\ window.time = target /\ window.first = LatestAt(d, target)
           /\ window.first \in 1 .. Len(d) /\ window.last \in window.first .. Len(d)
           /\ back >= d[1].time => window.last = LastBefore(d, w.target)

\* The iterator `start' finds the candle of the window's beginning, which becomes `end'.
LEMMA NextWindowSteps ==
  ASSUME NEW d \in Candles, Len(d) >= 1, NEW interval \in Nat \ {0}, NEW w \in Walker,
         w.target > d[1].time, w.end = LatestAt(d, w.target)
  PROVE  WalksBack(NextWindow(d, interval, w), d, interval, w)
<1> DEFINE n == NextWindow(d, interval, w)
           back == w.target - interval
           target == Later(back, d[1].time)
           end == IF target + interval > d[w.end].time THEN w.end + 1 ELSE w.end
           begun == {1} \cup {i \in 1 .. w.end : d[i].time <= target}
           start == Sets!Max(begun)
           last == Later(start, end - 1)
           window == [time |-> target, first |-> start, last |-> last]
<1>1. n = [target |-> target, end |-> start, done |-> target = d[1].time /\ start = 1,
           windows |-> Append(w.windows, window)]
  BY Zenon DEF NextWindow
<1>2. /\ Len(d) \in Nat /\ DOMAIN d = 1 .. Len(d) /\ 1 \in 1 .. Len(d)
      /\ \A i \in 1 .. Len(d) : d[i].time \in Nat
      /\ \A i, j \in 1 .. Len(d) : i < j => d[i].time + StepSize <= d[j].time
      /\ StepSize \in Nat \ {0}
  <2>1. /\ Len(d) \in Nat /\ DOMAIN d = 1 .. Len(d)
        /\ \A i \in 1 .. Len(d) : d[i].time \in Nat
        /\ \A i, j \in 1 .. Len(d) : i < j => d[i].time + StepSize <= d[j].time
        /\ StepSize \in Nat \ {0}
    BY CandleFacts
  <2> QED BY <2>1
<1>3. w.target \in Nat /\ back \in Int /\ back < w.target
  BY DEF Walker
<1>4. target \in Nat /\ target >= d[1].time /\ target < w.target
  BY <1>2, <1>3 DEF Later
<1> DEFINE latest == LatestAt(d, target)
<1>5. /\ latest \in 0 .. Len(d)
      /\ \A i \in 1 .. Len(d) : d[i].time <= target <=> i <= latest
  BY <1>4, LatestFacts
<1>6. /\ w.end \in 1 .. Len(d)
      /\ \A i \in 1 .. Len(d) : d[i].time <= w.target <=> i <= w.end
      /\ LastBefore(d, w.target) = (IF w.target > d[w.end].time THEN w.end + 1 ELSE w.end) - 1
      /\ \A i \in 1 .. Len(d) : d[i].time < w.target <=> i <= LastBefore(d, w.target)
      /\ LastBefore(d, w.target) \in 1 .. Len(d)
  <2>1. /\ LatestAt(d, w.target) \in 0 .. Len(d)
        /\ \A i \in 1 .. Len(d) : d[i].time <= w.target <=> i <= LatestAt(d, w.target)
    BY <1>3, LatestFacts
  <2>2. d[1].time < w.target
    BY <1>2, <1>3
  <2> QED BY <1>3, <2>1, <2>2, LastBeforeIs
<1> HIDE DEF latest, back, target
<1>7. latest \in begun /\ \A i \in begun : i <= latest
  <2>1. 1 <= latest
    BY <1>2, <1>4, <1>5
  <2>2. latest \in 1 .. Len(d) /\ d[latest].time <= target
    BY <1>2, <1>5, <2>1
  <2>3. latest <= w.end
    BY <1>2, <1>3, <1>4, <1>6, <2>2
  <2>4. latest \in begun
    BY <1>6, <2>2, <2>3
  <2>5. \A i \in begun : i \in 1 .. Len(d) /\ d[i].time <= target
    BY <1>2, <1>4, <1>6
  <2> HIDE DEF begun
  <2> QED BY <1>5, <2>4, <2>5
<1>8. start = latest
  <2>1. begun \subseteq Int
    BY <1>6
  <2> HIDE DEF begun
  <2> QED BY <1>7, <2>1, MaxIs
<1>9. latest \in 1 .. Len(d) /\ latest <= w.end /\ d[latest].time <= target
  <2>1. latest \in 1 .. w.end
    BY <1>6, <1>7
  <2> QED BY <1>5, <1>6, <2>1
<1>10. end \in 1 .. Len(d) + 1 /\ end - 1 \in Nat /\ end - 1 <= Len(d)
  <2>1. end = w.end \/ end = w.end + 1
    OBVIOUS
  <2> HIDE DEF end
  <2> QED BY <1>2, <1>6, <2>1
<1>11. last \in latest .. Len(d)
  <2> HIDE DEF end
  <2> QED BY <1>2, <1>8, <1>9, <1>10 DEF Later
<1>12. target = d[1].time => latest = 1
  BY <1>2, <1>9
<1>13. ASSUME back >= d[1].time
       PROVE  last = LastBefore(d, w.target)
  <2>1. target = back /\ target + interval = w.target
    BY <1>2, <1>3, <1>13 DEF Later, target, back, Walker
  <2>2. end - 1 = LastBefore(d, w.target)
    BY <1>6, <2>1
  <2>3. latest <= LastBefore(d, w.target)
    <3>1. d[latest].time < w.target
      BY <1>2, <1>3, <1>4, <1>9
    <3> QED BY <1>6, <1>9, <3>1
  <2> HIDE DEF end
  <2> QED BY <1>6, <1>8, <1>9, <1>10, <2>2, <2>3 DEF Later
<1>14. window \in Window
  <2> HIDE DEF last, start
  <2> QED BY <1>2, <1>4, <1>8, <1>9, <1>11 DEF Window
<1>15. /\ window.time = target /\ window.first = latest /\ window.last = last
  BY <1>8
<1> HIDE DEF window, start, last
<1>16. /\ n \in Walker /\ n.target = target /\ n.end = latest
       /\ n.done <=> target = d[1].time
       /\ n.windows = Append(w.windows, window)
  <2>1. Append(w.windows, window) \in Seq(Window)
    BY <1>14, AppendProperties DEF Walker
  <2> HIDE DEF n
  <2>2. /\ n.target = target /\ n.end = start /\ n.windows = Append(w.windows, window)
        /\ n.done <=> target = d[1].time /\ start = 1
    BY <1>1
  <2>3. n \in Walker
    BY <1>1, <1>2, <1>4, <1>8, <1>9, <2>1 DEF Walker
  <2> QED BY <1>8, <1>12, <2>2, <2>3
<1> HIDE DEF n
<1>17. target = IF back > d[1].time THEN back ELSE d[1].time
  BY DEF target, Later
<1>18. WalksBack(n, d, interval, w)
  BY <1>9, <1>11, <1>13, <1>14, <1>15, <1>16, <1>17 DEF WalksBack, latest, back
<1> QED BY <1>18 DEF n

-----------------------------------------------------------------------------
\* The beginning of the k-th window back, k intervals ago.
Ago(interval, k) == dataTime - k * interval

\* Windows follow one another without a gap.
LEMMA AgoFacts ==
  ASSUME dataTime \in Nat, NEW interval \in Nat \ {0}
  PROVE  /\ Ago(interval, 0) = dataTime
         /\ \A k \in Nat : Ago(interval, k) \in Int
         /\ \A k \in Nat : Ago(interval, k + 1) = Ago(interval, k) - interval
         /\ \A j, k \in Nat : j <= k => Ago(interval, k) <= Ago(interval, j)
<1>1. Ago(interval, 0) = dataTime
  BY DEF Ago
<1>2. \A k \in Nat : k * interval \in Int
  OBVIOUS
<1>3. \A k \in Nat : (k + 1) * interval = k * interval + interval
  OBVIOUS
<1>4. ASSUME NEW j \in Nat, NEW k \in Nat, j <= k
      PROVE  j * interval <= k * interval
  <2>1. k - j \in Nat /\ (k - j) * interval >= 0
    BY <1>4
  <2>2. k * interval - j * interval = (k - j) * interval
    OBVIOUS
  <2> QED BY <2>1, <2>2
<1>5. \A k \in Nat : Ago(interval, k) \in Int /\ Ago(interval, k + 1) = Ago(interval, k) - interval
  BY <1>2, <1>3 DEF Ago
<1>6. \A j, k \in Nat : j <= k => Ago(interval, k) <= Ago(interval, j)
  BY <1>2, <1>4 DEF Ago
<1> QED BY <1>1, <1>5, <1>6

\* The k-th window back, the last one cut off at the first candle of the data.
IsWindow(window, d, interval, k) ==
  /\ window \in Window
  /\ window.first \in 1 .. Len(d) /\ window.last \in window.first .. Len(d)
  /\ Ago(interval, k - 1) > d[1].time
  /\ window.time = (IF Ago(interval, k) > d[1].time THEN Ago(interval, k) ELSE d[1].time)
  /\ window.first = LatestAt(d, window.time)
  /\ Ago(interval, k) >= d[1].time => window.last = LastBefore(d, Ago(interval, k - 1))

AreWindows(windows, d, interval, m) ==
  /\ windows \in Seq(Window) /\ Len(windows) = m
  /\ \A k \in 1 .. m : IsWindow(windows[k], d, interval, k)

\* What the loop keeps, and where it is after n iterations.
Walkers(d) == {w \in Walker : ~ w.done => w.target > d[1].time /\ w.end = LatestAt(d, w.target)}

WalkedBack(w, d, interval, n) ==
  \E m \in 0 .. n :
    /\ AreWindows(w.windows, d, interval, m)
    /\ w.done => Ago(interval, m) <= d[1].time
    /\ ~ w.done => m = n /\ w.target = Ago(interval, n)

\* An iteration leaves a walker at the candle of its target, unless it is done.
LEMMA NextWindowWalks ==
  ASSUME NEW d \in Candles, Len(d) >= 1, NEW interval \in Nat \ {0}, NEW w \in Walkers(d), ~ w.done
  PROVE  NextWindow(d, interval, w) \in Walkers(d)
<1> DEFINE n == NextWindow(d, interval, w)
<1>1. w \in Walker /\ w.target > d[1].time /\ w.end = LatestAt(d, w.target)
  BY DEF Walkers
<1>2. WalksBack(n, d, interval, w)
  BY <1>1, NextWindowSteps
<1> HIDE DEF n
<1>3. d[1].time \in Nat /\ w.target \in Nat
  <2>1. 1 \in 1 .. Len(d)
    BY CandleFacts
  <2> QED BY <1>1, <2>1, CandleFacts DEF Walker
<1>4. n \in Walkers(d)
  BY <1>2, <1>3 DEF WalksBack, Walkers
<1> QED BY <1>4 DEF n

\* The window it appends is the next one back.
LEMMA NextWindowIsNext ==
  ASSUME dataTime \in Nat, NEW d \in Candles, Len(d) >= 1, NEW interval \in Nat \ {0},
         NEW w \in Walkers(d), ~ w.done, NEW i \in Nat, WalkedBack(w, d, interval, i)
  PROVE  WalkedBack(NextWindow(d, interval, w), d, interval, i + 1)
<1> DEFINE n == NextWindow(d, interval, w)
           old == Ago(interval, i)
           back == Ago(interval, i + 1)
           first == d[1].time
<1>1. w \in Walker /\ w.target > first /\ w.end = LatestAt(d, w.target)
  BY DEF Walkers
<1>2. WalksBack(n, d, interval, w)
  BY <1>1, NextWindowSteps
<1>3. first \in Nat
  <2>1. 1 \in 1 .. Len(d)
    BY CandleFacts
  <2> QED BY <2>1, CandleFacts
<1>4. old \in Int /\ back \in Int /\ back = old - interval
  BY AgoFacts
<1>5. AreWindows(w.windows, d, interval, i) /\ w.target = old
  BY DEF WalkedBack
<1>6. w.windows \in Seq(Window) /\ Len(w.windows) = i
      /\ \A k \in 1 .. i : IsWindow(w.windows[k], d, interval, k)
  BY <1>5 DEF AreWindows
<1>7. w.target - interval = back
  BY <1>4, <1>5
<1> DEFINE target == IF back > first THEN back ELSE first
<1>8. PICK window \in Window :
        /\ n.windows = Append(w.windows, window)
        /\ window.time = target /\ window.first = LatestAt(d, target)
        /\ window.first \in 1 .. Len(d) /\ window.last \in window.first .. Len(d)
        /\ back >= first => window.last = LastBefore(d, old)
  BY <1>2, <1>5, <1>7, Zenon DEF WalksBack
<1>9. n.target = target /\ (n.done <=> target = first)
  BY <1>2, <1>7, Zenon DEF WalksBack
<1> HIDE DEF n, old, back, first, target
<1>10. IsWindow(window, d, interval, i + 1)
  <2>1. (i + 1) - 1 = i
    OBVIOUS
  <2>2. Ago(interval, (i + 1) - 1) = old
    BY <2>1 DEF old
  <2>3. old > first
    BY <1>1, <1>5
  <2> QED BY <1>8, <2>2, <2>3 DEF IsWindow, target, back, first
<1>11. AreWindows(n.windows, d, interval, i + 1)
  <2>1. /\ n.windows \in Seq(Window) /\ Len(n.windows) = i + 1
        /\ n.windows[i + 1] = window
        /\ \A k \in 1 .. i : n.windows[k] = w.windows[k]
    BY <1>6, <1>8, AppendProperties
  <2>2. \A k \in 1 .. i + 1 : k \in 1 .. i \/ k = i + 1
    OBVIOUS
  <2> QED BY <1>6, <1>10, <2>1, <2>2 DEF AreWindows
<1>12. n.done => Ago(interval, i + 1) <= d[1].time
  BY <1>3, <1>4, <1>9 DEF target, back, first
<1>13. ~ n.done => n.target = Ago(interval, i + 1)
  BY <1>3, <1>4, <1>9 DEF target, back, first
<1>14. WalkedBack(n, d, interval, i + 1)
  <2>1. i + 1 \in 0 .. i + 1
    OBVIOUS
  <2> QED BY <1>11, <1>12, <1>13, <2>1 DEF WalkedBack
<1> QED BY <1>14 DEF n

\* A walker that is done, at the beginning of the data, stays as it is.
LEMMA DoneStays ==
  ASSUME NEW d, NEW interval, NEW w, w.done, NEW i \in Nat, WalkedBack(w, d, interval, i)
  PROVE  WalkedBack(w, d, interval, i + 1)
<1>1. 0 .. i \subseteq 0 .. i + 1
  OBVIOUS
<1> QED BY <1>1 DEF WalkedBack

\* The loop of get_ohlcv, as OhlcvWindows has it.
Loop(d, interval, it, count) ==
  LET After[n \in 0 .. count] ==
        IF n = 0 THEN [target |-> dataTime, end |-> it, done |-> FALSE, windows |-> <<>>]
        ELSE IF After[n - 1].done THEN After[n - 1]
        ELSE NextWindow(d, interval, After[n - 1])
  IN  After[count]

\* So the loop goes back window by window, to `count' or the beginning of the data.
LEMMA LoopWalksBack ==
  ASSUME dataTime \in Nat, NEW d \in Candles, Len(d) >= 1, d[1].time < dataTime,
         NEW interval \in Nat \ {0}, NEW count \in Nat, NEW it, it = LatestAt(d, dataTime)
  PROVE  WalkedBack(Loop(d, interval, it, count), d, interval, count)
<1> DEFINE base == [target |-> dataTime, end |-> it, done |-> FALSE, windows |-> <<>>]
           S == Walkers(d)
           Continued(w) == IF w.done THEN w ELSE NextWindow(d, interval, w)
           step == [c \in S \X (1 .. count) |-> Continued(c[1])]
           After == CHOOSE a : a = [n \in 0 .. count |-> IF n = 0 THEN base ELSE Continued(a[n - 1])]
<1>1. base \in S /\ base.windows = <<>> /\ base.target = dataTime /\ ~ base.done
  <2>1. it \in Nat
    BY LatestFacts, CandleFacts
  <2>2. base \in Walker
    BY <2>1 DEF Walker
  <2>3. base.target = dataTime /\ base.end = it /\ base.windows = <<>> /\ ~ base.done
    OBVIOUS
  <2> HIDE DEF base
  <2> QED BY <2>2, <2>3 DEF Walkers
<1>2. \A w \in S : Continued(w) \in S
  BY NextWindowWalks
<1>3. step \in Steps(S, count)
  BY <1>2 DEF Steps
<1>4. \A w \in S, n \in 1 .. count : step[<<w, n>>] = Continued(w)
  OBVIOUS
<1>0. Loop(d, interval, it, count) = After[count]
  BY Zenon DEF Loop
<1> HIDE DEF step, S, base, Continued
<1>5. PICK f : IsRecursion(f, S, base, count, step)
  BY <1>1, <1>3, PrimitiveRecursion
<1>6. f \in [0 .. count -> S] /\ f[0] = base
  BY <1>5 DEF IsRecursion
<1>7. ASSUME NEW n \in 1 .. count
      PROVE  f[n] = Continued(f[n - 1])
  <2>1. f[n - 1] \in S
    BY <1>6
  <2>2. f[n] = step[<<f[n - 1], n>>]
    BY <1>5 DEF IsRecursion
  <2> QED BY <1>4, <2>1, <2>2
<1>8. f = [n \in 0 .. count |-> IF n = 0 THEN base ELSE Continued(f[n - 1])]
  BY <1>6, <1>7
<1>9. After = [n \in 0 .. count |-> IF n = 0 THEN base ELSE Continued(After[n - 1])]
  BY <1>8, Zenon
<1> HIDE DEF After
<1>10. /\ After[0] = base
       /\ \A n \in 1 .. count : After[n] = Continued(After[n - 1])
  <2>1. \A n \in 0 .. count : After[n] = IF n = 0 THEN base ELSE Continued(After[n - 1])
    BY <1>9, Zenon
  <2>2. 0 \in 0 .. count /\ \A n \in 1 .. count : n \in 0 .. count /\ n # 0
    OBVIOUS
  <2> QED BY <2>1, <2>2, Zenon
<1> DEFINE T == {n \in 0 .. count : After[n] \in S /\ WalkedBack(After[n], d, interval, n)}
<1>11. 0 \in T
  <2>1. AreWindows(<<>>, d, interval, 0)
    BY DEF AreWindows
  <2>2. Ago(interval, 0) = dataTime
    BY AgoFacts
  <2>3. WalkedBack(base, d, interval, 0)
    <3>1. 0 \in 0 .. 0
      OBVIOUS
    <3> QED BY <1>1, <2>1, <2>2, <3>1 DEF WalkedBack
  <2> QED BY <1>1, <1>10, <2>3
<1>12. ASSUME NEW n \in 1 .. count, n - 1 \in T PROVE n \in T
  <2> DEFINE w == After[n - 1]
  <2>1. w \in S /\ WalkedBack(w, d, interval, n - 1) /\ n - 1 \in Nat /\ (n - 1) + 1 = n
        /\ After[n] = Continued(w) /\ After[n] \in S
    BY <1>2, <1>10, <1>12
  <2> HIDE DEF w
  <2>2. CASE w.done
    <3>1. WalkedBack(w, d, interval, (n - 1) + 1) /\ After[n] = w
      BY <2>1, <2>2, DoneStays DEF Continued
    <3> QED BY <2>1, <3>1
  <2>3. CASE ~ w.done
    <3>1. /\ WalkedBack(NextWindow(d, interval, w), d, interval, (n - 1) + 1)
          /\ After[n] = NextWindow(d, interval, w)
      BY <2>1, <2>3, NextWindowIsNext DEF Continued, S
    <3> QED BY <2>1, <3>1
  <2> QED BY <2>2, <2>3
<1> HIDE DEF T
<1>13. count \in T
  <2>1. 0 .. count \subseteq T
    BY <1>11, <1>12, SetInductionUpTo
  <2> QED BY <2>1
<1>14. WalkedBack(After[count], d, interval, count)
  BY <1>13 DEF T
<1> QED BY <1>0, <1>14

-----------------------------------------------------------------------------
\* The answer of get_ohlcv is a window back after another.
LEMMA OhlcvWalksBack ==
  ASSUME DataInv, NEW p \in Pairs, NEW interval \in Nat \ {0}, NEW count \in Nat,
         ~ BeforeData(data[p]), data[p][1].time < dataTime
  PROVE  \E m \in 0 .. count :
           /\ AreWindows(OhlcvWindows(p, interval, count), data[p], interval, m)
           /\ m = count \/ Ago(interval, m) <= data[p][1].time
<1> DEFINE d == data[p]
           it == GetIterator(p)
           loop == Loop(d, interval, it, count)
<1>1. d \in Candles /\ dataTime \in Nat /\ it = LatestAt(d, dataTime)
  BY GetIteratorFindsLatest DEF DataInv
<1>2. Len(d) \in Nat /\ Len(d) >= 1
  <2>1. d # <<>>
    BY DEF BeforeData
  <2>2. Len(d) \in Nat /\ Len(d) # 0
    BY <1>1, <2>1, CandleFacts
  <2> QED BY <2>2
<1>3. it \in 0 .. Len(d) /\ it >= 1 /\ dataTime # d[1].time
  <2>1. 1 \in 1 .. Len(d)
    BY <1>2
  <2>2. d[1].time \in Nat
    BY <1>1, <2>1, CandleFacts
  <2>3. /\ LatestAt(d, dataTime) \in 0 .. Len(d)
        /\ \A i \in 1 .. Len(d) : d[i].time <= dataTime <=> i <= LatestAt(d, dataTime)
    BY <1>1, LatestFacts
  <2>4. d[1].time <= dataTime
    BY <1>1, <2>2
  <2> QED BY <1>1, <1>2, <2>1, <2>2, <2>3, <2>4
<1>4. OhlcvWindows(p, interval, count)
        = IF it = 0 \/ (it = 1 /\ dataTime = d[1].time) THEN <<>> ELSE loop.windows
  BY Zenon DEF OhlcvWindows, Loop
<1>5. WalkedBack(loop, d, interval, count)
  <2>1. d[1].time < dataTime
    OBVIOUS
  <2> HIDE DEF d, it
  <2> QED BY <1>1, <1>2, <2>1, LoopWalksBack
<1> HIDE DEF loop, d, it
<1>6. OhlcvWindows(p, interval, count) = loop.windows
  BY <1>3, <1>4
<1>7. PICK m \in 0 .. count :
        /\ AreWindows(loop.windows, d, interval, m)
        /\ loop.done => Ago(interval, m) <= d[1].time
        /\ ~ loop.done => m = count
  BY <1>5 DEF WalkedBack
<1> QED BY <1>6, <1>7 DEF d

\* What a whole window holds is what WindowOf defines.
LEMMA WindowIsWindowOf ==
  ASSUME dataTime \in Nat, NEW d \in Candles, NEW interval \in Nat \ {0}, NEW k \in Nat \ {0},
         NEW window, IsWindow(window, d, interval, k), Ago(interval, k) >= d[1].time
  PROVE  MergeOhlcv(d, window.first, window.last, window.time) = WindowOf(d, interval, k)
<1> DEFINE begins == Ago(interval, k)
           ends == Ago(interval, k - 1)
           first == LatestAt(d, begins)
           last == LastBefore(d, ends)
           highs == {d[i].high : i \in first .. last}
           lows == {d[i].low : i \in first .. last}
           c == MergeOhlcv(d, first, last, begins)
<1>1. begins \in Int /\ Len(d) \in Nat
  BY AgoFacts, CandleFacts
<1>2. /\ window.first \in 1 .. Len(d) /\ window.last \in window.first .. Len(d)
      /\ window.time = begins /\ window.first = first /\ window.last = last
      /\ d[1].time \in Nat
  <2>1. /\ window.first \in 1 .. Len(d) /\ window.last \in window.first .. Len(d)
        /\ window.time = (IF begins > d[1].time THEN begins ELSE d[1].time)
        /\ window.first = LatestAt(d, window.time)
        /\ window.last = last
    BY DEF IsWindow
  <2>2. 1 \in 1 .. Len(d)
    BY <1>1, <2>1
  <2>3. d[1].time \in Nat
    BY <2>2, CandleFacts
  <2>4. window.time = begins
    <3> HIDE DEF begins
    <3>1. begins >= d[1].time
      BY DEF begins
    <3> QED BY <1>1, <2>1, <2>3, <3>1
  <2> QED BY <2>1, <2>3, <2>4
<1>3. begins \in Nat /\ first \in 1 .. Len(d) /\ last \in first .. Len(d)
  BY <1>1, <1>2
<1>4. Merges(c, d, first, last, begins)
  <2> HIDE DEF first, last, begins
  <2> QED BY <1>3, MergeOhlcvMerges
<1>5. WindowOf(d, interval, k)
        = [time |-> begins, open |-> d[first].open, close |-> d[last].close,
           high |-> Sets!Max(highs), low |-> Sets!Min(lows),
           volume |-> VolumeUpTo(d)[last] - VolumeUpTo(d)[first - 1]]
  BY Zenon DEF WindowOf, Ago, LastBefore
<1> HIDE DEF begins, ends, first, last, c
<1>6. /\ c \in Bar
      /\ c.time = begins /\ c.open = d[first].open /\ c.close = d[last].close
      /\ c.volume = VolumeUpTo(d)[last] - VolumeUpTo(d)[first - 1]
      /\ c.high \in highs /\ \A y \in highs : y <= c.high
      /\ c.low \in lows /\ \A y \in lows : c.low <= y
  BY <1>4 DEF Merges
<1>7. highs \subseteq Int /\ lows \subseteq Int
  <2>1. \A i \in first .. last : i \in 1 .. Len(d)
    BY <1>1, <1>3
  <2>2. \A i \in first .. last : d[i].high \in Nat /\ d[i].low \in Nat
    BY <2>1, CandleFacts, RowFacts
  <2> QED BY <2>2
<1> HIDE DEF highs, lows
<1>8. Sets!Max(highs) = c.high /\ Sets!Min(lows) = c.low
  BY <1>6, <1>7, MaxIs, MinIs
<1>9. c = [time |-> c.time, open |-> c.open, high |-> c.high, low |-> c.low, close |-> c.close,
           volume |-> c.volume]
  BY <1>6 DEF Bar
<1>10. c = [time |-> c.time, open |-> c.open, close |-> c.close, high |-> c.high, low |-> c.low,
            volume |-> c.volume]
  BY <1>9
<1>11. c = WindowOf(d, interval, k)
  BY <1>5, <1>6, <1>8, <1>10
<1> QED BY <1>2, <1>11 DEF c

\* The answer is as long as the data, and each of its whole windows as defined.
LEMMA OhlcvMatches ==
  ASSUME DataInv
  PROVE  OhlcvMatchesWindows
<1> SUFFICES ASSUME NEW p \in Pairs, NEW interval \in Intervals, NEW k \in 1 .. MaxCount
             PROVE  LET d == data[p]
                        candles == GetOhlcv(p, interval, MaxCount)
                    IN  IF BeforeData(d) \/ dataTime - (k - 1) * interval <= d[1].time
                          THEN k \notin DOMAIN candles
                        ELSE IF dataTime - k * interval >= d[1].time
                          THEN k \in DOMAIN candles /\ candles[k] = WindowOf(d, interval, k)
                        ELSE k \in DOMAIN candles /\ candles[k].time = d[1].time
  BY Zenon DEF OhlcvMatchesWindows
<1> DEFINE d == data[p]
           candles == GetOhlcv(p, interval, MaxCount)
           windows == OhlcvWindows(p, interval, MaxCount)
           first == d[1].time
<1>1. d \in Candles /\ dataTime \in Nat /\ Len(d) \in Nat
  BY CandleFacts DEF DataInv
<1>2. interval \in Nat \ {0} /\ MaxCount \in Nat
  BY BackTestAssumption DEF DataAssumption
<1>3. /\ DOMAIN candles = DOMAIN windows
      /\ \A i \in DOMAIN windows :
           candles[i] = MergeOhlcv(d, windows[i].first, windows[i].last, windows[i].time)
  BY DEF GetOhlcv
<1>4. GetIterator(p) = LatestAt(d, dataTime)
  BY GetIteratorFindsLatest
<1>5. /\ dataTime - (k - 1) * interval = Ago(interval, k - 1)
      /\ dataTime - k * interval = Ago(interval, k)
  BY DEF Ago
<1>6. /\ Ago(interval, k) \in Int /\ Ago(interval, k - 1) \in Int
      /\ Ago(interval, k - 1) <= dataTime
      /\ \A m \in Nat : m < k => Ago(interval, k - 1) <= Ago(interval, m)
      /\ \A m \in Nat : Ago(interval, m) \in Int
  <2>1. /\ Ago(interval, 0) = dataTime
        /\ \A n \in Nat : Ago(interval, n) \in Int
        /\ \A j, n \in Nat : j <= n => Ago(interval, n) <= Ago(interval, j)
    BY <1>1, <1>2, AgoFacts
  <2>2. k \in Nat /\ k - 1 \in Nat /\ 0 <= k - 1 /\ 0 \in Nat
    BY <1>2
  <2>3. \A m \in Nat : m < k => m <= k - 1
    BY <2>2
  <2> QED BY <2>1, <2>2, <2>3
<1>7. ~ BeforeData(d) => Len(d) >= 1 /\ first \in Nat /\ first <= dataTime
  <2> SUFFICES ASSUME ~ BeforeData(d) PROVE Len(d) >= 1 /\ first \in Nat /\ first <= dataTime
    OBVIOUS
  <2>1. d # <<>> /\ ~ (dataTime < first)
    BY DEF BeforeData
  <2>2. Len(d) >= 1
    BY <1>1, <2>1, CandleFacts
  <2>3. 1 \in 1 .. Len(d)
    BY <1>1, <2>2
  <2>4. first \in Nat
    BY <1>1, <2>3, CandleFacts
  <2> QED BY <1>1, <2>1, <2>2, <2>4
<1>8. BeforeData(d) => windows = <<>>
  <2> SUFFICES ASSUME BeforeData(d) PROVE windows = <<>>
    OBVIOUS
  <2>1. GetIterator(p) = 0
    BY DEF GetIterator
  <2> QED BY <2>1, Zenon DEF OhlcvWindows
<1>9. ~ BeforeData(d) /\ first = dataTime => windows = <<>>
  <2> SUFFICES ASSUME ~ BeforeData(d), first = dataTime PROVE windows = <<>>
    OBVIOUS
  <2>1. GetIterator(p) = 0 \/ GetIterator(p) = 1
    <3>1. LatestAt(d, dataTime) \in 0 .. Len(d)
      BY <1>1, LatestFacts
    <3>2. ASSUME LatestAt(d, dataTime) > 1 PROVE FALSE
      <4> DEFINE l == LatestAt(d, dataTime)
      <4>1. l \in 1 .. Len(d) /\ 1 \in 1 .. Len(d) /\ l > 1
        BY <1>1, <1>7, <3>1, <3>2
      <4>2. d[l].time <= dataTime
        <5>1. \A i \in 1 .. Len(d) : d[i].time <= dataTime <=> i <= l
          BY <1>1, LatestFacts
        <5> HIDE DEF l
        <5> QED BY <4>1, <5>1
      <4> HIDE DEF l
      <4>3. d[1].time + StepSize <= d[l].time /\ StepSize \in Nat \ {0} /\ d[l].time \in Nat
        BY <1>1, <4>1, CandleFacts
      <4> QED BY <1>1, <4>2, <4>3
    <3> QED BY <1>1, <1>4, <3>1, <3>2
  <2> QED BY <2>1, Zenon DEF OhlcvWindows
<1>10. ~ BeforeData(d) /\ first < dataTime =>
         \E m \in 0 .. MaxCount :
           /\ AreWindows(windows, d, interval, m)
           /\ m = MaxCount \/ Ago(interval, m) <= first
  BY <1>2, OhlcvWalksBack
<1> DEFINE ends == Ago(interval, k - 1)
           begins == Ago(interval, k)
<1> HIDE DEF d, candles, windows, first, ends, begins
<1> SUFFICES /\ BeforeData(d) \/ ends <= first => k \notin DOMAIN candles
             /\ ~ BeforeData(d) /\ ends > first /\ begins >= first =>
                  k \in DOMAIN candles /\ candles[k] = WindowOf(d, interval, k)
             /\ ~ BeforeData(d) /\ ends > first /\ ~ (begins >= first) =>
                  k \in DOMAIN candles /\ candles[k].time = first
  <2>1. ~ BeforeData(d) => (ends > first <=> ~ (ends <= first))
    BY <1>6, <1>7 DEF ends
  <2> QED BY <1>5, <2>1, Zenon DEF d, candles, first, ends, begins
<1>11. CASE BeforeData(d) \/ first = dataTime
  <2>1. k \notin DOMAIN candles
    BY <1>3, <1>8, <1>9, <1>11
  <2>2. ~ BeforeData(d) => ~ (ends > first)
    BY <1>1, <1>6, <1>7, <1>11 DEF ends
  <2> QED BY <1>11, <2>1, <2>2
<1>12. CASE ~ BeforeData(d) /\ first # dataTime
  <2>0. first \in Nat /\ first < dataTime
    BY <1>1, <1>7, <1>12
  <2>1. PICK m \in 0 .. MaxCount : /\ AreWindows(windows, d, interval, m)
                                   /\ m = MaxCount \/ Ago(interval, m) <= first
    BY <1>10, <1>12, <2>0
  <2>2. /\ DOMAIN candles = 1 .. m
        /\ \A j \in 1 .. m : IsWindow(windows[j], d, interval, j)
    BY <1>3, <2>1 DEF AreWindows
  <2>3. ends <= first => k \notin 1 .. m
    <3> SUFFICES ASSUME ends <= first, k \in 1 .. m PROVE FALSE
      OBVIOUS
    <3>1. ends > first
      BY <2>2 DEF IsWindow, ends, first
    <3> QED BY <1>6, <2>0, <3>1 DEF ends
  <2>4. ends > first => k \in 1 .. m
    <3> SUFFICES ASSUME ends > first, k \notin 1 .. m PROVE FALSE
      OBVIOUS
    <3>1. m < k /\ m # MaxCount /\ m \in Nat
      BY <1>2
    <3>2. ends <= Ago(interval, m) /\ Ago(interval, m) <= first /\ Ago(interval, m) \in Int
      BY <1>6, <2>1, <3>1 DEF ends
    <3> QED BY <1>6, <2>0, <3>2 DEF ends
  <2>5. ASSUME k \in 1 .. m
        PROVE  /\ begins >= first => candles[k] = WindowOf(d, interval, k)
               /\ ~ (begins >= first) => candles[k].time = first
    <3> DEFINE w == windows[k]
    <3>1. IsWindow(w, d, interval, k) /\ k \in Nat \ {0}
      BY <1>2, <2>2, <2>5
    <3>2. candles[k] = MergeOhlcv(d, w.first, w.last, w.time)
      BY <1>3, <2>2, <2>5
    <3> HIDE DEF w
    <3>3. begins >= first => MergeOhlcv(d, w.first, w.last, w.time) = WindowOf(d, interval, k)
      BY <1>1, <1>2, <3>1, WindowIsWindowOf DEF begins, first
    <3>4. MergeOhlcv(d, w.first, w.last, w.time).time = w.time
      <4>1. w.first \in 1 .. Len(d) /\ w.last \in w.first .. Len(d) /\ w.time \in Nat
        BY <3>1 DEF IsWindow, Window
      <4>2. Merges(MergeOhlcv(d, w.first, w.last, w.time), d, w.first, w.last, w.time)
        BY <1>1, <4>1, MergeOhlcvMerges
      <4> QED BY <4>2 DEF Merges
    <3>5. ~ (begins >= first) => w.time = first
      <4>1. w.time = (IF begins > first THEN begins ELSE first)
        BY <3>1 DEF IsWindow, begins, first
      <4> QED BY <1>6, <2>0, <4>1 DEF begins
    <3> QED BY <3>2, <3>3, <3>4, <3>5
  <2> QED BY <1>12, <2>2, <2>3, <2>4, <2>5
<1> QED BY <1>11, <1>12

\* get_ohlcv merges for each window the candles that belong to it, for any data,
\* interval and count: its two iterators neither lose nor add one on the way back.
THEOREM CandlesMatchTheirWindows == BackTestSpec => []OhlcvMatchesWindows
<1>1. BackTestInv => OhlcvMatchesWindows
  BY OhlcvMatches DEF BackTestInv
<1> QED BY <1>1, BackTestInvariance, PTL
=============================================================================
