------------------------ MODULE ExchangeStreamProofs ------------------------
(***************************************************************************)
(* A pair reported SUBSCRIBED was subscribed, and has sent data, on the    *)
(* connection the stream has now.  The argument is about a reset: by the   *)
(* time it clears the cache the connection is closed, a connection is only *)
(* closed between callbacks, and none starts on a closed connection.       *)
(***************************************************************************)
EXTENDS ExchangeStream, TLAPS

\* Each place of a call, and what the connection can be there.
ConnectionAt ==
  /\ connected <=> connection # "none"
  /\ connection = "none" => call \in {"idle", "create"} /\ DOMAIN trades = {}
  /\ connection = "open" => call = "idle"
  /\ call \in {"reset_clear", "disconnect_clear", "create"} => connection # "closing"
  /\ call = "create" => DOMAIN trades = {}

\* A message in hand is one of the connection the stream has.
HandledMessage ==
  handling # NoPair =>
    /\ source = "current"
    /\ handling \in asked
    /\ connection \in {"open", "closing"}

AskedFirst == /\ served \subseteq asked
              /\ \A i \in DOMAIN wire : wire[i] \in asked

SessionInv == /\ TypeOK
              /\ ConnectionAt
              /\ HandledMessage
              /\ AskedFirst
              /\ SubscribedOnThisConnection

-----------------------------------------------------------------------------
\* The stream starts without a connection.
LEMMA SessionInitially == Init => SessionInv
<1> SUFFICES ASSUME Init
             PROVE  SessionInv
  OBVIOUS
<1>1. DOMAIN trades = {} /\ trades = [p \in {} |-> "current"]
  BY DEF Init
<1>2. trades \in [DOMAIN trades -> {"current", "earlier"}]
  BY <1>1
<1>3. wire \in Seq(Pairs) /\ DOMAIN wire = {}
  BY DEF Init
<1>4. TypeOK
  BY <1>1, <1>2, <1>3 DEF Init, TypeOK, ConnectionStates, Calls
<1>5. ConnectionAt /\ HandledMessage
  BY <1>1 DEF Init, ConnectionAt, HandledMessage
<1>6. AskedFirst /\ SubscribedOnThisConnection
  BY <1>1, <1>3 DEF Init, AskedFirst, SubscribedOnThisConnection, Subscribed
<1> QED BY <1>4, <1>5, <1>6 DEF SessionInv

\* What is left of a queue whose head has been taken was in the queue.
LEMMA TailMembers ==
  ASSUME NEW S, NEW queue \in Seq(S), queue # <<>>
  PROVE  /\ Head(queue) = queue[1] /\ 1 \in DOMAIN queue
         /\ Tail(queue) \in Seq(S)
         /\ \A i \in DOMAIN Tail(queue) : i + 1 \in DOMAIN queue /\ Tail(queue)[i] = queue[i + 1]
OBVIOUS

LEMMA AppendMembers ==
  ASSUME NEW S, NEW queue \in Seq(S), NEW e \in S
  PROVE  /\ Append(queue, e) \in Seq(S)
         /\ \A i \in DOMAIN Append(queue, e) :
              \/ i \in DOMAIN queue /\ Append(queue, e)[i] = queue[i]
              \/ Append(queue, e)[i] = e
OBVIOUS

\* reset and disconnect leave everything to the steps that follow.
LEMMA CloseStep ==
  ASSUME SessionInv, Reset \/ Disconnect
  PROVE  SessionInv'
<1> USE DEF SessionInv
<1>1. TypeOK'
  BY DEF Reset, Disconnect, Using, Calling, Close, TypeOK, sessionVars, handlerVars,
         ConnectionStates, Calls
<1>2. ConnectionAt'
  BY DEF Reset, Disconnect, Using, Calling, Close, TypeOK, ConnectionAt,
         sessionVars, handlerVars
<1>3. HandledMessage' /\ AskedFirst' /\ SubscribedOnThisConnection'
  BY DEF Reset, Disconnect, Using, Calling, Close, HandledMessage, AskedFirst,
         SubscribedOnThisConnection, Subscribed, sessionVars, handlerVars
<1> QED BY <1>1, <1>2, <1>3

\* The connection a reset or a disconnect has waited for is closed, so no
\* message is in hand when the cache is cleared.
LEMMA GoOnStep ==
  ASSUME SessionInv, GoOn
  PROVE  SessionInv'
<1> USE DEF SessionInv
<1>1. CASE AwaitClosed
  BY <1>1 DEF AwaitClosed, TypeOK, ConnectionAt, HandledMessage, AskedFirst,
              SubscribedOnThisConnection, Subscribed, sessionVars, handlerVars,
              ConnectionStates, Calls
<1>2. CASE ClearSubscriptions
  BY <1>2 DEF ClearSubscriptions, TypeOK, ConnectionAt, HandledMessage, AskedFirst,
              SubscribedOnThisConnection, Subscribed, sessionVars, handlerVars,
              ConnectionStates, Calls
<1>3. CASE Connect
  <2>1. handling = NoPair
    BY <1>3 DEF Connect, ConnectionAt, HandledMessage
  <2>2. trades' = [p \in {} |-> "earlier"] /\ DOMAIN trades' = {}
    BY <1>3 DEF Connect, ConnectionAt
  <2> QED
    BY <1>3, <2>1, <2>2
       DEF Connect, TypeOK, ConnectionAt, HandledMessage, AskedFirst,
           SubscribedOnThisConnection, Subscribed, ConnectionStates, Calls
<1>4. CASE ConnectFails
  BY <1>4 DEF ConnectFails, TypeOK, ConnectionAt, HandledMessage, AskedFirst,
              SubscribedOnThisConnection, Subscribed, sessionVars, handlerVars,
              ConnectionStates, Calls
<1> QED BY <1>1, <1>2, <1>3, <1>4 DEF GoOn

\* The remaining calls of the strategy.
LEMMA StrategyStep ==
  ASSUME SessionInv,
         \/ GetWebsocketStream
         \/ ConnectionStatusThrows
         \/ \E p \in Pairs : Subscribe(p) \/ Unsubscribe(p)
  PROVE  SessionInv'
<1> USE DEF SessionInv
<1>1. CASE GetWebsocketStream
  BY <1>1 DEF GetWebsocketStream, Calling, TypeOK, ConnectionAt, HandledMessage,
              AskedFirst, SubscribedOnThisConnection, Subscribed, sessionVars,
              handlerVars, ConnectionStates, Calls
<1>2. CASE ConnectionStatusThrows
  BY <1>2 DEF ConnectionStatusThrows, Using, Calling, TypeOK, ConnectionAt,
              HandledMessage, AskedFirst, SubscribedOnThisConnection, Subscribed,
              sessionVars, handlerVars, ConnectionStates, Calls
<1>3. ASSUME NEW p \in Pairs, Subscribe(p)
      PROVE  SessionInv'
  <2>1. TypeOK'
    BY <1>3 DEF Subscribe, Using, Calling, TypeOK, handlerVars
  <2>2. ConnectionAt' /\ HandledMessage' /\ AskedFirst' /\ SubscribedOnThisConnection'
    BY <1>3 DEF Subscribe, Using, Calling, TypeOK, ConnectionAt, HandledMessage,
                AskedFirst, SubscribedOnThisConnection, Subscribed, handlerVars
  <2> QED BY <2>1, <2>2
<1>4. ASSUME NEW p \in Pairs, Unsubscribe(p)
      PROVE  SessionInv'
  BY <1>4 DEF Unsubscribe, Using, Calling, TypeOK, ConnectionAt, HandledMessage,
              AskedFirst, SubscribedOnThisConnection, Subscribed, handlerVars,
              ConnectionStates, Calls
<1> QED BY <1>1, <1>2, <1>3, <1>4

\* The websocket thread takes and stores messages of the connection that is
\* there, and the connection changes between callbacks.
LEMMA WebsocketStep ==
  ASSUME SessionInv, WebsocketThread \/ RemoteCloses
  PROVE  SessionInv'
<1> USE DEF SessionInv
<1>1. CASE ReceiveMessage
  <2>1. wire \in Seq(Pairs) /\ wire # <<>> /\ wire' = Tail(wire) /\ handling' = Head(wire)
    BY <1>1 DEF ReceiveMessage, TypeOK
  <2>2. handling' = wire[1] /\ 1 \in DOMAIN wire /\ wire' \in Seq(Pairs)
    BY <2>1, TailMembers
  <2>3. \A i \in DOMAIN wire' : i + 1 \in DOMAIN wire /\ wire'[i] = wire[i + 1]
    BY <2>1, TailMembers
  <2>4. AskedFirst'
    BY <1>1, <2>3 DEF ReceiveMessage, AskedFirst
  <2>5. handling' \in asked /\ handling' \in Pairs
    BY <2>2 DEF AskedFirst, TypeOK
  <2> QED
    BY <1>1, <2>2, <2>4, <2>5
       DEF ReceiveMessage, TypeOK, ConnectionAt, HandledMessage,
           SubscribedOnThisConnection, Subscribed, ConnectionStates, Calls
<1>2. CASE StoreTrade
  <2>1. handling \in Pairs /\ handling \in asked /\ source = "current"
    BY <1>2 DEF StoreTrade, TypeOK, HandledMessage
  <2>2. /\ DOMAIN trades' = DOMAIN trades \cup {handling}
        /\ \A p \in DOMAIN trades' :
             trades'[p] = IF p = handling THEN source ELSE trades[p]
    BY <1>2 DEF StoreTrade
  <2>3. trades' \in [DOMAIN trades' -> {"current", "earlier"}]
    BY <1>2, <2>1, <2>2 DEF StoreTrade, TypeOK
  <2>4. SubscribedOnThisConnection'
    BY <1>2, <2>1, <2>2 DEF StoreTrade, SubscribedOnThisConnection, Subscribed, sessionVars
  <2>5. ConnectionAt'
    BY <1>2, <2>1, <2>2
       DEF StoreTrade, ConnectionAt, HandledMessage, sessionVars
  <2> QED
    BY <1>2, <2>1, <2>2, <2>3, <2>4, <2>5
       DEF StoreTrade, TypeOK, HandledMessage, AskedFirst, sessionVars
<1>3. CASE CloseCompletes
  BY <1>3 DEF CloseCompletes, TypeOK, ConnectionAt, HandledMessage, AskedFirst,
              SubscribedOnThisConnection, Subscribed, handlerVars, ConnectionStates, Calls
<1>4. CASE ConnectionExpires
  BY <1>4 DEF ConnectionExpires, TypeOK, ConnectionAt, HandledMessage, AskedFirst,
              SubscribedOnThisConnection, Subscribed, sessionVars, handlerVars,
              ConnectionStates, Calls
<1>5. CASE RemoteCloses
  BY <1>5 DEF RemoteCloses, TypeOK, ConnectionAt, HandledMessage, AskedFirst,
              SubscribedOnThisConnection, Subscribed, sessionVars, handlerVars,
              ConnectionStates, Calls
<1> QED BY <1>1, <1>2, <1>3, <1>4, <1>5 DEF WebsocketThread

\* The exchange sends what was asked for.
LEMMA ExchangeStep ==
  ASSUME SessionInv, NEW p \in Pairs, ExchangeSends(p)
  PROVE  SessionInv'
<1> USE DEF SessionInv
<1>1. wire \in Seq(Pairs) /\ wire' = Append(wire, p) /\ p \in asked
  BY DEF ExchangeSends, TypeOK, AskedFirst
<1>2. wire' \in Seq(Pairs)
  BY <1>1, AppendMembers
<1>3. \A i \in DOMAIN wire' : \/ i \in DOMAIN wire /\ wire'[i] = wire[i]
                              \/ wire'[i] = p
  BY <1>1, AppendMembers
<1>4. AskedFirst'
  BY <1>1, <1>3 DEF ExchangeSends, AskedFirst
<1> QED
  BY <1>2, <1>4 DEF ExchangeSends, TypeOK, ConnectionAt, HandledMessage,
                    SubscribedOnThisConnection, Subscribed, handlerVars

\* The invariant is inductive.
LEMMA SessionNext == SessionInv /\ [Next]_vars => SessionInv'
<1> SUFFICES ASSUME SessionInv, [Next]_vars
             PROVE  SessionInv'
  OBVIOUS
<1>1. CASE Next
  BY <1>1, CloseStep, GoOnStep, StrategyStep, WebsocketStep, ExchangeStep DEF Next
<1>2. CASE UNCHANGED vars
  BY <1>2 DEF vars, SessionInv, TypeOK, ConnectionAt, HandledMessage, AskedFirst,
              SubscribedOnThisConnection, Subscribed
<1> QED BY <1>1, <1>2

LEMMA SessionInvariance == Spec => []SessionInv
BY SessionInitially, SessionNext, PTL DEF Spec

-----------------------------------------------------------------------------
\* A pair get_subscription_status reports was subscribed, and has sent data, on
\* the connection the stream has now (reset, update_trade, close_connection).
THEOREM StatusIsOfThisConnection == Spec => []SubscribedOnThisConnection
BY SessionInvariance, PTL DEF SessionInv

\* get_websocket_stream never returns a stream whose _connection is null.
THEOREM NoNullConnection == Spec => []HandedOutStreamHasConnection
<1>1. SessionInv => HandedOutStreamHasConnection
  BY DEF SessionInv, ConnectionAt, HandedOutStreamHasConnection
<1> QED BY <1>1, SessionInvariance, PTL
=============================================================================
