--------------------------- MODULE ExchangeStream ---------------------------
(***************************************************************************)
(* The session of exchange_websocket_stream: connecting, resetting and     *)
(* disconnecting a stream, subscribing and unsubscribing pairs, and what   *)
(* get_subscription_status says meanwhile (trade channel; _ohlcv and       *)
(* _orderBooks are kept the same way).                                     *)
(*                                                                         *)
(* The strategy thread calls the stream.  The websocket thread is the one  *)
(* thread of websocket_client: it runs the message callbacks and every     *)
(* change of a connection's state except the two made by a call, so the    *)
(* state of a connection changes between callbacks, never within one.      *)
(* close_connection makes the strategy thread wait for it.                 *)
(*                                                                         *)
(* Definitions marked `Fault' are what a plausible bug would make of the   *)
(* next definition; only the mutation checks use them.                     *)
(***************************************************************************)
EXTENDS Naturals, Sequences, FiniteSets

CONSTANTS Pairs,    \* tradable pairs
          MaxWire,  \* bound on the messages in flight
          NoPair

ASSUME StreamAssumption == MaxWire \in Nat /\ NoPair \notin Pairs

VARIABLES
  connected,   \* exchange::_websocketConnected: the stream has been handed out
  connection,  \* _connection: its state, or "none" for the null pointer
  call,        \* where the strategy thread is in a call of the stream
  handling,    \* the pair of the message the websocket thread handles
  source,      \* the connection that message came from
  pairs,       \* keys of _pairs
  trades,      \* _trades: pair -> the connection its last trade came from
  served,      \* pairs the exchange sends trades of on this connection
  asked,       \* pairs a subscribe message was sent for on this connection
  wire,        \* messages of this connection on their way
  ended        \* an exception nothing catches has ended the strategy's loop

vars == <<connected, connection, call, handling, source, pairs, trades, served, asked,
          wire, ended>>
handlerVars == <<handling, source>>
sessionVars == <<served, asked, wire>>

(***************************************************************************)
(* A connection is open, being closed (by either end), closed but still    *)
(* held by the client's own handlers, or expired.                          *)
(***************************************************************************)
ConnectionStates == {"none", "open", "closing", "closed", "expired"}

\* Places of a reset (or of the one in get_websocket_stream) or a disconnect.
Calls == {"idle", "reset_wait", "reset_clear", "create",
          "disconnect_wait", "disconnect_clear"}

Init == /\ connected = FALSE
        /\ connection = "none"
        /\ call = "idle"
        /\ handling = NoPair /\ source = "current"
        /\ pairs = {}
        /\ trades = <<>>
        /\ served = {} /\ asked = {} /\ wire = <<>>
        /\ ended = FALSE

Subscribed(p) == p \in DOMAIN trades   \* get_subscription_status

Calling == call = "idle" /\ ~ended
Using == Calling /\ connected

-----------------------------------------------------------------------------
(***************************************************************************)
(* Calls of the strategy thread.                                           *)
(***************************************************************************)
\* Fault: _websocketConnected is set before the reset that may fail.
HandOutThenConnect ==
  /\ Calling /\ ~connected
  /\ connected' = TRUE
  /\ call' = "create"
  /\ UNCHANGED <<connection, handlerVars, pairs, trades, sessionVars, ended>>

\* exchange::get_websocket_stream, the first time: there is no connection, and
\* reset creates it.  _websocketConnected is set when reset has returned.
GetWebsocketStream ==
  /\ Calling /\ ~connected
  /\ call' = "create"
  /\ UNCHANGED <<connected, connection, handlerVars, pairs, trades, sessionVars, ended>>

\* Fault: an expired connection is reported like one that is not open.
CloseThrowsWhenExpired(wait, clear) ==
  \/ /\ connection = "open"
     /\ connection' = "closing"
     /\ call' = wait
     /\ UNCHANGED trades
  \/ /\ connection # "open"
     /\ UNCHANGED <<connection, call, trades>>

(***************************************************************************)
(* websocket_client::close_connection.  An expired connection is left      *)
(* alone; for one that is neither open nor expired, websocketpp reports    *)
(* invalid_state and a websocket_error leaves reset and disconnect before  *)
(* clear_subscriptions.                                                    *)
(***************************************************************************)
Close(wait, clear) ==
  \/ /\ connection = "expired"
     /\ call' = clear
     /\ UNCHANGED <<connection, trades>>
  \/ /\ connection = "open"
     /\ connection' = "closing"
     /\ call' = wait
     /\ UNCHANGED trades
  \/ /\ connection \in {"closing", "closed"}
     /\ UNCHANGED <<connection, call, trades>>

Reset == /\ Using
         /\ Close("reset_wait", "reset_clear")
         /\ UNCHANGED <<connected, handlerVars, pairs, sessionVars, ended>>

Disconnect == /\ Using
              /\ Close("disconnect_wait", "disconnect_clear")
              /\ UNCHANGED <<connected, handlerVars, pairs, sessionVars, ended>>

\* Fault: the loop waits for an open connection.
AwaitOpen ==
  /\ call \in {"reset_wait", "disconnect_wait"}
  /\ connection = "open"
  /\ call' = IF call = "reset_wait" THEN "reset_clear" ELSE "disconnect_clear"
  /\ UNCHANGED <<connected, connection, handlerVars, pairs, trades, sessionVars, ended>>

\* Fault: the connection is told to close but not waited for.
AwaitNothing ==
  /\ call \in {"reset_wait", "disconnect_wait"}
  /\ call' = IF call = "reset_wait" THEN "reset_clear" ELSE "disconnect_clear"
  /\ UNCHANGED <<connected, connection, handlerVars, pairs, trades, sessionVars, ended>>

\* The loop of close_connection ends when the state is no longer `closing'.
AwaitClosed ==
  /\ call \in {"reset_wait", "disconnect_wait"}
  /\ connection # "closing"
  /\ call' = IF call = "reset_wait" THEN "reset_clear" ELSE "disconnect_clear"
  /\ UNCHANGED <<connected, connection, handlerVars, pairs, trades, sessionVars, ended>>

ClearSubscriptions ==
  /\ call \in {"reset_clear", "disconnect_clear"}
  /\ trades' = <<>>
  /\ call' = IF call = "reset_clear" THEN "create" ELSE "idle"
  /\ UNCHANGED <<connected, connection, handlerVars, pairs, sessionVars, ended>>

\* create_connection succeeds.  The new connection serves nothing: _pairs is
\* kept but no subscription is sent again.
Connect ==
  /\ call = "create"
  /\ connection' = "open"
  /\ connected' = TRUE
  /\ call' = "idle"
  /\ trades' = [p \in DOMAIN trades |-> "earlier"]
  /\ source' = "earlier"
  /\ served' = {} /\ asked' = {} /\ wire' = <<>>
  /\ UNCHANGED <<handling, pairs, ended>>

\* create_connection throws: _connection stays what it was.
ConnectFails ==
  /\ call = "create"
  /\ call' = "idle"
  /\ UNCHANGED <<connected, connection, handlerVars, pairs, trades, sessionVars, ended>>

\* subscribe enters the pair, then sends; sending on a connection that is not
\* open throws a websocket_error.
Subscribe(p) ==
  /\ Using
  /\ pairs' = pairs \cup {p}
  /\ IF connection = "open"
       THEN served' = served \cup {p} /\ asked' = asked \cup {p}
       ELSE UNCHANGED <<served, asked>>
  /\ UNCHANGED <<connected, connection, call, handlerVars, trades, wire, ended>>

\* unsubscribe only sends: no stream calls set_unsubscribed.
Unsubscribe(p) ==
  /\ Using
  /\ connection = "open"
  /\ served' = served \ {p}
  /\ UNCHANGED <<connected, connection, call, handlerVars, pairs, trades, asked, wire, ended>>

\* connection_status of a connection in an intermediary state throws a
\* logic_error, which the loop of the runner does not catch.
ConnectionStatusThrows ==
  /\ Using
  /\ connection = "closing"
  /\ ended' = TRUE
  /\ UNCHANGED <<connected, connection, call, handlerVars, pairs, trades, sessionVars>>

-----------------------------------------------------------------------------
(***************************************************************************)
(* The exchange and the websocket thread.                                  *)
(***************************************************************************)
ExchangeSends(p) ==
  /\ connection = "open"
  /\ p \in served
  /\ Len(wire) < MaxWire
  /\ wire' = Append(wire, p)
  /\ UNCHANGED <<connected, connection, call, handlerVars, pairs, trades, served, asked, ended>>

\* A message callback starts; websocketpp drops messages of a connection that
\* is not open.
ReceiveMessage ==
  /\ handling = NoPair
  /\ connection = "open"
  /\ wire # <<>>
  /\ handling' = Head(wire)
  /\ source' = "current"
  /\ wire' = Tail(wire)
  /\ UNCHANGED <<connected, connection, call, pairs, trades, served, asked, ended>>

\* Fault: insert_or_assign only assigns.
StoreIfCached ==
  /\ handling # NoPair
  /\ trades' = [p \in DOMAIN trades |-> IF p = handling THEN source ELSE trades[p]]
  /\ handling' = NoPair
  /\ UNCHANGED <<connected, connection, call, source, pairs, sessionVars, ended>>

\* update_trade.
StoreTrade ==
  /\ handling # NoPair
  /\ trades' = [p \in DOMAIN trades \cup {handling} |->
                  IF p = handling THEN source ELSE trades[p]]
  /\ handling' = NoPair
  /\ UNCHANGED <<connected, connection, call, source, pairs, sessionVars, ended>>

\* The other end closes, or the network fails.
RemoteCloses ==
  /\ handling = NoPair
  /\ connection = "open"
  /\ connection' = "closing"
  /\ UNCHANGED <<connected, call, handlerVars, pairs, trades, sessionVars, ended>>

\* The close handshake ends, or times out.
CloseCompletes ==
  /\ handling = NoPair
  /\ connection = "closing"
  /\ connection' = "closed"
  /\ served' = {} /\ wire' = <<>>
  /\ UNCHANGED <<connected, call, handlerVars, pairs, trades, asked, ended>>

\* The last handler that holds the connection has run.
ConnectionExpires ==
  /\ handling = NoPair
  /\ connection = "closed"
  /\ connection' = "expired"
  /\ UNCHANGED <<connected, call, handlerVars, pairs, trades, sessionVars, ended>>

-----------------------------------------------------------------------------
GoOn == AwaitClosed \/ ClearSubscriptions \/ Connect \/ ConnectFails
WebsocketThread == ReceiveMessage \/ StoreTrade \/ CloseCompletes \/ ConnectionExpires

Next == \/ GetWebsocketStream \/ Reset \/ Disconnect
        \/ GoOn
        \/ \E p \in Pairs : Subscribe(p) \/ Unsubscribe(p) \/ ExchangeSends(p)
        \/ ConnectionStatusThrows
        \/ WebsocketThread
        \/ RemoteCloses

Spec == Init /\ [][Next]_vars

(***************************************************************************)
(* A call goes on, the websocket thread runs, and an exchange that serves  *)
(* a pair sends its trades (strongly fair: that the wire is full of other  *)
(* pairs' messages now and then is an artefact of the bound MaxWire).      *)
(***************************************************************************)
FairSpec == /\ Spec
            /\ WF_vars(GoOn)
            /\ WF_vars(WebsocketThread)
            /\ \A p \in Pairs : SF_vars(ExchangeSends(p))

(***************************************************************************)
(* A strategy that keeps asking for its stream and resetting one that is   *)
(* not open, on a network that accepts a connection sooner or later.       *)
(***************************************************************************)
Recovers == /\ WF_vars(GetWebsocketStream)
            /\ SF_vars(Reset /\ connection # "open")
            /\ SF_vars(Connect)

PersistentSpec == FairSpec /\ Recovers

-----------------------------------------------------------------------------
TypeOK == /\ connected \in BOOLEAN
          /\ connection \in ConnectionStates
          /\ call \in Calls
          /\ handling \in Pairs \cup {NoPair}
          /\ source \in {"current", "earlier"}
          /\ pairs \in SUBSET Pairs
          /\ DOMAIN trades \subseteq Pairs
          /\ trades \in [DOMAIN trades -> {"current", "earlier"}]
          /\ served \in SUBSET Pairs
          /\ asked \in SUBSET Pairs
          /\ wire \in Seq(Pairs)
          /\ ended \in BOOLEAN

\* SUBSCRIBED means subscribed: a pair get_subscription_status reports was
\* asked for, and has sent data, on the connection the stream has now; nothing
\* of an earlier connection survives a reset.
SubscribedOnThisConnection ==
  \A p \in Pairs : Subscribed(p) => trades[p] = "current" /\ p \in asked

\* Whoever has the stream may send: the pointer _connection is not null once
\* get_websocket_stream has returned.
HandedOutStreamHasConnection == connected => connection # "none"

\* A call of reset or disconnect returns (close_connection spins until the
\* websocket thread has closed the connection).
CallsReturn == call # "idle" ~> call = "idle"

\* A subscription that lasts brings data: the pair becomes SUBSCRIBED unless
\* the connection is closed or the pair unsubscribed first.
SubscriptionsTakeEffect ==
  \A p \in Pairs :
    p \in served ~> (Subscribed(p) \/ p \notin served \/ connection # "open")

\* No state of a connection is a dead end: a strategy that retries gets an
\* open connection again, whatever close_connection threw on the way.
RetryingReconnects == connection # "open" ~> (connection = "open" \/ ended)
=============================================================================
