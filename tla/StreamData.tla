----------------------------- MODULE StreamData -----------------------------
(***************************************************************************)
(* The order book of one pair, from the exchange to order_book_cache: the  *)
(* exchange's changes are batched into messages, on_message of the         *)
(* exchange's stream takes them on the websocket thread and applies them   *)
(* entry by entry, one lock and one call of the handlers for each, while   *)
(* the strategy thread subscribes, unsubscribes, resets and reads.         *)
(*                                                                         *)
(* A book is the volume of every level, 0 where there is none.  `books'    *)
(* numbers the exchange's books, and the number is the update id.  A       *)
(* message with the changes after `from' up to `to' names every level they *)
(* touched with its last volume.  Bybit, Coinbase and Kraken send a        *)
(* snapshot when they are subscribed to; for Binance the stream asks the   *)
(* REST API.                                                               *)
(*                                                                         *)
(* Definitions marked `Fault' are what a plausible bug would make of the   *)
(* next definition; only the mutation checks use them.                     *)
(***************************************************************************)
EXTENDS Integers, Sequences

CONSTANTS Kinds,            \* exchanges to look at
          Prices, Volumes,
          MaxVersion,       \* bound on the number of changes of the book
          MaxSubscriptions  \* bound on the number of subscriptions

BookKinds == {"binance", "bybit", "coinbase", "kraken"}

ASSUME StreamDataAssumption ==
  /\ Kinds \subseteq BookKinds \cup {"digifinex"}
  /\ Prices \subseteq Nat /\ Volumes \subseteq Nat /\ 0 \in Volumes
  /\ MaxVersion \in Nat /\ MaxSubscriptions \in Nat

Levels == {"ASK", "BID"} \X Prices
Book == [Levels -> Volumes]
EmptyBook == [level \in Levels |-> 0]

VARIABLES
  kind,
  books,       \* the exchange's book after every change
  subscribed,  \* the exchange sends this stream its changes
  sent,        \* up to this one
  wire,        \* messages on their way
  known,       \* the pair is in _orderBooks,
  cache,       \* with these levels
  at,          \* number of the book that the last message leads to, 0 when there is none
  ids,         \* binance: _orderBookIds of the pair, 0 when there is none
  phase,       \* of on_message: "idle", "asking" the REST API or "applying"
  pending,     \* levels of the message still to apply
  subscriptions,  \* number of subscriptions made
  missed       \* the stream kept an update id through a new subscription

exchangeVars == <<books, subscribed, sent>>
bookVars == <<kind, books, subscribed, sent, wire, known, cache, at, ids, phase, pending, subscriptions,
              missed>>

BookInit ==
  /\ kind \in Kinds
  /\ books = <<EmptyBook>> /\ subscribed = FALSE /\ sent = 0 /\ wire = <<>>
  /\ known = FALSE /\ cache = EmptyBook /\ at = 0 /\ ids = 0
  /\ phase = "idle" /\ pending = {}
  /\ subscriptions = 0 /\ missed = FALSE

-----------------------------------------------------------------------------
(***************************************************************************)
(* The exchange.                                                           *)
(***************************************************************************)
Current == Len(books)

\* Levels that the changes after `from' up to `to' touched.
Touched(from, to) == {level \in Levels : \E v \in from .. to : books[v][level] # books[to][level]}

Change(level, volume) ==
  /\ Current < MaxVersion
  /\ volume # books[Current][level]
  /\ books' = Append(books, [books[Current] EXCEPT ![level] = volume])
  /\ UNCHANGED <<kind, subscribed, sent, wire, known, cache, at, ids, phase, pending, subscriptions,
                 missed>>

Messages == [type : {"update", "snapshot"}, from : Nat, to : Nat]
Message(type, from, to) == [type |-> type, from |-> from, to |-> to]

\* Changes gather for a while: depth@100ms.
Emit ==
  /\ subscribed /\ sent < Current
  /\ wire' = Append(wire, Message("update", sent, Current))
  /\ sent' = Current
  /\ UNCHANGED <<kind, books, subscribed, known, cache, at, ids, phase, pending, subscriptions,
                 missed>>

-----------------------------------------------------------------------------
(***************************************************************************)
(* The strategy thread.                                                    *)
(***************************************************************************)
subscribe ==
  /\ ~ subscribed /\ kind \in BookKinds /\ subscriptions < MaxSubscriptions
  /\ subscribed' = TRUE /\ sent' = Current /\ subscriptions' = subscriptions + 1
  /\ wire' = IF kind = "binance" THEN wire ELSE Append(wire, Message("snapshot", Current, Current))
  /\ missed' = (missed \/ (kind = "binance" /\ ids # 0))
  /\ UNCHANGED <<kind, books, known, cache, at, ids, phase, pending>>

\* The book and the update id stay.
unsubscribe ==
  /\ subscribed
  /\ subscribed' = FALSE
  /\ UNCHANGED <<kind, books, sent, wire, known, cache, at, ids, phase, pending, subscriptions,
                 missed>>

\* disconnect waits for the connection to close, that is for on_message to return,
\* and clears the books.  The update ids stay.
reset ==
  /\ phase = "idle"
  /\ subscribed' = FALSE /\ wire' = <<>>
  /\ known' = FALSE /\ cache' = EmptyBook /\ at' = 0
  /\ UNCHANGED <<kind, books, sent, ids, phase, pending, subscriptions, missed>>

-----------------------------------------------------------------------------
(***************************************************************************)
(* The websocket thread.                                                   *)
(***************************************************************************)
\* initialise_order_book.
Initialise(v) == known' = TRUE /\ cache' = books[v] /\ at' = v

TakeSnapshot ==
  /\ phase = "idle" /\ wire # <<>> /\ Head(wire).type = "snapshot"
  /\ Initialise(Head(wire).to)
  /\ wire' = Tail(wire)
  /\ UNCHANGED <<kind, exchangeVars, ids, phase, pending, subscriptions, missed>>

\* Fault: the ids are not compared.
AlreadyHad_never(m) == FALSE

\* Binance drops the updates that its book has already.
AlreadyHad(m) == kind = "binance" /\ m.to <= ids

\* The first update of Binance is dropped for a snapshot.
TakeUpdate ==
  LET m == Head(wire)
  IN
  /\ phase = "idle" /\ wire # <<>> /\ m.type = "update"
  /\ wire' = Tail(wire)
  /\ IF kind = "binance" /\ ids = 0
     THEN phase' = "asking" /\ UNCHANGED <<pending, at>>
     ELSE IF AlreadyHad(m) THEN UNCHANGED <<phase, pending, at>>
     ELSE phase' = "applying" /\ pending' = Touched(m.from, m.to) /\ at' = m.to
  /\ UNCHANGED <<kind, exchangeVars, known, cache, ids, subscriptions, missed>>

\* The REST API answers with the present book.
SnapshotArrives ==
  /\ phase = "asking"
  /\ Initialise(Current)
  /\ ids' = Current /\ phase' = "idle"
  /\ UNCHANGED <<kind, exchangeVars, wire, pending, subscriptions, missed>>

\* It throws: the exception leaves on_message.
SnapshotFails ==
  /\ phase = "asking" /\ phase' = "idle"
  /\ UNCHANGED <<kind, exchangeVars, wire, known, cache, at, ids, pending, subscriptions,
                 missed>>

\* Binance and Kraken have the asks first; otherwise the order is the exchange's.
MayApply(level) ==
  /\ level \in pending
  /\ (kind \in {"binance", "kraken"} /\ level[1] = "BID") => \A other \in pending : other[1] = "BID"

\* update_order_book: a pair that is not there begins with an empty book.
Apply(level) ==
  /\ phase = "applying" /\ MayApply(level)
  /\ known' = TRUE
  /\ cache' = [cache EXCEPT ![level] = books[at][level]]
  /\ pending' = pending \ {level}
  /\ UNCHANGED <<kind, exchangeVars, wire, at, ids, phase, subscriptions, missed>>

Finish ==
  /\ phase = "applying" /\ pending = {}
  /\ phase' = "idle"
  /\ ids' = IF kind = "binance" THEN at ELSE ids
  /\ UNCHANGED <<kind, exchangeVars, wire, known, cache, at, pending, subscriptions, missed>>

OnMessage == TakeSnapshot \/ TakeUpdate \/ SnapshotArrives \/ SnapshotFails
             \/ (\E level \in Levels : Apply(level)) \/ Finish

BookNext ==
  \/ \E level \in Levels, volume \in Volumes : Change(level, volume)
  \/ Emit
  \/ subscribe \/ unsubscribe \/ reset
  \/ OnMessage

BookSpec == BookInit /\ [][BookNext]_bookVars

-----------------------------------------------------------------------------
(***************************************************************************)
(* Properties.                                                             *)
(***************************************************************************)
StreamTypeOK ==
  /\ kind \in Kinds
  /\ books \in Seq(Book) /\ Len(books) > 0
  /\ subscribed \in BOOLEAN /\ sent \in 0 .. Len(books)
  /\ wire \in Seq(Messages)
  /\ known \in BOOLEAN /\ cache \in Book /\ at \in 0 .. Len(books)
  /\ ids \in 0 .. Len(books)
  /\ phase \in {"idle", "asking", "applying"}
  /\ pending \subseteq Levels
  /\ subscriptions \in Nat /\ missed \in BOOLEAN

\* Between two messages the cached book is the exchange's at one of its changes, the
\* one that the last message led to: however changes were batched, whichever of them a
\* snapshot already had.  Exception of the code: binance_websocket_stream keeps its
\* update ids when it is reset or subscribes again, and takes no new snapshot.
BookIsTheExchanges ==
  known /\ ~ missed /\ phase # "applying" => at > 0 /\ cache = books[at]

\* A handler that reads the book while a message is being applied, or the strategy
\* thread, sees every level as it is after the message or, when the message still has
\* to change it, as it was before.
NoLevelInvented ==
  known /\ ~ missed /\ phase = "applying" =>
    \A level \in Levels : \/ cache[level] = books[at][level]
                          \/ /\ level \in pending
                             /\ \E v \in 1 .. at : cache[level] = books[v][level]
=============================================================================
