------------------------- MODULE StreamMessagesProofs -------------------------
(***************************************************************************)
(* What on_message makes of the JSON of the five exchanges, for any        *)
(* pairs, prices, intervals and number of messages.  First, of the data    *)
(* alone: the cached order book is the exchange's.  Then trades and        *)
(* candles carry the number they were made under as their time; the        *)
(* invariant ItemsInv orders the numbers on the way from the exchange to   *)
(* the handlers.  For the order book, the messages of each exchange are    *)
(* read back into calls that name the touched levels once each, from which *)
(* every step here is one of StreamData's.                                 *)
(***************************************************************************)
EXTENDS StreamMessages, NaturalLemmas, SequenceTheorems, FiniteSetTheorems

-----------------------------------------------------------------------------
(***************************************************************************)
(* The cached order book is the exchange's.  The argument is about the     *)
(* messages on their way: each begins no later than the one before it      *)
(* ends, and the first no later than the book that the stream has; so an   *)
(* update names every level in which that book and the new one differ.     *)
(***************************************************************************)

\* The phases of on_message, and what a stream has without a snapshot.
Phases ==
  /\ phase = "asking" => kind = "binance" /\ ids = 0
  /\ kind # "binance" => ids = 0 /\ ~ missed
  /\ ids = 0 => ~ missed
  /\ phase = "applying" => at > 0
  /\ kind = "binance" => \A i \in DOMAIN wire : wire[i].type = "update"
  /\ kind = "binance" /\ (known \/ phase = "applying") => ids # 0
  /\ ~ known /\ ~ missed => at = 0 /\ phase # "applying"
  /\ kind = "binance" /\ ids # 0 /\ ~ missed /\ ~ known => wire = <<>> /\ ~ subscribed

\* Messages arrive in the order of the changes.
Ordered ==
  /\ \A i \in DOMAIN wire : 1 <= wire[i].from /\ wire[i].from <= wire[i].to /\ wire[i].to <= sent
  /\ \A i, j \in DOMAIN wire : i <= j => wire[i].to <= wire[j].to
  /\ kind # "binance" => \A i \in DOMAIN wire : at <= wire[i].to
  /\ kind # "binance" => at <= sent
  /\ subscribed => 1 <= sent

\* The stream has a snapshot, or will get one with the messages.
Follows == kind # "binance" \/ (ids # 0 /\ ~ missed)

\* No change is left out between two messages, nor between the book and the first.
Chained ==
  Follows =>
    /\ \A i \in DOMAIN wire : \/ wire[i].type = "snapshot"
                              \/ wire[i].from <= at
                              \/ i > 1 /\ wire[i].from <= wire[i - 1].to
    /\ subscribed => sent <= at \/ (wire # <<>> /\ sent <= wire[Len(wire)].to)

\* The cached book, between messages and while one is applied.
CacheOK ==
  known /\ ~ missed =>
    /\ at > 0
    /\ phase # "applying" => cache = books[at] /\ (kind = "binance" => ids = at)
    /\ phase = "applying" =>
         \A level \in Levels :
           \/ cache[level] = books[at][level]
           \/ level \in pending /\ \E v \in 1 .. at : cache[level] = books[v][level]

BookInv == StreamTypeOK /\ Phases /\ Ordered /\ Chained /\ CacheOK

-----------------------------------------------------------------------------
\* The stream starts with nothing.
LEMMA BookInitially == BookInit => BookInv
<1> SUFFICES ASSUME BookInit PROVE BookInv
  OBVIOUS
<1>1. EmptyBook \in Book
  BY StreamDataAssumption DEF EmptyBook, Book
<1>2. wire \in Seq(Messages) /\ DOMAIN wire = {}
  BY DEF BookInit
<1>3. books \in Seq(Book) /\ Len(books) = 1
  BY <1>1 DEF BookInit
<1>4. /\ kind \in Kinds /\ subscribed \in BOOLEAN /\ known \in BOOLEAN /\ missed \in BOOLEAN
      /\ cache \in Book /\ phase \in {"idle", "asking", "applying"} /\ pending \subseteq Levels
  BY <1>1 DEF BookInit
<1>5. sent = 0 /\ at = 0 /\ ids = 0 /\ subscriptions = 0
  BY DEF BookInit
<1>6. StreamTypeOK
  BY <1>2, <1>3, <1>4, <1>5 DEF StreamTypeOK
<1>7. Phases /\ Ordered /\ Chained /\ CacheOK
  BY <1>2 DEF BookInit, Phases, Ordered, Chained, Follows, CacheOK
<1> QED BY <1>6, <1>7 DEF BookInv

\* What is left of a queue whose head has been taken was in the queue, one place further.
LEMMA TailMembers ==
  ASSUME NEW S, NEW queue \in Seq(S), queue # <<>>
  PROVE  /\ Head(queue) = queue[1] /\ 1 \in DOMAIN queue /\ queue[1] \in S
         /\ Tail(queue) \in Seq(S)
         /\ \A i \in DOMAIN Tail(queue) : i \in Nat /\ i + 1 \in DOMAIN queue /\ Tail(queue)[i] = queue[i + 1]
         /\ Len(Tail(queue)) = Len(queue) - 1
         /\ Tail(queue) # <<>> => Len(queue) > 1 /\ Tail(queue)[Len(queue) - 1] = queue[Len(queue)]
         /\ Tail(queue) = <<>> => Len(queue) = 1
<1>1. Len(queue) \in Nat /\ Len(queue) > 0
  OBVIOUS
<1>2. Len(Tail(queue)) = Len(queue) - 1 /\ Tail(queue) \in Seq(S)
  OBVIOUS
<1>3. \A i \in DOMAIN Tail(queue) : i \in Nat /\ i + 1 \in DOMAIN queue /\ Tail(queue)[i] = queue[i + 1]
  OBVIOUS
<1>4. Tail(queue) # <<>> => Len(queue) > 1 /\ Tail(queue)[Len(queue) - 1] = queue[Len(queue)]
  <2> SUFFICES ASSUME Tail(queue) # <<>>
               PROVE  Len(queue) > 1 /\ Tail(queue)[Len(queue) - 1] = queue[Len(queue)]
    OBVIOUS
  <2>1. Len(Tail(queue)) # 0
    BY <1>2
  <2>2. Len(queue) > 1
    BY <1>1, <1>2, <2>1
  <2>3. Len(queue) - 1 \in DOMAIN Tail(queue)
    BY <1>1, <1>2, <2>2
  <2> QED BY <1>1, <1>3, <2>2, <2>3
<1>5. Tail(queue) = <<>> => Len(queue) = 1
  BY <1>1, <1>2
<1> QED BY <1>1, <1>2, <1>3, <1>4, <1>5

\* A queue with a new member has those it had and the new one.
LEMMA AppendMembers ==
  ASSUME NEW S, NEW queue \in Seq(S), NEW e \in S
  PROVE  /\ Append(queue, e) \in Seq(S) /\ Append(queue, e) # <<>>
         /\ Len(Append(queue, e)) = Len(queue) + 1
         /\ Append(queue, e)[Len(queue) + 1] = e
         /\ \A i \in DOMAIN queue : i \in DOMAIN Append(queue, e) /\ Append(queue, e)[i] = queue[i]
         /\ \A i \in DOMAIN Append(queue, e) : i \in DOMAIN queue \/ i = Len(queue) + 1
OBVIOUS

\* An update names every level in which the book that the stream has and the book it
\* leads to differ.
LEMMA TouchedIsEnough ==
  ASSUME NEW from \in Nat, NEW to \in Nat, NEW v \in from .. to, NEW level \in Levels,
         level \notin Touched(from, to)
  PROVE  books[v][level] = books[to][level]
BY DEF Touched

-----------------------------------------------------------------------------
\* A change of the exchange's book leaves the earlier ones.
LEMMA ChangeKeeps ==
  ASSUME BookInv, NEW level \in Levels, NEW volume \in Volumes, Change(level, volume)
  PROVE  BookInv'
<1> DEFINE b == [books[Len(books)] EXCEPT ![level] = volume]
<1>1. books \in Seq(Book) /\ Len(books) \in Nat /\ Len(books) > 0
  BY DEF BookInv, StreamTypeOK
<1>2. b \in Book
  BY <1>1 DEF Book
<1>3. books' = Append(books, b)
  BY DEF Change, Current
<1> HIDE DEF b
<1>4. /\ books' \in Seq(Book) /\ Len(books') = Len(books) + 1
      /\ \A v \in 1 .. Len(books) : books'[v] = books[v]
  BY <1>1, <1>2, <1>3, AppendMembers
<1>5. UNCHANGED <<kind, subscribed, sent, wire, known, cache, at, ids, phase, pending, subscriptions, missed>>
  BY DEF Change
<1>6. StreamTypeOK'
  BY <1>1, <1>4, <1>5 DEF BookInv, StreamTypeOK
<1>7. Phases' /\ Ordered' /\ Chained'
  BY <1>5 DEF BookInv, Phases, Ordered, Chained, Follows
<1>8. CacheOK'
  <2>1. at \in 0 .. Len(books)
    BY DEF BookInv, StreamTypeOK
  <2> QED BY <1>1, <1>4, <1>5, <2>1 DEF BookInv, CacheOK
<1> QED BY <1>6, <1>7, <1>8 DEF BookInv

\* A new message, an update that begins where the last one ended or a snapshot, keeps
\* the order.
LEMMA SentInOrder ==
  ASSUME BookInv, NEW m \in Messages, wire' = Append(wire, m), sent' = m.to,
         1 <= m.from, m.from <= m.to, sent <= m.to,
         UNCHANGED <<kind, at, ids, missed>>,
         m.type = "snapshot" \/ (subscribed /\ m.from = sent)
  PROVE  Ordered' /\ Chained'
<1>1. /\ sent \in Int /\ wire \in Seq(Messages) /\ at \in Int /\ m.from \in Int /\ m.to \in Int
  BY DEF BookInv, StreamTypeOK, Messages
<1>2. /\ wire' # <<>> /\ Len(wire') = Len(wire) + 1 /\ wire'[Len(wire')] = m
      /\ \A i \in DOMAIN wire : wire'[i] = wire[i]
      /\ \A i \in DOMAIN wire' : i \in DOMAIN wire \/ i = Len(wire')
  BY <1>1, AppendMembers
<1>3. Len(wire) \in Nat /\ \A i \in DOMAIN wire : /\ i \in 1 .. Len(wire)
                                                /\ wire[i].from \in Int /\ wire[i].to \in Int
  <2>1. Len(wire) \in Nat /\ \A i \in DOMAIN wire : i \in 1 .. Len(wire) /\ wire[i] \in Messages
    BY <1>1
  <2> QED BY <2>1 DEF Messages
<1>4. \A i \in DOMAIN wire' : 1 <= wire'[i].from /\ wire'[i].from <= wire'[i].to /\ wire'[i].to <= sent'
  <2> SUFFICES ASSUME NEW i \in DOMAIN wire'
               PROVE  1 <= wire'[i].from /\ wire'[i].from <= wire'[i].to /\ wire'[i].to <= sent'
    OBVIOUS
  <2>1. CASE i \in DOMAIN wire
    BY <1>1, <1>2, <1>3, <2>1 DEF BookInv, Ordered
  <2>2. CASE i = Len(wire')
    BY <1>1, <1>2, <2>2
  <2> QED BY <1>2, <2>1, <2>2
<1>5. \A i, j \in DOMAIN wire' : i <= j => wire'[i].to <= wire'[j].to
  <2> SUFFICES ASSUME NEW i \in DOMAIN wire', NEW j \in DOMAIN wire', i <= j
               PROVE  wire'[i].to <= wire'[j].to
    OBVIOUS
  <2>1. CASE j = Len(wire')
    BY <1>1, <1>2, <1>4, <2>1
  <2>2. CASE j # Len(wire')
    <3>1. j \in DOMAIN wire /\ i # Len(wire')
      BY <1>2, <1>3, <2>2
    <3>2. i \in DOMAIN wire
      BY <1>2, <3>1
    <3> QED BY <1>2, <3>1, <3>2 DEF BookInv, Ordered
  <2> QED BY <2>1, <2>2
<1>6. kind # "binance" => at <= sent' /\ \A i \in DOMAIN wire' : at <= wire'[i].to
  <2> SUFFICES ASSUME kind # "binance"
               PROVE  at <= sent' /\ \A i \in DOMAIN wire' : at <= wire'[i].to
    OBVIOUS
  <2>1. at <= sent /\ at <= sent'
    BY <1>1 DEF BookInv, Ordered
  <2>2. ASSUME NEW i \in DOMAIN wire' PROVE at <= wire'[i].to
    <3>1. CASE i \in DOMAIN wire
      BY <1>2, <3>1 DEF BookInv, Ordered
    <3>2. CASE i = Len(wire')
      BY <1>2, <2>1, <3>2
    <3> QED BY <1>2, <3>1, <3>2
  <2> QED BY <2>1, <2>2
<1>7. 1 <= sent'
  BY <1>1
<1>8. Ordered'
  BY <1>4, <1>5, <1>6, <1>7 DEF Ordered
<1>9. ASSUME Follows, NEW i \in DOMAIN wire'
      PROVE  \/ wire'[i].type = "snapshot"
             \/ wire'[i].from <= at
             \/ i > 1 /\ wire'[i].from <= wire'[i - 1].to
  <2>1. CASE i \in DOMAIN wire
    <3>1. wire[i].type = "snapshot" \/ wire[i].from <= at \/ (i > 1 /\ wire[i].from <= wire[i - 1].to)
      BY <1>9, <2>1 DEF BookInv, Chained
    <3>2. i > 1 => i - 1 \in DOMAIN wire
      BY <1>1, <1>3, <2>1
    <3> QED BY <1>2, <2>1, <3>1, <3>2
  <2>2. CASE i = Len(wire') /\ m.type # "snapshot"
    <3>1. sent <= at \/ (wire # <<>> /\ sent <= wire[Len(wire)].to)
      BY <1>9, <2>2 DEF BookInv, Chained
    <3>2. CASE wire # <<>>
      <4>1. Len(wire) \in DOMAIN wire /\ i > 1 /\ i - 1 = Len(wire)
        BY <1>1, <1>2, <1>3, <2>2, <3>2
      <4> QED BY <1>2, <2>2, <3>1, <4>1
    <3> QED BY <1>2, <2>2, <3>1, <3>2
  <2> QED BY <1>2, <2>1, <2>2
<1>10. sent' <= wire'[Len(wire')].to
  BY <1>1, <1>2
<1>11. Chained'
  BY <1>2, <1>9, <1>10 DEF Chained, Follows
<1> QED BY <1>8, <1>11

\* A new message begins where the last one ended.
LEMMA EmitKeeps ==
  ASSUME BookInv, Emit
  PROVE  BookInv'
<1> DEFINE m == Message("update", sent, Current)
<1>1. /\ Len(books) \in Nat /\ Len(books) > 0 /\ sent \in 0 .. Len(books) /\ wire \in Seq(Messages)
      /\ at \in 0 .. Len(books) /\ kind \in Kinds
  BY DEF BookInv, StreamTypeOK
<1>2. sent < Len(books) /\ subscribed /\ sent' = Len(books) /\ wire' = Append(wire, m)
  BY DEF Emit, Current
<1>3. UNCHANGED <<kind, books, subscribed, known, cache, at, ids, phase, pending, subscriptions, missed>>
  BY DEF Emit
<1>4. m \in Messages /\ m.type = "update" /\ m.from = sent /\ m.to = Len(books)
  BY <1>1 DEF Message, Messages, Current
<1> HIDE DEF m
<1>5. /\ wire' \in Seq(Messages) /\ wire' # <<>> /\ Len(wire') = Len(wire) + 1 /\ wire'[Len(wire')] = m
      /\ \A i \in DOMAIN wire : wire'[i] = wire[i]
      /\ \A i \in DOMAIN wire' : i \in DOMAIN wire \/ i = Len(wire')
  BY <1>1, <1>2, <1>4, AppendMembers
<1>6. Len(wire) \in Nat /\ \A i \in DOMAIN wire : i \in 1 .. Len(wire) /\ wire[i] \in Messages
  BY <1>1
<1> USE DEF Messages
<1>7. StreamTypeOK'
  BY <1>1, <1>2, <1>3, <1>5 DEF BookInv, StreamTypeOK
<1>8. Phases'
  BY <1>2, <1>3, <1>4, <1>5 DEF BookInv, Phases
<1>9. Ordered' /\ Chained'
  <2>1. 1 <= sent
    BY <1>2 DEF BookInv, Ordered
  <2> QED BY <1>1, <1>2, <1>3, <1>4, <2>1, SentInOrder
<1>10. CacheOK'
  BY <1>3 DEF BookInv, CacheOK
<1> QED BY <1>7, <1>8, <1>9, <1>10 DEF BookInv

\* A subscription sends a snapshot, or nothing at Binance.
LEMMA SubscribeKeeps ==
  ASSUME BookInv, subscribe
  PROVE  BookInv'
<1>1. /\ Len(books) \in Nat /\ Len(books) > 0 /\ sent \in 0 .. Len(books) /\ wire \in Seq(Messages)
      /\ at \in 0 .. Len(books) /\ kind \in Kinds /\ missed \in BOOLEAN
      /\ ids \in 0 .. Len(books) /\ subscriptions \in Nat
  BY DEF BookInv, StreamTypeOK
<1>2. /\ UNCHANGED <<kind, books, known, cache, at, ids, phase, pending>>
      /\ subscribed' = TRUE /\ sent' = Len(books) /\ subscriptions' = subscriptions + 1
      /\ missed' = (missed \/ (kind = "binance" /\ ids # 0))
  BY DEF subscribe, Current
<1>3. Len(wire) \in Nat /\ \A i \in DOMAIN wire : i \in 1 .. Len(wire) /\ wire[i] \in Messages
  BY <1>1
<1> USE DEF Messages
<1>4. CacheOK'
  BY <1>2 DEF BookInv, CacheOK
<1>5. CASE kind = "binance"
  <2>1. wire' = wire
    BY <1>5 DEF subscribe
  <2>2. StreamTypeOK'
    BY <1>1, <1>2, <2>1 DEF BookInv, StreamTypeOK
  <2>3. Phases'
    BY <1>2, <1>5, <2>1 DEF BookInv, Phases
  <2>4. Ordered'
    BY <1>1, <1>2, <1>3, <1>5, <2>1 DEF BookInv, Ordered
  <2>5. Chained'
    BY <1>2, <1>5 DEF Chained, Follows
  <2> QED BY <1>4, <2>2, <2>3, <2>4, <2>5 DEF BookInv
<1>6. CASE kind # "binance"
  <2> DEFINE m == Message("snapshot", Current, Current)
  <2>1. m \in Messages /\ m.type = "snapshot" /\ m.from = Len(books) /\ m.to = Len(books)
    BY <1>1 DEF Message, Current
  <2>2. wire' = Append(wire, m)
    BY <1>6 DEF subscribe
  <2> HIDE DEF m
  <2>3. /\ wire' \in Seq(Messages) /\ wire' # <<>> /\ Len(wire') = Len(wire) + 1 /\ wire'[Len(wire')] = m
        /\ \A i \in DOMAIN wire : wire'[i] = wire[i]
        /\ \A i \in DOMAIN wire' : i \in DOMAIN wire \/ i = Len(wire')
    BY <1>1, <2>1, <2>2, AppendMembers
  <2>4. StreamTypeOK'
    BY <1>1, <1>2, <1>6, <2>3 DEF BookInv, StreamTypeOK
  <2>5. Phases'
    BY <1>2, <1>6 DEF BookInv, Phases
  <2>6. missed' = missed
    BY <1>1, <1>2, <1>6
  <2>7. Ordered' /\ Chained'
    BY <1>1, <1>2, <2>1, <2>2, <2>6, SentInOrder
  <2> QED BY <1>4, <2>4, <2>5, <2>7 DEF BookInv
<1> QED BY <1>5, <1>6

\* Nothing that the invariant speaks of is lost with the subscription.
LEMMA UnsubscribeKeeps ==
  ASSUME BookInv, unsubscribe
  PROVE  BookInv'
<1>1. /\ UNCHANGED <<kind, books, sent, wire, known, cache, at, ids, phase, pending, subscriptions, missed>>
      /\ subscribed' = FALSE
  BY DEF unsubscribe
<1>2. StreamTypeOK'
  BY <1>1 DEF BookInv, StreamTypeOK
<1>3. Phases' /\ Ordered' /\ Chained' /\ CacheOK'
  BY <1>1 DEF BookInv, Phases, Ordered, Chained, Follows, CacheOK
<1> QED BY <1>2, <1>3 DEF BookInv

\* The messages on their way go with the connection.
LEMMA ResetKeeps ==
  ASSUME BookInv, reset
  PROVE  BookInv'
<1>1. EmptyBook \in Book
  BY StreamDataAssumption DEF EmptyBook, Book
<1>2. /\ UNCHANGED <<kind, books, sent, ids, phase, pending, subscriptions, missed>>
      /\ subscribed' = FALSE /\ wire' = <<>> /\ known' = FALSE /\ cache' = EmptyBook /\ at' = 0
      /\ phase = "idle"
  BY DEF reset
<1>3. wire' \in Seq(Messages) /\ DOMAIN wire' = {}
  BY <1>2
<1>4. /\ Len(books) \in Nat /\ sent \in 0 .. Len(books)
      /\ kind' \in Kinds /\ books' \in Seq(Book) /\ Len(books') > 0 /\ sent' \in 0 .. Len(books')
      /\ ids' \in 0 .. Len(books') /\ phase' \in {"idle", "asking", "applying"}
      /\ pending' \subseteq Levels /\ subscriptions' \in Nat /\ missed' \in BOOLEAN
  BY <1>2 DEF BookInv, StreamTypeOK
<1>5. StreamTypeOK'
  <2>1. subscribed' \in BOOLEAN /\ known' \in BOOLEAN /\ cache' \in Book /\ at' \in 0 .. Len(books')
    <3>1. Len(books') = Len(books) /\ at' = 0
      BY <1>2
    <3>2. at' \in 0 .. Len(books')
      BY <1>4, <3>1
    <3> QED BY <1>1, <1>2, <3>2
  <2> QED BY <1>3, <1>4, <2>1 DEF StreamTypeOK
<1>6. Phases'
  BY <1>2, <1>3 DEF BookInv, Phases
<1>7. Ordered'
  BY <1>2, <1>3, <1>4 DEF Ordered
<1>8. Chained' /\ CacheOK'
  BY <1>2, <1>3 DEF Chained, CacheOK
<1> QED BY <1>5, <1>6, <1>7, <1>8 DEF BookInv

-----------------------------------------------------------------------------
\* Without its head the queue is still in order, and joined to the book that the head
\* leads to.
LEMMA TakenInOrder ==
  ASSUME BookInv, wire # <<>>, wire' = Tail(wire),
         at' = Head(wire).to \/ (at' = at /\ (Head(wire).to <= at \/ ~ Follows)),
         Follows => at <= at',
         UNCHANGED <<kind, subscribed, sent, ids, missed>>
  PROVE  Ordered' /\ Chained'
<1>1. /\ sent \in Int /\ wire \in Seq(Messages) /\ at \in Int
  BY DEF BookInv, StreamTypeOK
<1>2. \A i \in DOMAIN wire : wire[i].from \in Int /\ wire[i].to \in Int
  <2>1. \A i \in DOMAIN wire : wire[i] \in Messages
    BY <1>1
  <2> QED BY <2>1 DEF Messages
<1>3. /\ Head(wire) = wire[1] /\ 1 \in DOMAIN wire
      /\ \A i \in DOMAIN wire' : i \in Nat /\ i + 1 \in DOMAIN wire /\ wire'[i] = wire[i + 1]
      /\ Len(wire') = Len(wire) - 1 /\ Len(wire) \in Nat
      /\ wire' # <<>> => Len(wire) > 1 /\ wire'[Len(wire) - 1] = wire[Len(wire)]
      /\ wire' = <<>> => Len(wire) = 1
  BY <1>1, TailMembers
<1>4. \A i \in DOMAIN wire' : i >= 1
  BY <1>1, wire' \in Seq(Messages), TailMembers
<1>5. \A i \in DOMAIN wire' : wire[1].to <= wire'[i].to
  BY <1>3, <1>4 DEF BookInv, Ordered
<1>6. \A i \in DOMAIN wire' : 1 <= wire'[i].from /\ wire'[i].from <= wire'[i].to /\ wire'[i].to <= sent'
  BY <1>3 DEF BookInv, Ordered
<1>7. \A i, j \in DOMAIN wire' : i <= j => wire'[i].to <= wire'[j].to
  <2> SUFFICES ASSUME NEW i \in DOMAIN wire', NEW j \in DOMAIN wire', i <= j
               PROVE  wire'[i].to <= wire'[j].to
    OBVIOUS
  <2>1. i + 1 \in DOMAIN wire /\ j + 1 \in DOMAIN wire /\ i + 1 <= j + 1
    BY <1>3
  <2> QED BY <1>3, <2>1 DEF BookInv, Ordered
<1>8. kind # "binance" => at' <= sent' /\ \A i \in DOMAIN wire' : at' <= wire'[i].to
  BY <1>3, <1>5 DEF BookInv, Ordered
<1>9. Ordered'
  BY <1>6, <1>7, <1>8 DEF BookInv, Ordered
<1>10. ASSUME Follows PROVE wire[1].to <= at'
  BY <1>1, <1>2, <1>3, <1>10 DEF Follows
<1>11. ASSUME Follows, NEW i \in Nat, i + 1 \in DOMAIN wire
      PROVE  wire[i + 1].type = "snapshot" \/ wire[i + 1].from <= at \/ wire[i + 1].from <= wire[i].to
  <2>1. PICK j \in DOMAIN wire : j = i + 1
    BY <1>11
  <2>2. j - 1 = i
    BY <2>1
  <2>3. wire[j].type = "snapshot" \/ wire[j].from <= at \/ (j > 1 /\ wire[j].from <= wire[j - 1].to)
    BY <1>11, <2>1 DEF BookInv, Chained
  <2> QED BY <2>1, <2>2, <2>3
<1>12. ASSUME Follows, NEW i \in DOMAIN wire'
       PROVE  \/ wire'[i].type = "snapshot"
              \/ wire'[i].from <= at'
              \/ i > 1 /\ wire'[i].from <= wire'[i - 1].to
  <2>1. CASE i = 1
    <3>1. 2 \in DOMAIN wire /\ wire'[1] = wire[2]
      BY <1>3, <2>1
    <3>2. wire[2].type = "snapshot" \/ wire[2].from <= at \/ wire[2].from <= wire[1].to
      BY <1>11, <1>12, <3>1, 1 + 1 = 2
    <3>3. wire[2].from \in Int /\ wire[1].to \in Int /\ at' \in Int
      BY <1>1, <1>2, <1>3, <3>1
    <3> QED BY <1>1, <1>10, <1>12, <2>1, <3>1, <3>2, <3>3
  <2>2. CASE i # 1
    <3>1. i + 1 \in DOMAIN wire /\ wire'[i] = wire[i + 1] /\ i > 1
      BY <1>3, <1>4, <2>2
    <3>2. i - 1 \in DOMAIN wire' /\ wire'[i - 1] = wire[i]
      BY <1>1, <1>3, <3>1, wire' \in Seq(Messages)
    <3>3. wire[i + 1].type = "snapshot" \/ wire[i + 1].from <= at \/ wire[i + 1].from <= wire[i].to
      BY <1>3, <1>11, <1>12, <3>1
    <3>4. wire[i + 1].from \in Int /\ at' \in Int
      BY <1>1, <1>2, <1>3, <3>1
    <3> QED BY <1>1, <1>12, <3>1, <3>2, <3>3, <3>4
  <2> QED BY <2>1, <2>2
<1>13. ASSUME Follows, subscribed
       PROVE  sent <= at' \/ (wire' # <<>> /\ sent <= wire'[Len(wire')].to)
  <2>1. sent <= at \/ sent <= wire[Len(wire)].to
    BY <1>13 DEF BookInv, Chained
  <2>2. at' \in Int /\ wire[1].to \in Int /\ wire[Len(wire)].to \in Int
    <3>1. Len(wire) \in DOMAIN wire
      BY <1>1, <1>3
    <3> QED BY <1>1, <1>2, <1>3, <3>1
  <2>3. CASE wire' = <<>>
    BY <1>1, <1>3, <1>10, <1>13, <2>1, <2>2, <2>3
  <2>4. CASE wire' # <<>>
    <3>1. wire'[Len(wire')] = wire[Len(wire)]
      BY <1>3, <2>4
    <3> QED BY <1>1, <1>13, <2>1, <2>2, <2>4, <3>1
  <2> QED BY <2>3, <2>4
<1>14. Chained'
  BY <1>12, <1>13 DEF Chained, Follows
<1> QED BY <1>9, <1>14

\* A snapshot is the book that it leads to.
LEMMA TakeSnapshotKeeps ==
  ASSUME BookInv, TakeSnapshot
  PROVE  BookInv'
<1> DEFINE m == Head(wire)
<1>1. /\ UNCHANGED <<kind, books, subscribed, sent, ids, phase, pending, subscriptions, missed>>
      /\ phase = "idle" /\ wire # <<>> /\ wire' = Tail(wire) /\ m.type = "snapshot"
      /\ known' = TRUE /\ cache' = books[m.to] /\ at' = m.to
  BY DEF TakeSnapshot, Initialise, exchangeVars
<1>2. wire \in Seq(Messages) /\ sent \in 0 .. Len(books) /\ books \in Seq(Book) /\ Len(books) \in Nat
  BY DEF BookInv, StreamTypeOK
<1>3. m = wire[1] /\ 1 \in DOMAIN wire /\ m \in Messages /\ wire' \in Seq(Messages)
  BY <1>1, <1>2, TailMembers
<1>4. m.to \in Int /\ m.from \in Int
  BY <1>3 DEF Messages
<1>5. kind # "binance"
  BY <1>1, <1>3 DEF BookInv, Phases
<1>6. m.to \in 1 .. Len(books) /\ at <= m.to
  BY <1>2, <1>3, <1>4, <1>5 DEF BookInv, Ordered
<1> HIDE DEF m
<1>7. cache' \in Book /\ at' \in 0 .. Len(books')
  BY <1>1, <1>2, <1>6
<1>8. StreamTypeOK'
  BY <1>1, <1>3, <1>7 DEF BookInv, StreamTypeOK
<1>9. Phases'
  BY <1>1, <1>5 DEF BookInv, Phases
<1>10. Ordered' /\ Chained'
  BY <1>1, <1>6, TakenInOrder DEF m
<1>11. CacheOK'
  BY <1>1, <1>5, <1>6 DEF CacheOK
<1> QED BY <1>8, <1>9, <1>10, <1>11 DEF BookInv

\* Binance, where a stream with an update id has the book that it is the id of.
LEMMA IdIsOfTheBook ==
  ASSUME BookInv, kind = "binance", ids # 0, ~ missed, wire # <<>>, phase # "applying"
  PROVE  known /\ ids = at
BY DEF BookInv, Phases, CacheOK

\* An update leads from the book that the stream has, or one before it, to a later one.
LEMMA UpdateFollows ==
  ASSUME BookInv, wire # <<>>, phase = "idle", Head(wire).type = "update",
         Follows, ~ AlreadyHad(Head(wire))
  PROVE  /\ known /\ ~ missed
         /\ Head(wire).from \in 1 .. at /\ at \in 1 .. Head(wire).to
<1> DEFINE m == Head(wire)
<1>1. /\ wire \in Seq(Messages) /\ at \in Int /\ ids \in Int /\ known \in BOOLEAN /\ missed \in BOOLEAN
  BY DEF BookInv, StreamTypeOK
<1>2. m = wire[1] /\ 1 \in DOMAIN wire /\ m \in Messages
  BY <1>1, TailMembers
<1>3. m.to \in Int /\ m.from \in Int
  BY <1>2 DEF Messages
<1>4. 1 <= m.from /\ m.from <= m.to
  BY <1>2 DEF BookInv, Ordered
<1>5. ~ missed
  BY DEF Follows, BookInv, Phases
<1>6. m.from <= at
  <2>1. wire[1].type = "snapshot" \/ wire[1].from <= at \/ 1 > 1
    BY <1>2 DEF BookInv, Chained
  <2> QED BY <1>2, <2>1
<1>7. known
  BY <1>1, <1>3, <1>4, <1>5, <1>6 DEF BookInv, Phases
<1>8. at <= m.to
  <2>1. CASE kind = "binance"
    <3>1. ids = at /\ ~ (m.to <= ids)
      BY <1>5, <2>1, IdIsOfTheBook DEF Follows, AlreadyHad
    <3> QED BY <1>1, <1>3, <3>1
  <2>2. CASE kind # "binance"
    BY <1>2, <2>2 DEF BookInv, Ordered
  <2> QED BY <2>1, <2>2
<1> QED BY <1>1, <1>3, <1>4, <1>5, <1>6, <1>7, <1>8

\* An update is dropped, or awaits a snapshot, or is begun with the levels it names.
LEMMA TakeUpdateKeeps ==
  ASSUME BookInv, TakeUpdate
  PROVE  BookInv'
<1> DEFINE m == Head(wire)
<1>1. /\ UNCHANGED <<kind, books, subscribed, sent, known, cache, ids, subscriptions, missed>>
      /\ phase = "idle" /\ wire # <<>> /\ wire' = Tail(wire) /\ m.type = "update"
  BY DEF TakeUpdate, exchangeVars
<1>2. /\ wire \in Seq(Messages) /\ sent \in 0 .. Len(books) /\ books \in Seq(Book) /\ Len(books) \in Nat
      /\ at \in 0 .. Len(books) /\ ids \in 0 .. Len(books) /\ missed \in BOOLEAN /\ known \in BOOLEAN
      /\ cache \in Book
  BY DEF BookInv, StreamTypeOK
<1>3. m = wire[1] /\ 1 \in DOMAIN wire /\ m \in Messages /\ wire' \in Seq(Messages)
  BY <1>1, <1>2, TailMembers
<1>4. m.to \in Nat /\ m.from \in Nat
  BY <1>3 DEF Messages
<1>5. 1 <= m.from /\ m.from <= m.to /\ m.to \in 1 .. Len(books)
  BY <1>2, <1>3, <1>4 DEF BookInv, Ordered
<1>6. kind = "binance" => \A i \in DOMAIN wire' : wire'[i].type = "update"
  BY <1>1, <1>2, TailMembers DEF BookInv, Phases
<1>7. Follows' = Follows
  BY <1>1 DEF Follows
<1>8. CASE kind = "binance" /\ ids = 0
  <2>1. phase' = "asking" /\ UNCHANGED <<pending, at>>
    BY <1>8 DEF TakeUpdate
  <2>2. ~ known /\ ~ Follows
    BY <1>2, <1>8 DEF BookInv, Phases, Follows
  <2>3. StreamTypeOK'
    BY <1>1, <1>3, <2>1 DEF BookInv, StreamTypeOK
  <2>4. Phases'
    BY <1>1, <1>6, <1>8, <2>1 DEF BookInv, Phases
  <2>5. Ordered' /\ Chained'
    BY <1>1, <2>1, <2>2, TakenInOrder
  <2>6. CacheOK'
    BY <1>1, <2>2 DEF CacheOK
  <2> QED BY <2>3, <2>4, <2>5, <2>6 DEF BookInv
<1>9. CASE ~ (kind = "binance" /\ ids = 0) /\ AlreadyHad(m)
  <2>1. UNCHANGED <<phase, pending, at>>
    BY <1>9 DEF TakeUpdate
  <2>2. Follows => known /\ m.to <= at
    BY <1>1, <1>9, IdIsOfTheBook DEF Follows, AlreadyHad
  <2>3. StreamTypeOK'
    BY <1>1, <1>3, <2>1 DEF BookInv, StreamTypeOK
  <2>4. Phases'
    BY <1>1, <1>2, <1>6, <1>9, <2>1, <2>2 DEF BookInv, Phases, Follows, AlreadyHad
  <2>5. Ordered' /\ Chained'
    BY <1>1, <1>2, <2>1, <2>2, TakenInOrder
  <2>6. CacheOK'
    BY <1>1, <2>1 DEF BookInv, CacheOK
  <2> QED BY <2>3, <2>4, <2>5, <2>6 DEF BookInv
<1>10. CASE ~ (kind = "binance" /\ ids = 0) /\ ~ AlreadyHad(m)
  <2>1. phase' = "applying" /\ pending' = Touched(m.from, m.to) /\ at' = m.to
    BY <1>10 DEF TakeUpdate
  <2>2. Follows \/ (kind = "binance" /\ missed)
    BY <1>10 DEF Follows
  <2>3. Follows => known /\ ~ missed /\ m.from \in 1 .. at /\ at \in 1 .. m.to
    BY <1>1, <1>10, UpdateFollows
  <2>4. StreamTypeOK'
    <3>1. pending' \subseteq Levels
      BY <2>1 DEF Touched
    <3>2. at' \in 0 .. Len(books')
      BY <1>1, <1>2, <1>5, <2>1
    <3> QED BY <1>1, <1>3, <2>1, <3>1, <3>2 DEF BookInv, StreamTypeOK
  <2>5. Phases'
    BY <1>1, <1>4, <1>5, <1>6, <1>10, <2>1, <2>2, <2>3 DEF BookInv, Phases
  <2>6. Ordered' /\ Chained'
    <3>1. Follows => at <= at'
      BY <1>2, <1>4, <2>1, <2>3
    <3> QED BY <1>1, <2>1, <3>1, TakenInOrder
  <2>7. CacheOK'
    <3> SUFFICES ASSUME known, ~ missed
                 PROVE  /\ at' > 0
                        /\ \A level \in Levels :
                             \/ cache[level] = books[m.to][level]
                             \/ /\ level \in pending'
                                /\ \E v \in 1 .. m.to : cache[level] = books[v][level]
      BY <1>1, <2>1 DEF CacheOK
    <3>1. m.from \in 1 .. at /\ at \in 1 .. m.to /\ at \in m.from .. m.to
      BY <1>2, <1>4, <2>2, <2>3
    <3>2. cache = books[at]
      BY <1>1 DEF BookInv, CacheOK
    <3>3. ASSUME NEW level \in Levels, level \notin pending'
          PROVE  cache[level] = books[m.to][level]
      BY <1>4, <2>1, <3>1, <3>2, <3>3, TouchedIsEnough
    <3> QED BY <1>4, <1>5, <2>1, <3>1, <3>2, <3>3
  <2> QED BY <2>4, <2>5, <2>6, <2>7 DEF BookInv
<1> QED BY <1>8, <1>9, <1>10

\* The REST API answers with the present book, later than every message on its way.
LEMMA SnapshotArrivesKeeps ==
  ASSUME BookInv, SnapshotArrives
  PROVE  BookInv'
<1>1. /\ UNCHANGED <<kind, books, subscribed, sent, wire, pending, subscriptions, missed>>
      /\ phase = "asking" /\ phase' = "idle" /\ known' = TRUE /\ cache' = books[Len(books)]
      /\ at' = Len(books) /\ ids' = Len(books)
  BY DEF SnapshotArrives, Initialise, exchangeVars, Current
<1>2. /\ books \in Seq(Book) /\ Len(books) \in Nat /\ Len(books) > 0 /\ wire \in Seq(Messages)
      /\ sent \in 0 .. Len(books)
  BY DEF BookInv, StreamTypeOK
<1>3. kind = "binance" /\ ~ missed
  BY <1>1 DEF BookInv, Phases
<1>4. \A i \in DOMAIN wire : wire[i].from \in Int /\ wire[i].to \in Int
  <2>1. \A i \in DOMAIN wire : wire[i] \in Messages
    BY <1>2
  <2> QED BY <2>1 DEF Messages
<1>5. /\ cache' \in Book /\ at' \in 0 .. Len(books') /\ ids' \in 0 .. Len(books')
  BY <1>1, <1>2
<1>6. StreamTypeOK'
  BY <1>1, <1>5 DEF BookInv, StreamTypeOK
<1>7. Phases'
  BY <1>1, <1>2, <1>3 DEF BookInv, Phases
<1>8. Ordered'
  BY <1>1, <1>3 DEF BookInv, Ordered
<1>9. Chained'
  <2>1. \A i \in DOMAIN wire : wire[i].from <= Len(books)
    BY <1>2, <1>4 DEF BookInv, Ordered
  <2>2. sent <= Len(books)
    BY <1>2
  <2> QED BY <1>1, <2>1, <2>2 DEF Chained
<1>10. CacheOK'
  BY <1>1, <1>2 DEF CacheOK
<1> QED BY <1>6, <1>7, <1>8, <1>9, <1>10 DEF BookInv

\* It throws: the next update asks again.
LEMMA SnapshotFailsKeeps ==
  ASSUME BookInv, SnapshotFails
  PROVE  BookInv'
<1>1. /\ UNCHANGED <<kind, books, subscribed, sent, wire, known, cache, at, ids, pending, subscriptions, missed>>
      /\ phase = "asking" /\ phase' = "idle"
  BY DEF SnapshotFails, exchangeVars
<1>2. StreamTypeOK'
  BY <1>1 DEF BookInv, StreamTypeOK
<1>3. Phases' /\ Ordered' /\ Chained' /\ CacheOK'
  BY <1>1 DEF BookInv, Phases, Ordered, Chained, Follows, CacheOK
<1> QED BY <1>2, <1>3 DEF BookInv

\* The handlers, or the strategy thread, see a level as it was or as it will be.
LEMMA ApplyKeeps ==
  ASSUME BookInv, NEW level \in Levels, Apply(level)
  PROVE  BookInv'
<1>1. /\ UNCHANGED <<kind, books, subscribed, sent, wire, at, ids, phase, subscriptions, missed>>
      /\ phase = "applying" /\ known' = TRUE /\ pending' = pending \ {level}
      /\ cache' = [cache EXCEPT ![level] = books[at][level]]
  BY DEF Apply, exchangeVars
<1>2. /\ books \in Seq(Book) /\ cache \in Book /\ at \in 1 .. Len(books)
      /\ known \in BOOLEAN /\ missed \in BOOLEAN
  BY <1>1 DEF BookInv, StreamTypeOK, Phases
<1>3. books[at] \in Book
  BY <1>2
<1>4. cache' \in Book
  BY <1>1, <1>2, <1>3 DEF Book
<1>5. StreamTypeOK'
  BY <1>1, <1>4 DEF BookInv, StreamTypeOK
<1>6. Phases'
  BY <1>1 DEF BookInv, Phases
<1>7. Ordered' /\ Chained'
  BY <1>1 DEF BookInv, Ordered, Chained, Follows
<1>8. CacheOK'
  <2> SUFFICES ASSUME ~ missed
               PROVE  \A l \in Levels :
                        \/ cache'[l] = books[at][l]
                        \/ l \in pending' /\ \E v \in 1 .. at : cache'[l] = books[v][l]
    BY <1>1, <1>2 DEF CacheOK
  <2>1. known
    BY <1>1, <1>2 DEF BookInv, Phases
  <2>2. ASSUME NEW l \in Levels
        PROVE  \/ cache[l] = books[at][l]
               \/ l \in pending /\ \E v \in 1 .. at : cache[l] = books[v][l]
    BY <1>1, <2>1 DEF BookInv, CacheOK
  <2>3. cache'[level] = books[at][level] /\ \A l \in Levels \ {level} : cache'[l] = cache[l]
    BY <1>1, <1>2 DEF Book
  <2> QED BY <1>1, <2>2, <2>3
<1> QED BY <1>5, <1>6, <1>7, <1>8 DEF BookInv

\* With nothing left to apply the book is the one that the message led to.
LEMMA FinishKeeps ==
  ASSUME BookInv, Finish
  PROVE  BookInv'
<1>1. /\ UNCHANGED <<kind, books, subscribed, sent, wire, known, cache, at, pending, subscriptions, missed>>
      /\ phase = "applying" /\ pending = {} /\ phase' = "idle"
      /\ ids' = IF kind = "binance" THEN at ELSE ids
  BY DEF Finish, exchangeVars
<1>2. /\ books \in Seq(Book) /\ cache \in Book /\ at \in 1 .. Len(books) /\ ids \in 0 .. Len(books)
      /\ Len(books) \in Nat
  BY <1>1 DEF BookInv, StreamTypeOK, Phases
<1>3. ids' \in 0 .. Len(books')
  BY <1>1, <1>2
<1>4. StreamTypeOK'
  BY <1>1, <1>3 DEF BookInv, StreamTypeOK
<1>5. Phases'
  BY <1>1, <1>2 DEF BookInv, Phases
<1>6. Ordered'
  BY <1>1 DEF BookInv, Ordered
<1>7. Chained'
  <2>1. Follows' => Follows
    BY <1>1 DEF BookInv, Phases, Follows
  <2> QED BY <1>1, <2>1 DEF BookInv, Chained
<1>8. CacheOK'
  <2> SUFFICES ASSUME known, ~ missed
               PROVE  cache = books[at] /\ at > 0
    BY <1>1 DEF CacheOK
  <2>1. \A level \in Levels : cache[level] = books[at][level]
    BY <1>1 DEF BookInv, CacheOK
  <2>2. books[at] \in Book
    BY <1>2
  <2> QED BY <1>2, <2>1, <2>2 DEF Book
<1> QED BY <1>4, <1>5, <1>6, <1>7, <1>8 DEF BookInv

-----------------------------------------------------------------------------
\* Every step keeps the invariant.
LEMMA BookNextKeeps == BookInv /\ [BookNext]_bookVars => BookInv'
<1> SUFFICES ASSUME BookInv, [BookNext]_bookVars PROVE BookInv'
  OBVIOUS
<1>1. ASSUME NEW level \in Levels, NEW volume \in Volumes, Change(level, volume) PROVE BookInv'
  BY <1>1, ChangeKeeps
<1>2. CASE Emit
  BY <1>2, EmitKeeps
<1>3. CASE subscribe
  BY <1>3, SubscribeKeeps
<1>4. CASE unsubscribe
  BY <1>4, UnsubscribeKeeps
<1>5. CASE reset
  BY <1>5, ResetKeeps
<1>6. CASE TakeSnapshot
  BY <1>6, TakeSnapshotKeeps
<1>7. CASE TakeUpdate
  BY <1>7, TakeUpdateKeeps
<1>8. CASE SnapshotArrives
  BY <1>8, SnapshotArrivesKeeps
<1>9. CASE SnapshotFails
  BY <1>9, SnapshotFailsKeeps
<1>10. ASSUME NEW level \in Levels, Apply(level) PROVE BookInv'
  BY <1>10, ApplyKeeps
<1>11. CASE Finish
  BY <1>11, FinishKeeps
<1>12. CASE UNCHANGED bookVars
  <2>1. /\ UNCHANGED <<kind, books, subscribed, sent, wire, known, cache>>
        /\ UNCHANGED <<at, ids, phase, pending, subscriptions, missed>>
    BY <1>12 DEF bookVars
  <2>2. StreamTypeOK'
    BY <2>1 DEF BookInv, StreamTypeOK
  <2>3. Phases' /\ Ordered' /\ Chained' /\ CacheOK'
    BY <2>1 DEF BookInv, Phases, Ordered, Chained, Follows, CacheOK
  <2> QED BY <2>2, <2>3 DEF BookInv
<1> QED
  BY <1>1, <1>2, <1>3, <1>4, <1>5, <1>6, <1>7, <1>8, <1>9, <1>10, <1>11, <1>12 DEF BookNext, OnMessage

\* The invariant holds in every reachable state.
THEOREM BookInvariant == BookSpec => []BookInv
<1>1. BookInit => BookInv
  BY BookInitially
<1>2. BookInv /\ [BookNext]_bookVars => BookInv'
  BY BookNextKeeps
<1> QED BY <1>1, <1>2, PTL DEF BookSpec

\* The cache has a volume for every level and the update ids number the exchange's books.
THEOREM StreamTypeCorrect == BookSpec => []StreamTypeOK
<1>1. BookInv => StreamTypeOK
  BY DEF BookInv
<1> QED BY <1>1, BookInvariant, PTL

\* Between two messages the cached book is one that the exchange had
\* (exchange_websocket_stream::update_order_book), for any number of levels and changes.
THEOREM CachedBookIsTheExchanges == BookSpec => []BookIsTheExchanges
<1>1. BookInv => BookIsTheExchanges
  BY DEF BookInv, CacheOK, BookIsTheExchanges
<1> QED BY <1>1, BookInvariant, PTL

\* While a message is applied every level is the one before it or the one after it.
THEOREM CachedLevelsAreTheExchanges == BookSpec => []NoLevelInvented
<1>1. BookInv => NoLevelInvented
  BY DEF BookInv, CacheOK, NoLevelInvented
<1> QED BY <1>1, BookInvariant, PTL

-----------------------------------------------------------------------------
(***************************************************************************)
(* The messages of the exchanges.                                          *)
(***************************************************************************)
\* Times are numbers, for Coinbase in local time.
Number(value) == value.time + (IF kind = "coinbase" THEN LocalOffset ELSE 0)
ValueOf(call) == IF call.call = "update_ohlcv" THEN call.candle ELSE call.trade
CallNumber(call) == Number(ValueOf(call))

\* The call that a trade or a candle should lead to.
CallFor(n) ==
  LET s == items[n]
  IN  IF s.interval = "" THEN [call |-> "update_trade", name |-> Named(s.pair), trade |-> Said(n).value]
      ELSE [call |-> "update_ohlcv", name |-> Named(s.pair), interval |-> s.interval,
            candle |-> Said(n).value]

\* What on_message reads of a batch.
Read(batch) == IF kind = "digifinex" THEN <<batch[Len(batch)]>> ELSE batch

ItemStreams == [channel : {get_channel},
                interval : IF HasService \/ channel # "OHLCV" THEN {""} ELSE Intervals,
                pair : Pairs]

\* The strategy's subscriptions are the exchange's, for pairs it knows.
SubscriptionsOK ==
  /\ kind \in Kinds /\ channel \in Channels
  /\ pairs \subseteq Pairs
  /\ asked \subseteq on
  /\ \A s \in on : s.pair \in pairs
  /\ ~ Supported => on = {}

\* A message has trades or candles of one stream, in order.
IsBatch(batch) ==
  /\ batch \in Seq(Nat) /\ Len(batch) > 0
  /\ Len(batch) > 1 => Batched
  /\ \A k \in DOMAIN batch : /\ batch[k] \in DOMAIN items
                             /\ items[batch[k]] = items[batch[1]]
                             /\ items[batch[k]].pair \in pairs
  /\ \A k, l \in DOMAIN batch : k < l => batch[k] < batch[l]

MailOK ==
  /\ items \in Seq(ItemStreams)
  /\ mail \in Seq(Seq(Nat))
  /\ \A i \in DOMAIN mail : IsBatch(mail[i])
  /\ \A i, j \in DOMAIN mail : i < j =>
       \A k \in DOMAIN mail[i], l \in DOMAIN mail[j] : mail[i][k] < mail[j][l]
  /\ channel = "ORDER_BOOK" => mail = <<>> /\ items = <<>>

CallsOK ==
  channel # "ORDER_BOOK" =>
    /\ calls \in Seq({calls[i] : i \in DOMAIN calls})
    /\ \A i \in DOMAIN calls : /\ CallNumber(calls[i]) \in DOMAIN items
                               /\ calls[i] = CallFor(CallNumber(calls[i]))
                               /\ items[CallNumber(calls[i])].pair \in pairs
    /\ \A i, j \in DOMAIN calls : i < j => CallNumber(calls[i]) < CallNumber(calls[j])
    /\ \A i \in DOMAIN calls, j \in DOMAIN mail : \A k \in DOMAIN mail[j] :
         CallNumber(calls[i]) < mail[j][k]

ToldOK ==
  /\ told \in Seq([pair : Pairs, interval : Intervals \cup {""},
                   value : {Said(n).value : n \in DOMAIN items}])
  /\ \A i \in DOMAIN told : /\ Number(told[i].value) \in DOMAIN items
                            /\ told[i] = Said(Number(told[i].value))
  /\ \A i, j \in DOMAIN told : i < j => Number(told[i].value) < Number(told[j].value)
  /\ channel # "ORDER_BOOK" =>
       \A i \in DOMAIN told, j \in DOMAIN calls : Number(told[i].value) < CallNumber(calls[j])
  /\ \A i \in DOMAIN told, j \in DOMAIN mail : \A k \in DOMAIN mail[j] :
       Number(told[i].value) < mail[j][k]

\* What the strategy should hear of was told or is on its way.
DueOK ==
  \A n \in due :
    \/ \E i \in DOMAIN told : Number(told[i].value) = n
    \/ channel # "ORDER_BOOK" /\ \E i \in DOMAIN calls : CallNumber(calls[i]) = n
    \/ \E i \in DOMAIN mail : \E k \in DOMAIN Read(mail[i]) : Read(mail[i])[k] = n

FiledOK ==
  /\ \A i \in DOMAIN told : Key(Named(told[i].pair), told[i].interval) \in DOMAIN filed
  /\ \A k \in DOMAIN filed : \E i \in DOMAIN told :
       /\ k = Key(Named(told[i].pair), told[i].interval)
       /\ filed[k] = told[i].value
       /\ \A j \in DOMAIN told : j > i => k # Key(Named(told[j].pair), told[j].interval)

ItemsInv == SubscriptionsOK /\ MailOK /\ CallsOK /\ ToldOK /\ DueOK /\ FiledOK

\* Without a channel for order books none is sent.
BookIsLookedAt ==
  kind = "digifinex" \/ channel # "ORDER_BOOK" => ~ subscribed /\ wire = <<>> /\ phase = "idle"

\* An update leads to another book than the one it begins with.
ChangesDiffer ==
  /\ \A i \in DOMAIN wire : wire[i].type = "update" => wire[i].from < wire[i].to
  /\ \A v \in 1 .. Len(books) - 1 : books[v] # books[v + 1]

\* The call for a level of a book; calls that name each level of a set once.
UpdateCall(v, level) == [call |-> "update_order_book", entry |-> Entry(level[2], books[v][level], level[1])]

Names(cs, v, levels) ==
  /\ cs \in Seq({UpdateCall(v, level) : level \in levels})
  /\ \A level \in levels : \E i \in DOMAIN cs : cs[i] = UpdateCall(v, level)
  /\ \A i, j \in DOMAIN cs : cs[i] = cs[j] => i = j

AsksFirst(cs) ==
  \A i, j \in DOMAIN cs : i < j /\ cs[j].entry.side = "ASK" => cs[i].entry.side = "ASK"

\* The calls that are left while a message is applied name the levels that are pending.
UpdatesOK ==
  /\ channel = "ORDER_BOOK" /\ phase # "applying" => calls = <<>>
  /\ phase = "applying" => /\ Names(calls, at, pending)
                           /\ kind \in {"binance", "kraken"} => AsksFirst(calls)

-----------------------------------------------------------------------------
(***************************************************************************)
(* Names and subscriptions.                                                *)
(***************************************************************************)
\* A name is that of one pair only (tradable_pair::to_string).
LEMMA NamesTellPairs ==
  \A p, q \in Pairs : Named(p) = Named(q) => p = q
BY PairsAssumption DEF Named, Name

\* A pair is found again by the name an exchange has for it.
LEMMA NameOfAPair ==
  ASSUME NEW p \in Pairs
  PROVE  IsName(Named(p), Separator) /\ PairNamed(Named(p), Separator) = p
<1>1. \E q \in Pairs : Name(q, Separator) = Named(p)
  BY DEF Named
<1>2. PairNamed(Named(p), Separator) \in Pairs
      /\ Name(PairNamed(Named(p), Separator), Separator) = Named(p)
  BY <1>1, Zenon DEF PairNamed
<1> QED BY <1>1, <1>2, NamesTellPairs DEF IsName, Named

\* An interval is found again by Kraken's minutes.
LEMMA MinutesTellIntervals ==
  ASSUME NEW interval \in Intervals
  PROVE  MinutesNamed(Minutes(interval)) = interval
<1>1. \E i \in Intervals : Minutes(i) = Minutes(interval)
  OBVIOUS
<1>2. MinutesNamed(Minutes(interval)) \in Intervals
      /\ Minutes(MinutesNamed(Minutes(interval))) = Minutes(interval)
  BY <1>1, Zenon DEF MinutesNamed
<1> QED BY <1>2, StreamMessagesAssumption

\* A message to subscribe or unsubscribe names the streams that are wanted, and no other.
LEMMA MessageNamesStreams ==
  ASSUME SubscriptionsOK, Supported, NEW verb, NEW ps \in SUBSET Pairs, NEW interval \in IntervalsOf
  PROVE  Streams(create_message(verb, ps, interval)) = Wanted(ps, interval)
<1> DEFINE json == create_message(verb, ps, interval)
           said == IF HasService THEN "" ELSE interval
           names == {Named(p) : p \in ps}
<1>0. kind \in BookKinds \cup {"digifinex"} /\ channel \in Channels
  BY StreamDataAssumption DEF SubscriptionsOK
<1>00. {<<get_channel, said, name>> : name \in names} = {<<get_channel, said, Named(p)>> : p \in ps}
  OBVIOUS
<1>1. Chosen(json) = {<<get_channel, said, name>> : name \in names}
  <2>1. CASE kind = "binance"
    <3>1. get_channel = channel /\ said = interval /\ (channel # "OHLCV" => interval = "")
      BY <2>1 DEF get_channel, HasService, IntervalsOf
    <3> DEFINE what == CASE channel = "TRADE" -> <<"trade">>
                         [] channel = "OHLCV" -> <<"kline", interval>>
                         [] OTHER -> <<"depth@100ms">>
               Read1(param) == LET w == param[2]
                               IN  CASE w[1] = "kline" -> <<"OHLCV", w[2], param[1].lower>>
                                     [] w[1] = "trade" -> <<"TRADE", "", param[1].lower>>
                                     [] OTHER -> <<"ORDER_BOOK", "", param[1].lower>>
    <3>2. json.params = {<<lower(name), what>> : name \in names}
      BY <2>1 DEF create_message
    <3>3. Chosen(json) = {Read1(param) : param \in json.params}
      BY <2>1 DEF Chosen
    <3>4. ASSUME NEW name PROVE Read1(<<lower(name), what>>) = <<channel, interval, name>>
      BY <1>0, <3>1 DEF Channels, lower
    <3> HIDE DEF json, names, what, Read1
    <3>5. ASSUME NEW name \in names PROVE <<get_channel, said, name>> \in Chosen(json)
      <4>1. <<lower(name), what>> \in json.params
        BY <3>2
      <4> QED BY <3>1, <3>3, <3>4, <4>1
    <3>6. ASSUME NEW c \in Chosen(json) PROVE \E name \in names : c = <<get_channel, said, name>>
      <4>1. PICK param \in json.params : c = Read1(param)
        BY <3>3
      <4>2. PICK name \in names : param = <<lower(name), what>>
        BY <3>2
      <4> QED BY <3>1, <3>4, <4>1, <4>2
    <3> QED BY <3>5, <3>6
  <2>2. CASE kind = "bybit"
    <3>1. get_channel = channel /\ said = interval /\ (channel # "OHLCV" => interval = "")
      BY <2>2 DEF get_channel, HasService, IntervalsOf
    <3> DEFINE Read1(what, name) ==
                 CASE what[1] = "kline" -> <<"OHLCV", what[2], name>>
                   [] what[1] = "trade" -> <<"TRADE", "", name>>
                   [] OTHER -> <<"ORDER_BOOK", "", name>>
    <3>2. json.symbol = names
      BY <2>2 DEF create_message
    <3>3. json.topic = CASE channel = "TRADE" -> <<"trade">> [] channel = "OHLCV" -> <<"kline", interval>>
                         [] OTHER -> <<"diffDepth">>
      BY <2>2 DEF create_message
    <3>4. Chosen(json) = {Read1(json.topic, name) : name \in json.symbol}
      BY <2>2 DEF Chosen
    <3> HIDE DEF json, names
    <3>5. ASSUME NEW name PROVE Read1(json.topic, name) = <<channel, interval, name>>
      <4>1. CASE channel = "TRADE"
        <5>1. json.topic = <<"trade">>
          BY <3>3, <4>1, Zenon
        <5>2. json.topic[1] = "trade"
          BY <5>1
        <5>3. interval = ""
          BY <3>1, <4>1
        <5> QED BY <4>1, <5>2, <5>3, Zenon
      <4>2. CASE channel = "OHLCV"
        <5>1. json.topic = <<"kline", interval>>
          BY <3>3, <4>2, Zenon
        <5>2. json.topic[1] = "kline" /\ json.topic[2] = interval
          BY <5>1
        <5> QED BY <4>2, <5>2, Zenon
      <4>3. CASE channel = "ORDER_BOOK"
        <5>1. json.topic = <<"diffDepth">>
          BY <3>3, <4>3, Zenon
        <5>2. json.topic[1] = "diffDepth"
          BY <5>1
        <5>3. interval = ""
          BY <3>1, <4>3
        <5> QED BY <4>3, <5>2, <5>3, Zenon
      <4> QED BY <1>0, <4>1, <4>2, <4>3 DEF Channels
    <3> HIDE DEF Read1
    <3> QED BY <3>1, <3>2, <3>4, <3>5
  <2>3. CASE kind = "coinbase"
    <3> HIDE DEF names
    <3>1. get_channel \in {"TRADE", "ORDER_BOOK"} /\ said = ""
      BY <1>0, <2>3 DEF get_channel, HasService, Channels
    <3>2. json.product_ids = names /\ json.channels = {IF get_channel = "TRADE" THEN "ticker" ELSE "level2"}
      BY <2>3 DEF create_message, names
    <3> HIDE DEF json, said
    <3> QED BY <2>3, <3>1, <3>2 DEF Chosen
  <2>4. CASE kind = "kraken"
    <3> HIDE DEF names
    <3>1. get_channel = channel /\ said = interval /\ (channel # "OHLCV" => interval = "")
      BY <2>4 DEF get_channel, HasService, IntervalsOf
    <3>2. json.pair = names
      BY <2>4 DEF create_message, names
    <3>3. json.subscription =
            CASE channel = "TRADE" -> [name |-> "trade"]
              [] channel = "OHLCV" -> [name |-> "ohlc", interval |-> Minutes(interval)]
              [] OTHER -> [name |-> "book", depth |-> 100]
      BY <2>4 DEF create_message
    <3> HIDE DEF json, said
    <3> DEFINE Read1(what, name) ==
                 CASE what.name = "ohlc" -> <<"OHLCV", MinutesNamed(what.interval), name>>
                   [] what.name = "trade" -> <<"TRADE", "", name>>
                   [] OTHER -> <<"ORDER_BOOK", "", name>>
    <3>4. Chosen(json) = {Read1(json.subscription, name) : name \in json.pair}
      BY <2>4 DEF Chosen
    <3>5. ASSUME NEW name PROVE Read1(json.subscription, name) = <<channel, interval, name>>
      <4>1. CASE channel = "TRADE"
        <5>1. json.subscription = [name |-> "trade"]
          BY <3>3, <4>1, Zenon
        <5>2. json.subscription.name = "trade"
          BY <5>1
        <5>3. interval = ""
          BY <3>1, <4>1
        <5> QED BY <4>1, <5>2, <5>3, Zenon
      <4>2. CASE channel = "OHLCV"
        <5>1. MinutesNamed(Minutes(interval)) = interval
          BY <4>2, MinutesTellIntervals DEF IntervalsOf
        <5>2. json.subscription = [name |-> "ohlc", interval |-> Minutes(interval)]
          BY <3>3, <4>2, Zenon
        <5>3. json.subscription.name = "ohlc" /\ json.subscription.interval = Minutes(interval)
          BY <5>2
        <5> QED BY <4>2, <5>1, <5>3, Zenon
      <4>3. CASE channel = "ORDER_BOOK"
        <5>1. json.subscription = [name |-> "book", depth |-> 100]
          BY <3>3, <4>3, Zenon
        <5>2. json.subscription.name = "book"
          BY <5>1
        <5>3. interval = ""
          BY <3>1, <4>3
        <5> QED BY <4>3, <5>2, <5>3, Zenon
      <4> QED BY <1>0, <4>1, <4>2, <4>3 DEF Channels
    <3> HIDE DEF Read1
    <3> QED BY <3>1, <3>2, <3>4, <3>5
  <2>5. CASE kind = "digifinex"
    BY <1>0, <2>5 DEF Chosen, create_message, get_channel, HasService, IntervalsOf, Channels, Supported
  <2> QED BY <1>0, <2>1, <2>2, <2>3, <2>4, <2>5 DEF BookKinds
<1> HIDE DEF json, names
<1> HIDE DEF said
<1>2. Streams(json) = {Stream(get_channel, said, p) : p \in ps}
  <2> DEFINE R(c) == Stream(c[1], c[2], PairNamed(c[3], Separator))
             T == {d \in Chosen(json) : IsName(d[3], Separator)}
  <2>1. Streams(json) = {R(c) : c \in T}
    BY DEF Streams
  <2>2. ASSUME NEW p \in ps
        PROVE  /\ R(<<get_channel, said, Named(p)>>) = Stream(get_channel, said, p)
               /\ <<get_channel, said, Named(p)>> \in T
    <3>1. <<get_channel, said, Named(p)>> \in Chosen(json)
      BY <1>1 DEF names
    <3> QED BY <3>1, NameOfAPair
  <2>3. ASSUME NEW c \in T PROVE \E p \in ps : c = <<get_channel, said, Named(p)>>
    <3>1. c \in Chosen(json)
      OBVIOUS
    <3> HIDE DEF T
    <3> QED BY <1>00, <1>1, <3>1
  <2> HIDE DEF R, T
  <2>4. ASSUME NEW s \in Streams(json) PROVE \E p \in ps : s = Stream(get_channel, said, p)
    <3>1. PICK c \in T : s = R(c)
      BY <2>1
    <3> QED BY <2>2, <2>3, <3>1
  <2>5. ASSUME NEW p \in ps PROVE Stream(get_channel, said, p) \in Streams(json)
    BY <2>1, <2>2
  <2> HIDE DEF Stream
  <2> QED BY <2>4, <2>5
<1> QED BY <1>2 DEF json, said, Wanted

-----------------------------------------------------------------------------
(***************************************************************************)
(* Trades and candles in messages.                                         *)
(***************************************************************************)
\* Texts are read as what was written.
LEMMA ReadBack ==
  ASSUME NEW n
  PROVE  Stod(Text(n)) = n
BY DEF Stod, Text

\* Milliseconds are read as seconds.
LEMMA ReadMillis ==
  ASSUME NEW t \in Int
  PROVE  Millis(t) \div 1000 = t
BY DEF Millis

\* The elements of a row of a candle.
LEMMA FourFields ==
  ASSUME NEW a, NEW b, NEW c, NEW d, NEW t, t = <<a, b, c, d>>
  PROVE  Len(t) = 4 /\ t[1] = a /\ t[2] = b /\ t[3] = c /\ t[4] = d
OBVIOUS

\* A trade that reads like the one of a number is the one that is due.
LEMMA TradeCall ==
  ASSUME NEW n \in DOMAIN items, n \in Nat, items[n].interval = "",
         NEW time, time = IF kind = "coinbase" THEN n - LocalOffset ELSE n
  PROVE  UpdateTrade(Named(items[n].pair), time, Text(Trade(n).price), Text(Trade(n).volume)) = CallFor(n)
<1>1. Said(n).value = [time |-> time, price |-> 10 + n, volume |-> 20 + n]
  BY DEF Said, Trade
<1>2. CallFor(n) = [call |-> "update_trade", name |-> Named(items[n].pair), trade |-> Said(n).value]
  BY DEF CallFor
<1>3. Trade(n).price = 10 + n /\ Trade(n).volume = 20 + n
  BY DEF Trade
<1> QED BY <1>1, <1>2, <1>3, ReadBack DEF UpdateTrade

\* The call that update_ohlcv of a candle is.
LEMMA CandleCall ==
  ASSUME NEW n \in DOMAIN items, n \in Nat, items[n].interval # "", kind # "coinbase"
  PROVE  LET c == CandleOf(n)
         IN  UpdateOhlcv(Named(items[n].pair), items[n].interval, c.time, Text(c.open), Text(c.high),
                         Text(c.low), Text(c.close), Text(c.volume)) = CallFor(n)
<1>1. Said(n).value = CandleOf(n)
  BY DEF Said
<1>2. CallFor(n) = [call |-> "update_ohlcv", name |-> Named(items[n].pair),
                    interval |-> items[n].interval, candle |-> Said(n).value]
  BY DEF CallFor
<1> QED BY <1>1, <1>2, ReadBack, ZenonT(30) DEF UpdateOhlcv, CandleOf, Candle

\* What the trades of a message, read one after the other, lead to.
CallsFor(batch) == [i \in DOMAIN Read(batch) |-> CallFor(Read(batch)[i])]

\* Every exchange: the trades of a batch, Digifinex the last one only.
LEMMA TradesAreRead ==
  ASSUME SubscriptionsOK, MailOK, NEW batch, IsBatch(batch), channel = "TRADE" \/ HasService
  PROVE  Calls(TradeJson(batch)) = CallsFor(batch)
<1> DEFINE json == TradeJson(batch)
           n == batch[1]
           name == Named(items[n].pair)
           t == Trade(n)
<1>0. kind \in BookKinds \cup {"digifinex"} /\ channel \in Channels
  BY StreamDataAssumption DEF SubscriptionsOK
<1>1. /\ batch \in Seq(Nat) /\ Len(batch) \in Nat /\ Len(batch) > 0 /\ DOMAIN batch = 1 .. Len(batch)
      /\ 1 \in DOMAIN batch
      /\ \A k \in DOMAIN batch : batch[k] \in Nat /\ batch[k] \in DOMAIN items /\ items[batch[k]] = items[n]
  BY DEF IsBatch
<1>2. items[n].interval = ""
  <2>1. items[n] \in ItemStreams
    <3>1. items \in Seq(ItemStreams) /\ n \in DOMAIN items
      BY <1>1 DEF MailOK
    <3> QED BY <3>1
  <2>2. items[n].interval \in IF HasService \/ channel # "OHLCV" THEN {""} ELSE Intervals
    BY <2>1 DEF ItemStreams
  <2> QED BY <2>2
<1>3. \A k \in DOMAIN batch : items[batch[k]].interval = "" /\ Named(items[batch[k]].pair) = name
  BY <1>1, <1>2
<1>4. t.time = n /\ n \in Nat /\ n \in DOMAIN items
  BY <1>1 DEF Trade
<1>5. kind \notin {"kraken", "digifinex"} => Len(batch) = 1 /\ CallsFor(batch) = <<CallFor(n)>>
  <2> SUFFICES ASSUME kind \notin {"kraken", "digifinex"} PROVE Len(batch) = 1 /\ CallsFor(batch) = <<CallFor(n)>>
    OBVIOUS
  <2>1. Len(batch) = 1
    BY <1>1 DEF IsBatch, Batched
  <2>2. Read(batch) = batch
    BY DEF Read
  <2> QED BY <1>1, <2>1, <2>2 DEF CallsFor
<1> HIDE DEF n, name, t
<1>6. CASE kind = "binance"
  <2>1. json = [e |-> "trade", s |-> name, p |-> Text(t.price), q |-> Text(t.volume), T |-> Millis(t.time)]
    BY <1>6, Zenon DEF TradeJson, n, name, t
  <2>2. Calls(json) = binance_calls(json)
    BY <1>6, Zenon DEF Calls
  <2> HIDE DEF json
  <2>3. binance_calls(json) = <<UpdateTrade(name, n, Text(t.price), Text(t.volume))>>
    <3>1. json.e = "trade" /\ json.s = name /\ json.T \div 1000 = n /\ json.p = Text(t.price)
          /\ json.q = Text(t.volume)
      BY <1>4, <2>1, ReadMillis
    <3>2. binance_calls(json) = <<UpdateTrade(json.s, json.T \div 1000, json.p, json.q)>>
      BY <3>1, ZenonT(30) DEF binance_calls
    <3> QED BY <3>1, <3>2
  <2>4. UpdateTrade(name, n, Text(t.price), Text(t.volume)) = CallFor(n)
    BY <1>2, <1>4, <1>6, TradeCall DEF name, t
  <2> QED BY <1>5, <1>6, <2>2, <2>3, <2>4 DEF json
<1>7. CASE kind = "bybit"
  <2>1. json = [topic |-> "trade", symbol |-> name,
                data |-> <<[p |-> Text(t.price), q |-> Text(t.volume), t |-> Millis(t.time)]>>]
    BY <1>7, Zenon DEF TradeJson, n, name, t
  <2>2. Calls(json) = bybit_calls(json)
    BY <1>7, Zenon DEF Calls
  <2> HIDE DEF json
  <2>3. bybit_calls(json) = <<UpdateTrade(name, n, Text(t.price), Text(t.volume))>>
    <3>1. json.topic = "trade" /\ json.symbol = name
      BY <2>1
    <3>2. json.data[1] = [p |-> Text(t.price), q |-> Text(t.volume), t |-> Millis(t.time)]
      BY <2>1
    <3>3. json.data[1].t \div 1000 = n /\ json.data[1].p = Text(t.price) /\ json.data[1].q = Text(t.volume)
      BY <1>4, <3>2, ReadMillis
    <3>4. bybit_calls(json) =
            <<UpdateTrade(json.symbol, json.data[1].t \div 1000, json.data[1].p, json.data[1].q)>>
      BY <3>1, ZenonT(30) DEF bybit_calls
    <3> QED BY <3>1, <3>3, <3>4
  <2>4. UpdateTrade(name, n, Text(t.price), Text(t.volume)) = CallFor(n)
    BY <1>2, <1>4, <1>7, TradeCall DEF name, t
  <2> QED BY <1>5, <1>7, <2>2, <2>3, <2>4 DEF json
<1>8. CASE kind = "coinbase"
  <2>1. json = [type |-> "ticker", product_id |-> name, price |-> Text(t.price),
                last_size |-> Text(t.volume), time |-> [utc |-> t.time]]
    BY <1>8, Zenon DEF TradeJson, n, name, t
  <2>2. Calls(json) = coinbase_calls(json)
    BY <1>8, Zenon DEF Calls
  <2> HIDE DEF json
  <2>3. coinbase_calls(json) = <<UpdateTrade(name, n - LocalOffset, Text(t.price), Text(t.volume))>>
    <3>1. json.type = "ticker" /\ json.product_id = name /\ json.time.utc = n /\ json.price = Text(t.price)
          /\ json.last_size = Text(t.volume)
      BY <1>4, <2>1
    <3> QED BY <3>1, Zenon DEF coinbase_calls
  <2>4. UpdateTrade(name, n - LocalOffset, Text(t.price), Text(t.volume)) = CallFor(n)
    BY <1>2, <1>4, <1>8, TradeCall DEF name, t
  <2> QED BY <1>5, <1>8, <2>2, <2>3, <2>4 DEF json
<1>9. CASE kind = "kraken"
  <2> DEFINE rows == Each(batch, LAMBDA m : LET u == Trade(m) IN <<Text(u.price), Text(u.volume), Text(u.time)>>)
  <2>1. json = [array |-> <<7, rows, <<"trade">>, name>>]
    BY <1>9, Zenon DEF TradeJson, n, name
  <2>2. Calls(json) = kraken_calls(json)
    BY <1>9, Zenon DEF Calls
  <2>3. /\ DOMAIN rows = DOMAIN batch
        /\ \A i \in DOMAIN batch : rows[i] = <<Text(Trade(batch[i]).price), Text(Trade(batch[i]).volume),
                                               Text(Trade(batch[i]).time)>>
    BY DEF Each
  <2> HIDE DEF json, rows
  <2>4. json.array = <<7, rows, <<"trade">>, name>>
    BY <2>1
  <2>5. Len(json.array) = 4 /\ json.array[2] = rows /\ json.array[3] = <<"trade">> /\ json.array[4] = name
    BY <2>4, FourFields
  <2>6. kraken_calls(json) = kraken_trade_calls(name, rows)
    <3>1. json.array[Len(json.array) - 1][1] = "trade" /\ json.array[Len(json.array)] = name
      <4>1. Len(json.array) - 1 = 3
        BY <2>5
      <4>2. json.array[3][1] = "trade"
        BY <2>5
      <4> QED BY <2>5, <4>1, <4>2, Zenon
    <3> QED BY <2>5, <3>1, Zenon DEF kraken_calls
  <2>7. kraken_trade_calls(name, rows) = [i \in DOMAIN batch |-> UpdateTrade(name, Stod(rows[i][3]), rows[i][1], rows[i][2])]
    BY <2>3, Zenon DEF kraken_trade_calls, Each
  <2>8. ASSUME NEW i \in DOMAIN batch
        PROVE  UpdateTrade(name, Stod(rows[i][3]), rows[i][1], rows[i][2]) = CallFor(batch[i])
    <3>1. /\ rows[i][1] = Text(Trade(batch[i]).price) /\ rows[i][2] = Text(Trade(batch[i]).volume)
          /\ rows[i][3] = Text(Trade(batch[i]).time)
      BY <2>3
    <3>2. Stod(rows[i][3]) = batch[i]
      BY <3>1, ReadBack DEF Trade
    <3>3. UpdateTrade(name, batch[i], Text(Trade(batch[i]).price), Text(Trade(batch[i]).volume)) = CallFor(batch[i])
      BY <1>1, <1>3, <1>9, TradeCall
    <3> QED BY <3>1, <3>2, <3>3
  <2>9. CallsFor(batch) = [i \in DOMAIN batch |-> CallFor(batch[i])]
    BY <1>9 DEF CallsFor, Read
  <2> QED BY <2>2, <2>6, <2>7, <2>8, <2>9 DEF json
<1>10. CASE kind = "digifinex"
  <2> DEFINE rows == Each(batch, LAMBDA m : LET u == Trade(m)
                                            IN  [price |-> Text(u.price), amount |-> Text(u.volume), time |-> u.time])
             last == batch[Len(batch)]
  <2>1. json = [method |-> "trades.update", params |-> <<TRUE, rows, name>>]
    BY <1>10, Zenon DEF TradeJson, n, name
  <2>2. Calls(json) = digifinex_calls(json)
    BY <1>10, Zenon DEF Calls
  <2>3. /\ DOMAIN rows = DOMAIN batch
        /\ \A i \in DOMAIN batch : rows[i] = [price |-> Text(Trade(batch[i]).price),
                                              amount |-> Text(Trade(batch[i]).volume), time |-> Trade(batch[i]).time]
    BY DEF Each
  <2>4. Len(rows) = Len(batch) /\ Len(batch) \in DOMAIN batch
    <3>1. rows = [i \in 1 .. Len(batch) |-> rows[i]]
      BY <1>1 DEF Each
    <3> HIDE DEF rows
    <3> QED BY <1>1, <3>1
  <2> HIDE DEF json, rows
  <2>5. json.params[2] = rows /\ json.params[3] = name
    <3>1. json.params = <<TRUE, rows, name>>
      BY <2>1
    <3> QED BY <3>1
  <2>6. Last(json.params[2]) = [price |-> Text(Trade(last).price), amount |-> Text(Trade(last).volume),
                                time |-> Trade(last).time]
    BY <2>3, <2>4, <2>5 DEF Last
  <2>7. digifinex_calls(json) = <<UpdateTrade(name, last, Text(Trade(last).price), Text(Trade(last).volume))>>
    <3>1. /\ Last(json.params[2]).time = last /\ Last(json.params[2]).price = Text(Trade(last).price)
          /\ Last(json.params[2]).amount = Text(Trade(last).volume)
      BY <2>6 DEF Trade
    <3> QED BY <2>5, <3>1, Zenon DEF digifinex_calls
  <2>8. UpdateTrade(name, last, Text(Trade(last).price), Text(Trade(last).volume)) = CallFor(last)
    BY <1>1, <1>3, <1>10, <2>4, TradeCall
  <2>9. CallsFor(batch) = <<CallFor(last)>>
    BY <1>10 DEF CallsFor, Read
  <2> QED BY <2>2, <2>7, <2>8, <2>9 DEF json
<1> QED BY <1>0, <1>6, <1>7, <1>8, <1>9, <1>10 DEF BookKinds

\* The exchanges with candles of their own: the candle.
LEMMA CandleIsRead ==
  ASSUME SubscriptionsOK, MailOK, NEW batch, IsBatch(batch), channel = "OHLCV", ~ HasService
  PROVE  Calls(OhlcvJson(batch[1])) = CallsFor(batch)
<1> DEFINE n == batch[1]
           json == OhlcvJson(n)
           name == Named(items[n].pair)
           interval == items[n].interval
           c == CandleOf(n)
           values == [t |-> Millis(c.time), o |-> Text(c.open), h |-> Text(c.high), l |-> Text(c.low),
                      c |-> Text(c.close), v |-> Text(c.volume), i |-> interval]
           update == UpdateOhlcv(name, interval, c.time, Text(c.open), Text(c.high), Text(c.low),
                                 Text(c.close), Text(c.volume))
<1>0. kind \in {"binance", "bybit", "kraken"}
  BY StreamDataAssumption DEF SubscriptionsOK, HasService, BookKinds
<1>1. n \in Nat /\ n \in DOMAIN items /\ Len(batch) = 1 /\ DOMAIN batch = {1}
  <2>1. batch \in Seq(Nat) /\ Len(batch) = 1
    <3>1. ~ Batched /\ batch \in Seq(Nat) /\ Len(batch) > 0 /\ (Len(batch) > 1 => Batched)
      BY DEF IsBatch, Batched
    <3> QED BY <3>1
  <2>2. n \in DOMAIN items
    BY <2>1 DEF IsBatch
  <2> QED BY <2>1, <2>2
<1>2. CallsFor(batch) = <<CallFor(n)>>
  <2>1. Read(batch) = batch
    BY <1>0 DEF Read
  <2> QED BY <1>1, <2>1 DEF CallsFor
<1>3. interval \in Intervals /\ interval # ""
  <2>1. items[n] \in ItemStreams
    <3>1. items \in Seq(ItemStreams) /\ n \in DOMAIN items
      BY <1>1 DEF MailOK
    <3> QED BY <3>1
  <2>2. items[n].interval \in IF HasService \/ channel # "OHLCV" THEN {""} ELSE Intervals
    BY <2>1 DEF ItemStreams
  <2> QED BY <2>2, StreamMessagesAssumption
<1>4. update = CallFor(n)
  BY <1>0, <1>1, <1>3, CandleCall
<1>5. c.time = n
  BY DEF CandleOf, Candle
<1>6. c.time \in Int /\ Millis(c.time) \div 1000 = c.time
  BY <1>1, <1>5, ReadMillis
<1> HIDE DEF name, interval, c, n
<1>7. CASE kind = "binance"
  <2>1. json = [e |-> "kline", s |-> name, k |-> values]
    BY <1>7, Zenon DEF OhlcvJson, name, interval, c
  <2>2. Calls(json) = binance_calls(json)
    BY <1>7, Zenon DEF Calls
  <2> HIDE DEF json
  <2>3. binance_calls(json) = <<UpdateOhlcv(json.s, json.k.i, json.k.t \div 1000, json.k.o, json.k.h,
                                            json.k.l, json.k.c, json.k.v)>>
    <3>1. json.e = "kline"
      BY <2>1
    <3> QED BY <3>1, ZenonT(30) DEF binance_calls
  <2>4. json.s = name /\ json.k = values
    BY <2>1
  <2>5. binance_calls(json) = <<update>>
    BY <1>6, <2>3, <2>4
  <2> QED BY <1>2, <1>4, <2>2, <2>5 DEF json, n
<1>8. CASE kind = "bybit"
  <2>1. json = [topic |-> "kline", symbol |-> name, params |-> [klineType |-> interval], data |-> <<values>>]
    BY <1>8, Zenon DEF OhlcvJson, name, interval, c
  <2>2. Calls(json) = bybit_calls(json)
    BY <1>8, Zenon DEF Calls
  <2> HIDE DEF json
  <2>3. bybit_calls(json) =
          <<UpdateOhlcv(json.symbol, json.params.klineType, json.data[1].t \div 1000, json.data[1].o,
                        json.data[1].h, json.data[1].l, json.data[1].c, json.data[1].v)>>
    <3>1. json.topic = "kline"
      BY <2>1
    <3> QED BY <3>1, ZenonT(30) DEF bybit_calls
  <2>4. json.symbol = name /\ json.params.klineType = interval /\ json.data[1] = values
    BY <2>1
  <2>5. bybit_calls(json) = <<update>>
    BY <1>6, <2>3, <2>4
  <2> QED BY <1>2, <1>4, <2>2, <2>5 DEF json, n
<1>9. CASE kind = "kraken"
  <2> DEFINE row == <<Text(c.time), Text(c.time + 59), Text(c.open), Text(c.high), Text(c.low),
                      Text(c.close), Text(c.close + 1), Text(c.volume), 3>>
             what == <<"ohlc", Minutes(interval)>>
  <2>1. json = [array |-> <<7, row, what, name>>]
    BY <1>9, Zenon DEF OhlcvJson, name, interval, c
  <2>2. Calls(json) = kraken_calls(json)
    BY <1>9, Zenon DEF Calls
  <2> HIDE DEF json
  <2>3. what[1] = "ohlc" /\ MinutesNamed(what[2]) = interval
    BY <1>3, MinutesTellIntervals
  <2>4. /\ row[1] = Text(c.time) /\ row[3] = Text(c.open) /\ row[4] = Text(c.high) /\ row[5] = Text(c.low)
        /\ row[6] = Text(c.close) /\ row[8] = Text(c.volume)
    OBVIOUS
  <2> HIDE DEF row, what
  <2>5. Len(json.array) = 4 /\ json.array[2] = row /\ json.array[3] = what /\ json.array[4] = name
    BY <2>1, FourFields
  <2>6. json.array[Len(json.array) - 1] = what /\ json.array[Len(json.array)] = name
    <3>1. Len(json.array) - 1 = 3
      BY <2>5
    <3> QED BY <2>5, <3>1, Zenon
  <2>7. kraken_calls(json) = <<UpdateOhlcv(name, MinutesNamed(what[2]), Stod(row[1]), row[3], row[4], row[5],
                                           row[6], row[8])>>
    BY <2>3, <2>5, <2>6, Zenon DEF kraken_calls
  <2>8. kraken_calls(json) = <<update>>
    <3>1. Stod(row[1]) = c.time
      BY <2>4, ReadBack
    <3> QED BY <2>3, <2>4, <2>7, <3>1
  <2> QED BY <1>2, <1>4, <2>2, <2>8 DEF json, n
<1> QED BY <1>0, <1>7, <1>8, <1>9 DEF n

-----------------------------------------------------------------------------
(***************************************************************************)
(* Steps that leave the items alone.                                       *)
(***************************************************************************)
\* A value has its number for its time, Coinbase's in local time.
LEMMA TimeOfAValue ==
  ASSUME NEW n
  PROVE  Said(n).value.time = IF kind = "coinbase" THEN n - LocalOffset ELSE n
<1>1. Trade(n).time = n /\ CandleOf(n).time = n
  BY DEF Trade, CandleOf, Candle
<1> QED BY <1>1 DEF Said, Trade, CandleOf, Candle

\* The number is found again in the time.
LEMMA NumberOfAValue ==
  ASSUME NEW n \in Int
  PROVE  Number(Said(n).value) = n /\ ValueOf(CallFor(n)) = Said(n).value
<1>1. Said(n).value.time = IF kind = "coinbase" THEN n - LocalOffset ELSE n
  BY TimeOfAValue
<1>3. Number(Said(n).value) = n
  <2> DEFINE v == Said(n).value
             offset == LocalOffset
  <2>1. Number(v) = v.time + (IF kind = "coinbase" THEN offset ELSE 0)
    BY DEF Number
  <2>2. v.time = (IF kind = "coinbase" THEN n - offset ELSE n) /\ offset \in Int
    BY <1>1, StreamMessagesAssumption
  <2> HIDE DEF v, offset
  <2>3. Number(v) = n
    BY <2>1, <2>2
  <2> QED BY <2>3 DEF v
<1>4. ValueOf(CallFor(n)) = Said(n).value
  <2>1. CASE items[n].interval = ""
    BY <2>1 DEF ValueOf, CallFor
  <2>2. CASE items[n].interval # ""
    BY <2>2 DEF ValueOf, CallFor
  <2> QED BY <2>1, <2>2
<1> QED BY <1>3, <1>4

\* What is said of a number depends on the item of that number only.
LEMMA ValuesStay ==
  ASSUME kind' = kind, NEW n, items'[n] = items[n]
  PROVE  Said(n)' = Said(n) /\ CallFor(n)' = CallFor(n)
<1>1. Said(n)' = Said(n)
  BY DEF Said, Trade, CandleOf
<1> HIDE DEF Said
<1> QED BY <1>1 DEF CallFor, Named, Separator

\* A function with the domain of a sequence is one.
LEMMA MembersOfItself ==
  ASSUME NEW f, NEW S, NEW g \in Seq(S), DOMAIN f = DOMAIN g, f = [i \in DOMAIN f |-> f[i]]
  PROVE  f \in Seq({f[i] : i \in DOMAIN f})
<1>1. f = [i \in 1 .. Len(g) |-> f[i]]
  OBVIOUS
<1> QED BY <1>1

\* The stream starts without subscriptions, trades and candles.
LEMMA ItemsInitially == Init => ItemsInv
<1> SUFFICES ASSUME Init PROVE ItemsInv
  OBVIOUS
<1>1. /\ kind \in Kinds /\ channel \in Channels /\ calls = <<>> /\ on = {} /\ pairs = {} /\ asked = {}
      /\ items = <<>> /\ mail = <<>> /\ filed = <<>> /\ told = <<>> /\ due = {}
  BY DEF Init, BookInit
<1>2. items \in Seq(ItemStreams) /\ mail \in Seq(Seq(Nat))
      /\ told \in Seq([pair : Pairs, interval : Intervals \cup {""}, value : {Said(n).value : n \in DOMAIN items}])
  BY <1>1, EmptySeq
<1>3. DOMAIN items = {} /\ DOMAIN mail = {} /\ DOMAIN told = {} /\ DOMAIN calls = {} /\ DOMAIN filed = {}
  BY <1>1
<1>4. SubscriptionsOK
  BY <1>1 DEF SubscriptionsOK
<1>5. MailOK
  BY <1>1, <1>2, <1>3 DEF MailOK
<1>6. CallsOK /\ DueOK /\ FiledOK
  BY <1>1, <1>3 DEF CallsOK, DueOK, FiledOK
<1>7. ToldOK
  BY <1>2, <1>3 DEF ToldOK
<1> QED BY <1>4, <1>5, <1>6, <1>7 DEF ItemsInv

\* What was told stays so with the items.
LEMMA ToldStays ==
  ASSUME ToldOK, UNCHANGED <<kind, items, told>>
  PROVE  /\ (told \in Seq([pair : Pairs, interval : Intervals \cup {""},
                           value : {Said(n).value : n \in DOMAIN items}]))'
         /\ \A i \in DOMAIN told : /\ Number(told[i].value)' \in DOMAIN items'
                                   /\ (told[i] = Said(Number(told[i].value)))'
         /\ \A i, j \in DOMAIN told : i < j => Number(told[i].value)' < Number(told[j].value)'
<1>1. \A n : Said(n)' = Said(n)
  BY ValuesStay
<1>2. \A v : Number(v)' = Number(v)
  BY DEF Number
<1>3. PICK values : values = {Said(n).value : n \in DOMAIN items}
  OBVIOUS
<1>4. {Said(n).value : n \in DOMAIN items}' = values
  <2>1. \A n : Said(n).value' = Said(n).value
    BY <1>1
  <2> QED BY <1>3, <2>1
<1>5. (told \in Seq([pair : Pairs, interval : Intervals \cup {""},
                     value : {Said(n).value : n \in DOMAIN items}]))'
  <2>1. told \in Seq([pair : Pairs, interval : Intervals \cup {""}, value : values])
    BY <1>3 DEF ToldOK
  <2> QED BY <1>4, <2>1
<1>6. ASSUME NEW i \in DOMAIN told
      PROVE  Number(told[i].value)' \in DOMAIN items' /\ (told[i] = Said(Number(told[i].value)))'
  <2>1. PICK n : n = Number(told[i].value)
    OBVIOUS
  <2>2. n \in DOMAIN items /\ told[i] = Said(n)
    BY <2>1 DEF ToldOK
  <2>3. Number(told[i].value)' = n
    BY <1>2, <2>1
  <2>4. Said(Number(told[i].value))' = Said(n)'
    BY <2>3
  <2> QED BY <1>1, <2>2, <2>3, <2>4
<1>7. \A i, j \in DOMAIN told : i < j => Number(told[i].value)' < Number(told[j].value)'
  BY <1>2 DEF ToldOK
<1> QED BY <1>5, <1>6, <1>7

\* More pairs become known, and streams are subscribed and unsubscribed for them.
LEMMA SubscriptionsKeepItems ==
  ASSUME ItemsInv, SubscriptionsOK', pairs \subseteq pairs',
         UNCHANGED <<kind, channel, items, mail, filed, told, due>>,
         calls' = calls \/ channel = "ORDER_BOOK"
  PROVE  ItemsInv'
<1> USE DEF ItemsInv
<1>0. Separator' = Separator
  BY Zenon DEF Separator
<1>1. MailOK'
  <2>1. Batched' = Batched /\ ItemStreams' = ItemStreams
    BY DEF Batched, ItemStreams, get_channel, HasService
  <2>2. ASSUME NEW i \in DOMAIN mail PROVE IsBatch(mail[i])'
    <3>1. IsBatch(mail[i])
      BY DEF MailOK
    <3> QED BY <2>1, <3>1 DEF IsBatch
  <2> HIDE DEF ItemsInv
  <2> QED BY <2>1, <2>2 DEF MailOK, ItemsInv
<1>2. CallsOK'
  <2> SUFFICES ASSUME channel # "ORDER_BOOK", calls' = calls PROVE CallsOK'
    BY DEF CallsOK
  <2>1. ASSUME NEW i \in DOMAIN calls
        PROVE  /\ CallNumber(calls[i])' \in DOMAIN items
               /\ (calls[i] = CallFor(CallNumber(calls[i])))'
               /\ items'[CallNumber(calls[i])'].pair \in pairs'
    <3>1. PICK n : n = CallNumber(calls[i])
      OBVIOUS
    <3>2. CallNumber(calls[i])' = n
      BY <3>1 DEF CallNumber, Number, ValueOf
    <3>3. n \in DOMAIN items /\ calls[i] = CallFor(n) /\ items[n].pair \in pairs
      BY <3>1 DEF CallsOK
    <3>4. CallFor(n)' = CallFor(n)
      BY ValuesStay
    <3>5. CallFor(CallNumber(calls[i]))' = CallFor(n)'
      BY <3>2
    <3> QED BY <3>2, <3>3, <3>4, <3>5
  <2>2. (\A i, j \in DOMAIN calls : i < j => CallNumber(calls[i]) < CallNumber(calls[j]))'
    BY DEF CallsOK, CallNumber, Number, ValueOf
  <2>3. (\A i \in DOMAIN calls, j \in DOMAIN mail : \A k \in DOMAIN mail[j] : CallNumber(calls[i]) < mail[j][k])'
    BY DEF CallsOK, CallNumber, Number, ValueOf
  <2>4. (calls \in Seq({calls[i] : i \in DOMAIN calls}))'
    BY DEF CallsOK
  <2> HIDE DEF ItemsInv
  <2> QED BY <2>1, <2>2, <2>3, <2>4 DEF CallsOK
<1>3. ToldOK'
  <2>1. /\ (told \in Seq([pair : Pairs, interval : Intervals \cup {""},
                          value : {Said(n).value : n \in DOMAIN items}]))'
        /\ \A i \in DOMAIN told : /\ Number(told[i].value)' \in DOMAIN items'
                                  /\ (told[i] = Said(Number(told[i].value)))'
        /\ \A i, j \in DOMAIN told : i < j => Number(told[i].value)' < Number(told[j].value)'
    BY ToldStays
  <2>2. (channel # "ORDER_BOOK" =>
           \A i \in DOMAIN told, j \in DOMAIN calls : Number(told[i].value) < CallNumber(calls[j]))'
    BY DEF ToldOK, CallNumber, Number, ValueOf
  <2>3. (\A i \in DOMAIN told, j \in DOMAIN mail : \A k \in DOMAIN mail[j] :
           Number(told[i].value) < mail[j][k])'
    BY DEF ToldOK, Number
  <2> HIDE DEF ItemsInv
  <2> QED BY <2>1, <2>2, <2>3 DEF ToldOK
<1>4. DueOK'
  BY DEF DueOK, CallNumber, Number, ValueOf, Read
<1>5. FiledOK'
  BY <1>0 DEF FiledOK, Named, Name, Key
<1> QED BY <1>1, <1>2, <1>3, <1>4, <1>5

\* subscribe adds pairs and streams.
LEMMA SubscribeKeepsItems ==
  ASSUME ItemsInv, NEW ps \in SUBSET Pairs, NEW interval \in IntervalsOf, Subscribe(ps, interval), kind' = kind
  PROVE  ItemsInv'
<1>1. on' = on \cup Wanted(ps, interval) /\ asked' = asked \cup Wanted(ps, interval) /\ pairs' = pairs \cup ps
  BY MessageNamesStreams DEF Subscribe, ItemsInv
<1>2. \A s \in Wanted(ps, interval) : s.pair \in ps
  <2> DEFINE said == IF HasService THEN "" ELSE interval
  <2> SUFFICES ASSUME NEW s \in Wanted(ps, interval) PROVE s.pair \in ps
    OBVIOUS
  <2>1. Wanted(ps, interval) = {Stream(get_channel, said, p) : p \in ps}
    BY DEF Wanted
  <2> HIDE DEF said
  <2>2. PICK p \in ps : s = Stream(get_channel, said, p)
    BY <2>1
  <2> QED BY <2>2 DEF Stream
<1>3. UNCHANGED <<channel, calls, items, mail, filed, told, due>>
  BY DEF Subscribe
<1>4. SubscriptionsOK'
  <2> HIDE DEF Wanted
  <2>1. kind' \in Kinds /\ channel' \in Channels /\ pairs' \subseteq Pairs /\ asked' \subseteq on'
    BY <1>1, <1>3 DEF SubscriptionsOK, ItemsInv
  <2>2. \A s \in on' : s.pair \in pairs'
    BY <1>1, <1>2 DEF SubscriptionsOK, ItemsInv
  <2>3. Supported'
    BY <1>3 DEF Subscribe, Supported
  <2> QED BY <2>1, <2>2, <2>3 DEF SubscriptionsOK
<1> QED BY <1>1, <1>3, <1>4, SubscriptionsKeepItems

\* unsubscribe takes streams away, the pairs stay.
LEMMA UnsubscribeKeepsItems ==
  ASSUME ItemsInv, NEW ps \in SUBSET Pairs, NEW interval \in IntervalsOf, Unsubscribe(ps, interval), kind' = kind
  PROVE  ItemsInv'
<1>1. asked' \subseteq asked /\ on' \subseteq on /\ asked' \subseteq on'
  <2>1. CASE Supported
    <3>1. asked' = asked \ Wanted(ps, interval) /\ (on' = on \/ on' = on \ Wanted(ps, interval))
      BY <2>1, MessageNamesStreams DEF Unsubscribe, ItemsInv
    <3> HIDE DEF Wanted
    <3> QED BY <3>1 DEF ItemsInv, SubscriptionsOK
  <2>2. CASE ~ Supported
    <3>1. on = {} /\ asked = {}
      BY <2>2 DEF ItemsInv, SubscriptionsOK
    <3> QED BY <3>1 DEF Unsubscribe
  <2> QED BY <2>1, <2>2
<1>2. UNCHANGED <<channel, calls, pairs, items, mail, filed, told, due>>
  BY DEF Unsubscribe
<1>3. SubscriptionsOK'
  BY <1>1, <1>2 DEF SubscriptionsOK, ItemsInv, Supported
<1> QED BY <1>2, <1>3, SubscriptionsKeepItems

\* Steps that are none of the trades and candles.
LEMMA OtherStepsKeepItems ==
  ASSUME ItemsInv, UNCHANGED <<kind, channel, on, asked, items, mail, filed, told, due>>,
         pairs' \in {pairs, pairs \cup {BookPair}}, calls' = calls \/ channel = "ORDER_BOOK"
  PROVE  ItemsInv'
<1>1. SubscriptionsOK'
  BY StreamMessagesAssumption DEF SubscriptionsOK, ItemsInv, Supported
<1> QED BY <1>1, SubscriptionsKeepItems

\* reset forgets what was on its way and what was told.
LEMMA ResetKeepsItems ==
  ASSUME ItemsInv, Reset
  PROVE  ItemsInv'
<1>1. /\ UNCHANGED <<kind, channel, calls, pairs, items>>
      /\ calls = <<>> /\ on' = {} /\ asked' = {} /\ mail' = <<>> /\ filed' = <<>> /\ told' = <<>> /\ due' = {}
  BY DEF Reset, reset
<1>2. /\ mail' \in Seq(Seq(Nat))
      /\ told' \in Seq([pair : Pairs, interval : Intervals \cup {""}, value : {Said(n).value : n \in DOMAIN items}])'
  BY <1>1, EmptySeq
<1>3. DOMAIN mail' = {} /\ DOMAIN told' = {} /\ DOMAIN calls' = {} /\ DOMAIN filed' = {}
  BY <1>1
<1>4. SubscriptionsOK'
  BY <1>1 DEF SubscriptionsOK, ItemsInv
<1>5. MailOK'
  <2>1. ItemStreams' = ItemStreams
    BY <1>1 DEF ItemStreams, get_channel, HasService
  <2> QED BY <1>1, <1>2, <1>3, <2>1 DEF MailOK, ItemsInv
<1>6. CallsOK' /\ DueOK' /\ FiledOK'
  BY <1>1, <1>3 DEF CallsOK, DueOK, FiledOK
<1>7. ToldOK'
  BY <1>2, <1>3 DEF ToldOK
<1> QED BY <1>4, <1>5, <1>6, <1>7 DEF ItemsInv

-----------------------------------------------------------------------------
(***************************************************************************)
(* A trade or a candle is made.                                            *)
(***************************************************************************)
\* It comes last, at the end of the last message if anywhere.
LEMMA MadeComesLast ==
  ASSUME ItemsInv, channel # "ORDER_BOOK", NEW s \in ItemStreams, NEW joined \in BOOLEAN, Make(s, joined)
  PROVE  /\ mail' \in Seq(Seq(Nat))
         /\ \A i \in DOMAIN mail' : IsBatch(mail[i])'
         /\ \A i \in DOMAIN mail' : \A k \in DOMAIN mail'[i] :
              \/ i = Len(mail') /\ mail'[i][k] = Len(items) + 1
              \/ i \in DOMAIN mail /\ k \in DOMAIN mail[i] /\ mail'[i][k] = mail[i][k]
         /\ s \in on => /\ mail' # <<>> /\ Len(mail') \in DOMAIN mail' /\ Len(mail'[Len(mail')]) \in Nat \ {0}
                        /\ mail'[Len(mail')][Len(mail'[Len(mail')])] = Len(items) + 1
         /\ \A i \in DOMAIN mail : \/ i \in DOMAIN mail' /\ mail'[i] = mail[i]
                                   \/ /\ i = Len(mail) /\ joined /\ i \in DOMAIN mail'
                                      /\ mail'[i] = Append(mail[i], Len(items) + 1)
<1>0. PICK n : n = Len(items) + 1
  OBVIOUS
<1>1. /\ UNCHANGED <<kind, channel, calls, on, pairs, asked, filed, told>>
      /\ items' = Append(items, s)
      /\ joined => s \in on /\ Batched /\ mail # <<>> /\ items[Last(mail)[1]] = s
      /\ mail' = IF joined THEN Front(mail) \o <<Append(Last(mail), n)>>
                 ELSE IF s \in on THEN Append(mail, <<n>>) ELSE mail
  BY <1>0 DEF Make, bookVars
<1>2. items \in Seq(ItemStreams) /\ mail \in Seq(Seq(Nat)) /\ n \in Nat \ {0}
  BY <1>0 DEF ItemsInv, MailOK
<1>3. /\ DOMAIN items' = 1 .. n /\ items'[n] = s
      /\ \A k \in DOMAIN items : k \in DOMAIN items' /\ items'[k] = items[k] /\ k < n /\ k \in Nat
  BY <1>0, <1>1, <1>2
<1>4. Batched' = Batched
  BY <1>1 DEF Batched
<1>5. ASSUME NEW i \in DOMAIN mail
      PROVE  /\ mail[i] \in Seq(Nat) /\ Len(mail[i]) > 0 /\ IsBatch(mail[i]) /\ i \in 1 .. Len(mail)
             /\ \A k \in DOMAIN mail[i] : mail[i][k] \in DOMAIN items /\ mail[i][k] < n
             /\ mail'[i] = mail[i] => IsBatch(mail[i])'
  <2>1. IsBatch(mail[i]) /\ mail[i] \in Seq(Nat) /\ Len(mail[i]) > 0 /\ i \in 1 .. Len(mail)
    BY <1>2 DEF ItemsInv, MailOK, IsBatch
  <2>2. \A k \in DOMAIN mail[i] : mail[i][k] \in DOMAIN items /\ mail[i][k] < n
    BY <1>3, <2>1 DEF IsBatch
  <2>3. 1 \in DOMAIN mail[i]
    BY <2>1
  <2>4. PICK batch : batch = mail[i]
    OBVIOUS
  <2>5. IsBatch(batch)'
    BY <1>1, <1>3, <1>4, <2>1, <2>3, <2>4 DEF IsBatch
  <2>6. mail'[i] = mail[i] => IsBatch(mail[i])'
    BY <2>4, <2>5
  <2> QED BY <2>1, <2>2, <2>6
<1>6. s \in on => s.pair \in pairs
  BY DEF ItemsInv, SubscriptionsOK
<1>7. CASE ~ joined /\ s \notin on
  <2>1. mail' = mail
    BY <1>1, <1>7
  <2>2. \A i \in DOMAIN mail' : i \in DOMAIN mail /\ IsBatch(mail[i])'
    BY <1>5, <2>1
  <2> QED BY <1>2, <1>5, <1>7, <2>1, <2>2
<1>8. CASE ~ joined /\ s \in on
  <2>1. mail' = Append(mail, <<n>>) /\ <<n>> \in Seq(Nat)
    BY <1>1, <1>2, <1>8
  <2>2. /\ mail' \in Seq(Seq(Nat)) /\ Len(mail') = Len(mail) + 1 /\ mail'[Len(mail')] = <<n>>
        /\ \A i \in DOMAIN mail : i \in DOMAIN mail' /\ mail'[i] = mail[i]
        /\ \A i \in DOMAIN mail' : i \in DOMAIN mail \/ i = Len(mail')
        /\ Len(mail') \in DOMAIN mail' /\ mail' # <<>>
    BY <1>2, <2>1, AppendMembers
  <2>3. IsBatch(<<n>>)'
    <3>1. DOMAIN <<n>> = {1} /\ <<n>>[1] = n /\ Len(<<n>>) = 1
      OBVIOUS
    <3>2. <<n>> \in Seq(Nat) /\ n \in DOMAIN items' /\ items'[n].pair \in pairs'
      BY <1>1, <1>2, <1>3, <1>6, <1>8
    <3>3. PICK one : one = <<n>>
      OBVIOUS
    <3>4. IsBatch(one)'
      BY <3>1, <3>2, <3>3 DEF IsBatch
    <3> QED BY <3>3, <3>4
  <2>4. ASSUME NEW i \in DOMAIN mail' PROVE IsBatch(mail[i])'
    <3>1. CASE i \in DOMAIN mail
      BY <1>5, <2>2, <3>1
    <3>2. CASE i = Len(mail')
      <4>1. mail'[i] = <<n>>
        BY <2>2, <3>2
      <4> QED BY <2>3, <4>1
    <3> QED BY <2>2, <3>1, <3>2
  <2>5. DOMAIN mail'[Len(mail')] = {1} /\ mail'[Len(mail')][1] = n /\ Len(mail'[Len(mail')]) = 1
    BY <2>2
  <2> QED BY <1>0, <1>8, <2>2, <2>4, <2>5
<1>9. CASE joined
  <2>0. PICK L, longer : L = Len(mail) /\ longer = Append(mail[L], n)
    OBVIOUS
  <2>1. L \in DOMAIN mail /\ L \in Nat \ {0} /\ Last(mail) = mail[L]
    BY <1>1, <1>2, <1>9, <2>0 DEF Last
  <2>2. mail[L] \in Seq(Nat) /\ Len(mail[L]) > 0
    BY <1>5, <2>1
  <2>3. /\ longer \in Seq(Nat) /\ Len(longer) = Len(mail[L]) + 1 /\ longer[Len(longer)] = n
        /\ \A k \in DOMAIN mail[L] : k \in DOMAIN longer /\ longer[k] = mail[L][k] /\ k < Len(longer)
        /\ \A k \in DOMAIN longer : k \in DOMAIN mail[L] \/ k = Len(longer)
        /\ Len(longer) \in DOMAIN longer
    BY <1>2, <2>0, <2>2, AppendMembers, SMTT(20)
  <2>4. mail' = Front(mail) \o <<longer>>
    BY <1>1, <1>9, <2>0, <2>1
  <2>5. Front(mail) \in Seq(Seq(Nat)) /\ Len(Front(mail)) = L - 1 /\ \A i \in 1 .. L - 1 : Front(mail)[i] = mail[i]
    BY <1>2, <2>0, <2>1, SubSeqProperties DEF Front
  <2>6. /\ mail' \in Seq(Seq(Nat)) /\ Len(mail') = L /\ mail'[L] = longer
        /\ \A i \in 1 .. L - 1 : mail'[i] = mail[i]
        /\ DOMAIN mail' = 1 .. L /\ DOMAIN mail = 1 .. L
    <3>1. PICK front : front = Front(mail)
      OBVIOUS
    <3>3. front \in Seq(Seq(Nat)) /\ Len(front) = L - 1 /\ mail' = front \o <<longer>>
      BY <2>4, <2>5, <3>1
    <3>2. mail' \in Seq(Seq(Nat)) /\ Len(mail') = L /\ mail'[L] = longer /\ \A i \in 1 .. L - 1 : mail'[i] = front[i]
      BY <2>1, <2>3, <3>3
    <3> QED BY <1>2, <2>0, <2>1, <2>5, <3>1, <3>2
  <2>7. IsBatch(longer)'
    <3>1. Batched /\ items[mail[L][1]] = s /\ s.pair \in pairs
      BY <1>1, <1>6, <1>9, <2>1
    <3>2. /\ \A k \in DOMAIN mail[L] : /\ mail[L][k] \in DOMAIN items /\ items[mail[L][k]] = s
                                       /\ mail[L][k] < n
          /\ \A k, l \in DOMAIN mail[L] : k < l => mail[L][k] < mail[L][l]
      BY <1>5, <2>1, <3>1 DEF IsBatch
    <3>3. 1 \in DOMAIN mail[L] /\ longer[1] = mail[L][1]
      BY <2>2, <2>3
    <3>4. ASSUME NEW k \in DOMAIN longer
          PROVE  longer[k] \in DOMAIN items' /\ items'[longer[k]] = s
      <4>1. CASE k \in DOMAIN mail[L]
        BY <1>3, <2>3, <3>2, <4>1
      <4>2. CASE k = Len(longer)
        BY <1>2, <1>3, <2>3, <4>2
      <4> QED BY <2>3, <4>1, <4>2
    <3>5. ASSUME NEW k \in DOMAIN longer, NEW l \in DOMAIN longer, k < l
          PROVE  longer[k] < longer[l]
      <4>0. Len(longer) \in Nat /\ DOMAIN longer = 1 .. Len(longer) /\ DOMAIN mail[L] = 1 .. Len(mail[L])
        BY <2>2, <2>3
      <4>1. k \in DOMAIN mail[L]
        BY <2>2, <2>3, <3>5, <4>0
      <4>2. CASE l \in DOMAIN mail[L]
        BY <2>3, <3>2, <3>5, <4>1, <4>2
      <4>3. CASE l = Len(longer)
        BY <2>3, <3>2, <4>1, <4>3
      <4> QED BY <2>3, <4>2, <4>3
    <3>6. items'[longer[1]] = s /\ Batched' /\ pairs' = pairs
      BY <1>1, <1>4, <3>1, <3>3, <3>4, <2>3
    <3>7. Len(longer) > 0
      BY <2>2, <2>3
    <3> QED BY <2>3, <3>1, <3>4, <3>5, <3>6, <3>7 DEF IsBatch
  <2>8. \A i \in DOMAIN mail' : i = L \/ (i \in 1 .. L - 1 /\ i \in DOMAIN mail)
    BY <2>0, <2>1, <2>6
  <2>9. ASSUME NEW i \in DOMAIN mail' PROVE IsBatch(mail[i])'
    <3>1. CASE i = L
      BY <2>6, <2>7, <3>1
    <3>2. CASE i \in 1 .. L - 1
      BY <1>5, <2>6, <2>8, <3>2
    <3> QED BY <2>8, <3>1, <3>2
  <2>10. \A i \in DOMAIN mail' : \A k \in DOMAIN mail'[i] :
              \/ i = Len(mail') /\ mail'[i][k] = n
              \/ i \in DOMAIN mail /\ k \in DOMAIN mail[i] /\ mail'[i][k] = mail[i][k]
    BY <2>1, <2>3, <2>6, <2>8
  <2>11. /\ mail' # <<>> /\ Len(mail') \in DOMAIN mail' /\ Len(mail'[Len(mail')]) \in Nat \ {0}
         /\ mail'[Len(mail')][Len(mail'[Len(mail')])] = n
    BY <2>1, <2>2, <2>3, <2>6
  <2>12. \A i \in DOMAIN mail : \/ i \in DOMAIN mail' /\ mail'[i] = mail[i]
                                \/ i = L /\ i \in DOMAIN mail' /\ mail'[i] = longer
    BY <2>1, <2>6, <2>8
  <2> QED BY <1>0, <1>9, <2>0, <2>6, <2>9, <2>10, <2>11, <2>12
<1> QED BY <1>7, <1>8, <1>9

\* A new trade or candle, in a message of its own or the last one.
LEMMA MakeKeepsItems ==
  ASSUME ItemsInv, channel # "ORDER_BOOK", NEW s \in ItemStreams, NEW joined \in BOOLEAN, Make(s, joined)
  PROVE  ItemsInv'
<1>0. PICK n : n = Len(items) + 1
  OBVIOUS
<1>1. /\ UNCHANGED <<kind, channel, calls, on, pairs, asked, filed, told>>
      /\ items' = Append(items, s)
      /\ due' = (IF joined /\ kind = "digifinex" THEN due \ ToSet(Last(mail)) ELSE due)
                \cup (IF s \in asked THEN {n} ELSE {})
      /\ joined => mail # <<>>
  BY <1>0 DEF Make, bookVars
<1>2. items \in Seq(ItemStreams) /\ mail \in Seq(Seq(Nat)) /\ n \in Nat \ {0}
  BY <1>0 DEF ItemsInv, MailOK
<1>3. /\ DOMAIN items' = 1 .. n /\ items'[n] = s /\ items' \in Seq(ItemStreams)
      /\ \A k \in DOMAIN items : k \in DOMAIN items' /\ items'[k] = items[k] /\ k < n /\ k \in Nat
  BY <1>0, <1>1, <1>2
<1>4. /\ mail' \in Seq(Seq(Nat))
      /\ \A i \in DOMAIN mail' : IsBatch(mail[i])'
      /\ \A i \in DOMAIN mail' : \A k \in DOMAIN mail'[i] :
           \/ i = Len(mail') /\ mail'[i][k] = n
           \/ i \in DOMAIN mail /\ k \in DOMAIN mail[i] /\ mail'[i][k] = mail[i][k]
      /\ s \in on => /\ mail' # <<>> /\ Len(mail') \in DOMAIN mail' /\ Len(mail'[Len(mail')]) \in Nat \ {0}
                     /\ mail'[Len(mail')][Len(mail'[Len(mail')])] = n
      /\ \A i \in DOMAIN mail : \/ i \in DOMAIN mail' /\ mail'[i] = mail[i]
                                \/ i = Len(mail) /\ joined /\ i \in DOMAIN mail' /\ mail'[i] = Append(mail[i], n)
  BY <1>0, MadeComesLast
<1>5. \A i \in DOMAIN mail : \A k \in DOMAIN mail[i] : mail[i][k] \in DOMAIN items /\ mail[i][k] < n
  BY <1>3 DEF ItemsInv, MailOK, IsBatch
<1>6. \A k \in DOMAIN items : Said(k)' = Said(k) /\ CallFor(k)' = CallFor(k)
  BY <1>1, <1>3, ValuesStay
<1>7. SubscriptionsOK'
  BY <1>1 DEF ItemsInv, SubscriptionsOK, Supported
<1>8. MailOK'
  <2>1. ItemStreams' = ItemStreams
    BY <1>1 DEF ItemStreams, get_channel, HasService
  <2>2. ASSUME NEW i \in DOMAIN mail', NEW j \in DOMAIN mail', i < j,
               NEW k \in DOMAIN mail'[i], NEW l \in DOMAIN mail'[j]
        PROVE  mail'[i][k] < mail'[j][l]
    <3>1. i # Len(mail')
      BY <1>4, <2>2
    <3>2. i \in DOMAIN mail /\ k \in DOMAIN mail[i] /\ mail'[i][k] = mail[i][k]
      BY <1>4, <3>1
    <3>3. CASE mail'[j][l] = n
      BY <1>5, <3>2, <3>3
    <3>4. CASE j \in DOMAIN mail /\ l \in DOMAIN mail[j] /\ mail'[j][l] = mail[j][l]
      BY <2>2, <3>2, <3>4 DEF ItemsInv, MailOK
    <3> QED BY <1>4, <3>3, <3>4
  <2>3. channel' # "ORDER_BOOK"
    BY <1>1
  <2>4. items' \in Seq(ItemStreams')
    BY <1>3, <2>1
  <2> QED BY <1>4, <2>2, <2>3, <2>4 DEF MailOK
<1>9. CallsOK'
  <2>1. ASSUME NEW i \in DOMAIN calls
        PROVE  /\ CallNumber(calls[i])' = CallNumber(calls[i])
               /\ CallNumber(calls[i])' \in DOMAIN items'
               /\ (calls[i] = CallFor(CallNumber(calls[i])))'
               /\ items'[CallNumber(calls[i])'].pair \in pairs'
               /\ CallNumber(calls[i]) < n
    <3>1. PICK m : m = CallNumber(calls[i])
      OBVIOUS
    <3>2. CallNumber(calls[i])' = m
      BY <1>1, <3>1 DEF CallNumber, Number, ValueOf
    <3>3. m \in DOMAIN items /\ calls[i] = CallFor(m) /\ items[m].pair \in pairs
      BY <3>1 DEF CallsOK, ItemsInv
    <3>4. CallFor(m)' = CallFor(m)
      BY <1>6, <3>3
    <3>5. CallFor(CallNumber(calls[i]))' = CallFor(m)'
      BY <3>2
    <3> QED BY <1>1, <1>3, <3>1, <3>2, <3>3, <3>4, <3>5
  <2>2. \A i, j \in DOMAIN calls : i < j => CallNumber(calls[i])' < CallNumber(calls[j])'
    BY <2>1 DEF CallsOK, ItemsInv
  <2>3. ASSUME NEW i \in DOMAIN calls, NEW j \in DOMAIN mail', NEW k \in DOMAIN mail'[j]
        PROVE  CallNumber(calls[i])' < mail'[j][k]
    <3>1. CASE mail'[j][k] = n
      BY <2>1, <3>1
    <3>2. CASE j \in DOMAIN mail /\ k \in DOMAIN mail[j] /\ mail'[j][k] = mail[j][k]
      BY <2>1, <3>2 DEF CallsOK, ItemsInv
    <3> QED BY <1>4, <3>1, <3>2
  <2>4. calls' = calls /\ calls \in Seq({calls[i] : i \in DOMAIN calls})
    BY <1>1 DEF CallsOK, ItemsInv
  <2>5. (calls \in Seq({calls[i] : i \in DOMAIN calls}))'
    BY <2>4
  <2> QED BY <2>1, <2>2, <2>3, <2>4, <2>5 DEF CallsOK
<1>10. ToldOK'
  <2>1. ASSUME NEW i \in DOMAIN told
        PROVE  /\ Number(told[i].value)' = Number(told[i].value)
               /\ Number(told[i].value)' \in DOMAIN items'
               /\ Number(told[i].value) < n
               /\ (told[i] = Said(Number(told[i].value)))'
    <3>1. PICK m : m = Number(told[i].value)
      OBVIOUS
    <3>2. Number(told[i].value)' = m
      BY <1>1, <3>1 DEF Number
    <3>3. m \in DOMAIN items /\ told[i] = Said(m)
      BY <3>1 DEF ToldOK, ItemsInv
    <3>4. Said(Number(told[i].value))' = Said(m)' /\ Said(m)' = Said(m)
      BY <1>6, <3>2, <3>3
    <3> QED BY <1>1, <1>3, <3>1, <3>2, <3>3, <3>4
  <2>2. told' \in Seq([pair : Pairs, interval : Intervals \cup {""}, value : {Said(m).value : m \in DOMAIN items}])'
    <3> DEFINE V == {Said(m).value : m \in DOMAIN items}
               W == {Said(m)'.value : m \in DOMAIN items'}
    <3>1. V \subseteq W
      BY <1>3, <1>6
    <3>2. told \in Seq([pair : Pairs, interval : Intervals \cup {""}, value : V])
      BY DEF ToldOK, ItemsInv
    <3> HIDE DEF V, W
    <3>3. [pair : Pairs, interval : Intervals \cup {""}, value : V]
            \subseteq [pair : Pairs, interval : Intervals \cup {""}, value : W]
      BY <3>1
    <3>4. told \in Seq([pair : Pairs, interval : Intervals \cup {""}, value : W])
      BY <3>2, <3>3, SeqMonotonic
    <3> QED BY <1>1, <3>4 DEF W
  <2>3. \A i, j \in DOMAIN told : i < j => Number(told[i].value)' < Number(told[j].value)'
    BY <2>1 DEF ToldOK, ItemsInv
  <2>4. \A i \in DOMAIN told, j \in DOMAIN calls : Number(told[i].value)' < CallNumber(calls[j])'
    <3>1. \A j \in DOMAIN calls : CallNumber(calls[j])' = CallNumber(calls[j])
      BY <1>1 DEF CallNumber, Number, ValueOf
    <3> QED BY <2>1, <3>1 DEF ToldOK, ItemsInv
  <2>5. ASSUME NEW i \in DOMAIN told, NEW j \in DOMAIN mail', NEW k \in DOMAIN mail'[j]
        PROVE  Number(told[i].value)' < mail'[j][k]
    <3>1. CASE mail'[j][k] = n
      BY <2>1, <3>1
    <3>2. CASE j \in DOMAIN mail /\ k \in DOMAIN mail[j] /\ mail'[j][k] = mail[j][k]
      BY <2>1, <3>2 DEF ToldOK, ItemsInv
    <3> QED BY <1>4, <3>1, <3>2
  <2>6. told' = told /\ calls' = calls
    BY <1>1
  <2> QED BY <2>1, <2>2, <2>3, <2>4, <2>5, <2>6 DEF ToldOK
<1>11. DueOK'
  <2> SUFFICES ASSUME NEW m \in due'
               PROVE  \/ \E i \in DOMAIN told : Number(told[i].value)' = m
                      \/ \E i \in DOMAIN calls : CallNumber(calls[i])' = m
                      \/ \E i \in DOMAIN mail' : \E k \in DOMAIN Read(mail[i])' : Read(mail[i])'[k] = m
    BY <1>1 DEF DueOK
  <2>1. CASE m = n /\ s \in asked
    <3>1. s \in on
      BY <2>1 DEF ItemsInv, SubscriptionsOK
    <3>6. PICK L, b : L = Len(mail') /\ b = mail'[L]
      OBVIOUS
    <3>2. L \in DOMAIN mail' /\ Len(b) \in Nat \ {0} /\ b[Len(b)] = n /\ b \in Seq(Nat)
      BY <1>4, <3>1, <3>6
    <3>3. Read(b)' = IF kind = "digifinex" THEN <<b[Len(b)]>> ELSE b
      BY <1>1 DEF Read
    <3>4. \E k \in DOMAIN Read(b)' : Read(b)'[k] = n
      BY <3>2, <3>3
    <3>5. Read(mail[L])' = Read(b)'
      BY <3>6
    <3> QED BY <2>1, <3>2, <3>4, <3>5
  <2>2. CASE m \in due /\ ~ (joined /\ kind = "digifinex" /\ m \in ToSet(Last(mail)))
    <3>1. CASE \E i \in DOMAIN told : Number(told[i].value) = m
      BY <1>1, <3>1 DEF Number
    <3>2. CASE \E i \in DOMAIN calls : CallNumber(calls[i]) = m
      BY <1>1, <3>2 DEF CallNumber, Number, ValueOf
    <3>3. CASE \E i \in DOMAIN mail : \E k \in DOMAIN Read(mail[i]) : Read(mail[i])[k] = m
      <4>1. PICK i \in DOMAIN mail : \E k \in DOMAIN Read(mail[i]) : Read(mail[i])[k] = m
        BY <3>3
      <4>2. PICK k \in DOMAIN Read(mail[i]) : Read(mail[i])[k] = m
        BY <4>1
      <4>3. mail[i] \in Seq(Nat) /\ Len(mail[i]) \in DOMAIN mail[i] /\ Len(mail[i]) \in Nat
        BY DEF ItemsInv, MailOK, IsBatch
      <4>4. CASE mail'[i] = mail[i] /\ i \in DOMAIN mail'
        <5>1. Read(mail[i])' = Read(mail[i])
          BY <1>1, <4>4 DEF Read
        <5> QED BY <4>2, <4>4, <5>1
      <4>5. CASE i = Len(mail) /\ joined /\ i \in DOMAIN mail' /\ mail'[i] = Append(mail[i], n)
        <5>1. CASE kind = "digifinex"
          <6>1. m = mail[i][Len(mail[i])]
            BY <4>2, <5>1 DEF Read
          <6>2. Last(mail) = mail[i]
            BY <4>5 DEF Last
          <6>3. m \in ToSet(Last(mail))
            BY <4>3, <6>1, <6>2 DEF ToSet
          <6> QED BY <2>2, <4>5, <5>1, <6>3
        <5>2. CASE kind # "digifinex"
          <6>1. Read(mail[i]) = mail[i] /\ Read(mail[i])' = mail'[i]
            BY <1>1, <5>2 DEF Read
          <6>2. k \in DOMAIN mail'[i] /\ mail'[i][k] = mail[i][k]
            <7>1. k \in DOMAIN mail[i]
              BY <4>2, <6>1
            <7> QED BY <1>2, <4>3, <4>5, <7>1, AppendMembers
          <6> QED BY <4>2, <4>5, <6>1, <6>2
        <5> QED BY <5>1, <5>2
      <4> QED BY <1>4, <4>4, <4>5
    <3> QED BY <2>2, <3>1, <3>2, <3>3 DEF ItemsInv, DueOK
  <2> QED BY <1>1, <2>1, <2>2
<1>12. FiledOK'
  <2>1. Separator' = Separator
    BY <1>1, Zenon DEF Separator
  <2> QED BY <1>1, <2>1 DEF ItemsInv, FiledOK, Named, Name, Key
<1> QED BY <1>7, <1>8, <1>9, <1>10, <1>11, <1>12 DEF ItemsInv

-----------------------------------------------------------------------------
(***************************************************************************)
(* on_message takes a message with trades or a candle, and makes a call.   *)
(***************************************************************************)
\* What is read of a message is part of it, in its order.
LEMMA ReadIsOfTheBatch ==
  ASSUME MailOK, NEW batch, IsBatch(batch)
  PROVE  /\ Read(batch) \in Seq(Nat)
         /\ \A k \in DOMAIN Read(batch) :
              /\ Read(batch)[k] \in Nat /\ Read(batch)[k] \in DOMAIN items
              /\ items[Read(batch)[k]].pair \in pairs
              /\ \E l \in DOMAIN batch : Read(batch)[k] = batch[l]
         /\ \A k, l \in DOMAIN Read(batch) : k < l => Read(batch)[k] < Read(batch)[l]
<1> DEFINE L == Len(batch)
<1>1. batch \in Seq(Nat) /\ L \in DOMAIN batch /\ DOMAIN batch \subseteq Nat
  BY DEF IsBatch
<1>2. /\ \A k \in DOMAIN batch : /\ batch[k] \in Nat /\ batch[k] \in DOMAIN items
                                 /\ items[batch[k]].pair \in pairs
      /\ \A k, l \in DOMAIN batch : k < l => batch[k] < batch[l]
  BY <1>1 DEF IsBatch
<1>3. CASE kind = "digifinex"
  <2>1. Read(batch) = <<batch[L]>>
    BY <1>3 DEF Read
  <2> HIDE DEF L
  <2>2. DOMAIN Read(batch) = {1} /\ Read(batch)[1] = batch[L] /\ Read(batch) \in Seq(Nat)
    BY <1>1, <1>2, <2>1
  <2> QED BY <1>1, <1>2, <2>2
<1>4. CASE kind # "digifinex"
  <2>1. Read(batch) = batch
    BY <1>4 DEF Read
  <2> QED BY <1>1, <1>2, <2>1
<1> QED BY <1>3, <1>4

\* on_message turns the first message into calls.
LEMMA TakeItemsKeepsItems ==
  ASSUME ItemsInv, TakeItems
  PROVE  ItemsInv'
<1>1. /\ UNCHANGED <<kind, channel, on, pairs, asked, items, filed, told, due>>
      /\ calls = <<>> /\ mail # <<>> /\ mail' = Tail(mail)
      /\ calls' = Calls(IF channel = "TRADE" \/ HasService THEN TradeJson(Head(mail))
                        ELSE OhlcvJson(Head(mail)[1]))
  BY DEF TakeItems, bookVars
<1>2. mail \in Seq(Seq(Nat)) /\ channel \in {"TRADE", "OHLCV"}
  BY <1>1 DEF ItemsInv, MailOK, SubscriptionsOK, Channels
<1>3. /\ Head(mail) = mail[1] /\ 1 \in DOMAIN mail /\ mail' \in Seq(Seq(Nat))
      /\ \A i \in DOMAIN mail' : i \in Nat /\ i + 1 \in DOMAIN mail /\ mail'[i] = mail[i + 1]
      /\ Len(mail') = Len(mail) - 1
  BY <1>1, <1>2, TailMembers
<1>4. PICK batch, read : batch = mail[1] /\ read = Read(batch)
  OBVIOUS
<1>5. IsBatch(batch)
  BY <1>3, <1>4 DEF ItemsInv, MailOK
<1>6. /\ read \in Seq(Nat)
      /\ \A k \in DOMAIN read : /\ read[k] \in Nat /\ read[k] \in DOMAIN items /\ items[read[k]].pair \in pairs
                                /\ \E l \in DOMAIN batch : read[k] = batch[l]
      /\ \A k, l \in DOMAIN read : k < l => read[k] < read[l]
  BY <1>4, <1>5, ReadIsOfTheBatch DEF ItemsInv
<1>7. calls' = CallsFor(batch)
  <2>1. CASE channel = "TRADE" \/ HasService
    BY <1>1, <1>3, <1>4, <1>5, <2>1, TradesAreRead DEF ItemsInv
  <2>2. CASE channel = "OHLCV" /\ ~ HasService
    BY <1>1, <1>3, <1>4, <1>5, <2>2, CandleIsRead DEF ItemsInv
  <2> QED BY <1>2, <2>1, <2>2
<1>8. ASSUME NEW k \in DOMAIN read
      PROVE  calls'[k] = CallFor(read[k]) /\ CallNumber(CallFor(read[k])) = read[k]
  <2>1. calls'[k] = CallFor(read[k])
    BY <1>4, <1>7 DEF CallsFor
  <2> QED BY <1>6, <2>1, NumberOfAValue DEF CallNumber
<1>9. DOMAIN calls' = DOMAIN read
  BY <1>4, <1>7 DEF CallsFor
<1>18. calls' \in Seq({calls'[i] : i \in DOMAIN calls'})
  BY <1>4, <1>6, <1>7, MembersOfItself DEF CallsFor
<1>10. ASSUME NEW k \in DOMAIN calls'
       PROVE  /\ CallNumber(calls[k])' = read[k] /\ k \in DOMAIN read
              /\ (calls[k] = CallFor(CallNumber(calls[k])))'
  <2>1. PICK c, m : c = calls'[k] /\ m = read[k]
    OBVIOUS
  <2>2. c = CallFor(m) /\ CallNumber(c) = m /\ k \in DOMAIN read
    BY <1>8, <1>9, <2>1
  <2>3. CallNumber(c)' = CallNumber(c)
    BY <1>1 DEF CallNumber, Number, ValueOf
  <2>4. CallNumber(calls[k])' = m
    BY <2>1, <2>2, <2>3
  <2>5. CallFor(m)' = CallFor(m)
    BY <1>1, ValuesStay
  <2>6. CallFor(CallNumber(calls[k]))' = CallFor(m)'
    BY <2>4
  <2> QED BY <2>1, <2>2, <2>4, <2>5, <2>6
<1>11. SubscriptionsOK'
  BY <1>1 DEF ItemsInv, SubscriptionsOK, Supported
<1>12. MailOK'
  <2>1. Batched' = Batched /\ ItemStreams' = ItemStreams
    BY <1>1 DEF Batched, ItemStreams, get_channel, HasService
  <2>2. ASSUME NEW i \in DOMAIN mail' PROVE IsBatch(mail[i])'
    <3>1. PICK b : b = mail[i + 1]
      OBVIOUS
    <3>2. IsBatch(b) /\ mail'[i] = b
      BY <1>3, <3>1 DEF ItemsInv, MailOK
    <3>3. IsBatch(b)'
      BY <1>1, <2>1, <3>2 DEF IsBatch
    <3> QED BY <3>2, <3>3
  <2>3. ASSUME NEW i \in DOMAIN mail', NEW j \in DOMAIN mail', i < j,
               NEW k \in DOMAIN mail'[i], NEW l \in DOMAIN mail'[j]
        PROVE  mail'[i][k] < mail'[j][l]
    <3>1. i + 1 \in DOMAIN mail /\ j + 1 \in DOMAIN mail /\ i + 1 < j + 1
          /\ mail'[i] = mail[i + 1] /\ mail'[j] = mail[j + 1]
      BY <1>3, <2>3
    <3> QED BY <3>1 DEF ItemsInv, MailOK
  <2>4. items' \in Seq(ItemStreams)' /\ channel' # "ORDER_BOOK"
    BY <1>1, <1>2, <2>1 DEF ItemsInv, MailOK
  <2> QED BY <1>3, <2>2, <2>3, <2>4 DEF MailOK
<1>13. CallsOK'
  <2>1. ASSUME NEW i \in DOMAIN calls', NEW j \in DOMAIN mail', NEW k \in DOMAIN mail'[j]
        PROVE  CallNumber(calls[i])' < mail'[j][k]
    <3>1. PICK l \in DOMAIN batch : read[i] = batch[l]
      BY <1>6, <1>10
    <3>2. j + 1 \in DOMAIN mail /\ 1 < j + 1 /\ mail'[j] = mail[j + 1]
      BY <1>3
    <3>3. batch[l] < mail[j + 1][k]
      BY <1>3, <1>4, <3>2 DEF ItemsInv, MailOK
    <3> QED BY <1>10, <3>1, <3>2, <3>3
  <2>2. \A i, j \in DOMAIN calls' : i < j => CallNumber(calls[i])' < CallNumber(calls[j])'
    BY <1>6, <1>10
  <2>3. \A i \in DOMAIN calls' : /\ CallNumber(calls[i])' \in DOMAIN items'
                                 /\ items'[CallNumber(calls[i])'].pair \in pairs'
    BY <1>1, <1>6, <1>10
  <2>4. (calls \in Seq({calls[i] : i \in DOMAIN calls}))'
    BY <1>18
  <2> QED BY <1>10, <2>1, <2>2, <2>3, <2>4 DEF CallsOK
<1>14. ASSUME NEW i \in DOMAIN told, NEW l \in DOMAIN mail, NEW k \in DOMAIN mail[l]
       PROVE  Number(told[i].value)' < mail[l][k]
  <2>1. Number(told[i].value)' = Number(told[i].value)
    BY <1>1 DEF Number
  <2> QED BY <2>1 DEF ItemsInv, ToldOK
<1>15. ToldOK'
  <2>1. \A i \in DOMAIN told, j \in DOMAIN mail' : \A k \in DOMAIN mail'[j] : Number(told[i].value)' < mail'[j][k]
    BY <1>3, <1>14
  <2>2. \A i \in DOMAIN told, j \in DOMAIN calls' : Number(told[i].value)' < CallNumber(calls[j])'
    <3> SUFFICES ASSUME NEW i \in DOMAIN told, NEW j \in DOMAIN calls'
                 PROVE  Number(told[i].value)' < CallNumber(calls[j])'
      OBVIOUS
    <3>1. PICK l \in DOMAIN batch : read[j] = batch[l]
      BY <1>6, <1>10
    <3>2. Number(told[i].value)' < mail[1][l]
      BY <1>3, <1>4, <1>14
    <3> QED BY <1>4, <1>10, <3>1, <3>2
  <2>3. told' = told
    BY <1>1
  <2>4. /\ told \in Seq([pair : Pairs, interval : Intervals \cup {""}, value : {Said(n).value : n \in DOMAIN items}])'
        /\ \A i \in DOMAIN told : /\ Number(told[i].value)' \in DOMAIN items'
                                  /\ (told[i] = Said(Number(told[i].value)))'
        /\ \A i, j \in DOMAIN told : i < j => Number(told[i].value)' < Number(told[j].value)'
    BY <1>1, ToldStays DEF ItemsInv
  <2> QED BY <2>1, <2>2, <2>3, <2>4 DEF ToldOK
<1>16. DueOK'
  <2> SUFFICES ASSUME NEW m \in due
               PROVE  \/ \E i \in DOMAIN told : Number(told[i].value)' = m
                      \/ \E i \in DOMAIN calls' : CallNumber(calls[i])' = m
                      \/ \E i \in DOMAIN mail' : \E k \in DOMAIN Read(mail[i])' : Read(mail[i])'[k] = m
    BY <1>1, <1>2 DEF DueOK
  <2>1. CASE \E i \in DOMAIN told : Number(told[i].value) = m
    BY <1>1, <2>1 DEF Number
  <2>2. CASE \E i \in DOMAIN mail : \E k \in DOMAIN Read(mail[i]) : Read(mail[i])[k] = m
    <3>0. PICK i \in DOMAIN mail : \E k \in DOMAIN Read(mail[i]) : Read(mail[i])[k] = m
      BY <2>2
    <3>1. PICK b : b = mail[i] /\ \E k \in DOMAIN Read(b) : Read(b)[k] = m
      BY <3>0
    <3>2. CASE i = 1
      BY <1>4, <1>8, <1>9, <1>10, <3>1, <3>2
    <3>3. CASE i # 1
      <4>1. i - 1 \in DOMAIN mail' /\ mail'[i - 1] = b
        BY <1>2, <1>3, <3>1, <3>3
      <4>2. Read(b)' = Read(b)
        BY <1>1 DEF Read
      <4>3. Read(mail[i - 1])' = Read(b)'
        BY <4>1
      <4> QED BY <3>1, <4>1, <4>2, <4>3
    <3> QED BY <3>2, <3>3
  <2> QED BY <1>1, <2>1, <2>2 DEF ItemsInv, DueOK
<1>17. FiledOK'
  <2>1. Separator' = Separator
    BY <1>1, Zenon DEF Separator
  <2> QED BY <1>1, <2>1 DEF ItemsInv, FiledOK, Named, Name, Key
<1> QED BY <1>11, <1>12, <1>13, <1>15, <1>16, <1>17 DEF ItemsInv

\* The call that is due next, and the one handler's pair that goes with its name.
LEMMA NextCall ==
  ASSUME ItemsInv, channel # "ORDER_BOOK", calls # <<>>
  PROVE  LET c == Head(calls)
             n == CallNumber(c)
         IN  /\ n \in DOMAIN items /\ n \in Nat /\ 1 \in DOMAIN calls /\ c = calls[1]
             /\ c.name = Named(items[n].pair) /\ ValueOf(c) = Said(n).value
             /\ (IF c.call = "update_ohlcv" THEN c.interval ELSE "") = items[n].interval
             /\ items[n].pair \in pairs /\ items[n].pair \in Pairs
             /\ items[n].interval \in Intervals \cup {""}
             /\ {p \in pairs : Named(p) = c.name} = {items[n].pair}
             /\ Said(n) = [pair |-> items[n].pair, interval |-> items[n].interval, value |-> Said(n).value]
<1> DEFINE c == Head(calls)
<1>0. PICK n : n = CallNumber(c)
  OBVIOUS
<1>1. 1 \in DOMAIN calls /\ c = calls[1]
  <2>1. calls \in Seq({calls[i] : i \in DOMAIN calls})
    BY DEF ItemsInv, CallsOK
  <2> QED BY <2>1, TailMembers
<1>2. n \in DOMAIN items /\ c = CallFor(n) /\ items[n].pair \in pairs
  BY <1>0, <1>1 DEF ItemsInv, CallsOK
<1>3. items \in Seq(ItemStreams) /\ n \in Nat
  BY <1>2 DEF ItemsInv, MailOK
<1>4. items[n] \in ItemStreams
  BY <1>2, <1>3, ElementOfSeq
<1>5. items[n].pair \in Pairs /\ items[n].interval \in Intervals \cup {""}
  <2>1. items[n].interval \in IF HasService \/ channel # "OHLCV" THEN {""} ELSE Intervals
    BY <1>4 DEF ItemStreams
  <2> QED BY <1>4, <2>1 DEF ItemStreams
<1>6. ValueOf(c) = Said(n).value
  BY <1>2, <1>3, NumberOfAValue
<1>7. Said(n) = [pair |-> items[n].pair, interval |-> items[n].interval, value |-> Said(n).value]
  BY DEF Said
<1>8. c.name = Named(items[n].pair) /\ (IF c.call = "update_ohlcv" THEN c.interval ELSE "") = items[n].interval
  <2>1. CASE items[n].interval = ""
    <3>1. c = [call |-> "update_trade", name |-> Named(items[n].pair), trade |-> Said(n).value]
      BY <1>2, <2>1 DEF CallFor
    <3> HIDE DEF c
    <3> QED BY <2>1, <3>1
  <2>2. CASE items[n].interval # ""
    <3>1. c = [call |-> "update_ohlcv", name |-> Named(items[n].pair), interval |-> items[n].interval,
               candle |-> Said(n).value]
      BY <1>2, <2>2 DEF CallFor
    <3> HIDE DEF c
    <3> QED BY <2>2, <3>1
  <2> QED BY <2>1, <2>2
<1>9. {p \in pairs : Named(p) = c.name} = {items[n].pair}
  <2>1. pairs \subseteq Pairs
    BY DEF ItemsInv, SubscriptionsOK
  <2>2. \A p \in pairs : Named(p) = c.name => p = items[n].pair
    BY <1>5, <1>8, <2>1, NamesTellPairs
  <2> QED BY <1>2, <1>8, <2>2
<1> QED BY <1>0, <1>1, <1>2, <1>3, <1>5, <1>6, <1>7, <1>8, <1>9

\* update_trade and update_ohlcv file the value and tell the handlers.
LEMMA UpdateItemKeepsItems ==
  ASSUME ItemsInv, UpdateItem
  PROVE  ItemsInv'
<1>0. PICK c, n, s, k0 : /\ c = Head(calls) /\ n = CallNumber(c) /\ s = items[n]
                         /\ k0 = Key(Named(items[n].pair), items[n].interval)
  OBVIOUS
<1>1. /\ UNCHANGED <<kind, channel, on, pairs, asked, items, mail, due>>
      /\ channel # "ORDER_BOOK" /\ calls # <<>>
  BY DEF UpdateItem, bookVars
<1>2. /\ n \in DOMAIN items /\ n \in Nat /\ 1 \in DOMAIN calls /\ c = calls[1]
      /\ c.name = Named(s.pair) /\ ValueOf(c) = Said(n).value
      /\ (IF c.call = "update_ohlcv" THEN c.interval ELSE "") = s.interval
      /\ s.pair \in pairs /\ s.pair \in Pairs /\ s.interval \in Intervals \cup {""}
      /\ {p \in pairs : Named(p) = c.name} = {s.pair}
      /\ Said(n) = [pair |-> s.pair, interval |-> s.interval, value |-> Said(n).value]
  BY <1>0, <1>1, NextCall
<1>3. /\ filed' = [k \in DOMAIN filed \cup {k0} |-> IF k = k0 THEN Said(n).value ELSE filed[k]]
      /\ calls' = Tail(calls)
      /\ told' = Append(told, Said(n))
  <2> DEFINE interval == IF c.call = "update_ohlcv" THEN c.interval ELSE ""
             value == IF c.call = "update_ohlcv" THEN c.candle ELSE c.trade
             whose == {p \in pairs : Named(p) = c.name}
  <2>1. /\ filed' = [k \in DOMAIN filed \cup {Key(c.name, interval)} |->
                       IF k = Key(c.name, interval) THEN value ELSE filed[k]]
        /\ whose # {} => /\ calls' = Tail(calls)
                         /\ told' = Append(told, [pair |-> CHOOSE p \in whose : TRUE,
                                                  interval |-> interval, value |-> value])
    BY <1>0 DEF UpdateItem
  <2>2. value = Said(n).value /\ interval = s.interval /\ whose = {s.pair} /\ Key(c.name, interval) = k0
    BY <1>0, <1>2 DEF ValueOf
  <2>3. (CHOOSE p \in whose : TRUE) = s.pair
    BY <2>2
  <2> HIDE DEF interval, value, whose
  <2> QED BY <1>2, <2>1, <2>2, <2>3
<1>4. PICK said : said = Said(n)
  OBVIOUS
<1>5. said.pair = s.pair /\ said.interval = s.interval /\ Number(said.value) = n
  <2>1. Number(Said(n).value) = n
    <3>1. n \in Nat
      BY <1>2, Zenon
    <3>2. n \in Int
      BY <3>1
    <3> QED BY <3>2, NumberOfAValue
  <2>2. Said(n).pair = s.pair /\ Said(n).interval = s.interval
    BY <1>0 DEF Said
  <2> QED BY <1>4, <2>1, <2>2
<1>6. /\ Number(said.value)' = n
      /\ \A i \in DOMAIN calls : CallNumber(calls[i]) \in DOMAIN items /\ calls[i] = CallFor(CallNumber(calls[i]))
                                 /\ items[CallNumber(calls[i])].pair \in pairs
  <2>1. Number(said.value)' = n
    BY <1>1, <1>5 DEF Number
  <2> QED BY <1>1, <2>1 DEF CallsOK, ItemsInv
<1>7. \A m : Said(m)' = Said(m) /\ CallFor(m)' = CallFor(m)
  BY <1>1, ValuesStay
<1> DEFINE V == [pair : Pairs, interval : Intervals \cup {""}, value : {Said(m).value : m \in DOMAIN items}]
<1>8. told \in Seq(V) /\ said \in V
  <2>1. Said(n).value \in {Said(m).value : m \in DOMAIN items}
    BY <1>2
  <2>2. said \in V
    <3>1. PICK value : value = Said(n).value
      OBVIOUS
    <3>2. said = [pair |-> s.pair, interval |-> s.interval, value |-> value]
      BY <1>2, <1>4, <3>1, Zenon
    <3> QED BY <1>2, <2>1, <3>1, <3>2
  <2> QED BY <2>2 DEF ItemsInv, ToldOK
<1> HIDE DEF V
<1>9. PICK L : L = Len(told) + 1
  OBVIOUS
<1>10. /\ told' \in Seq(V) /\ DOMAIN told' = DOMAIN told \cup {L} /\ told'[L] = said
       /\ \A i \in DOMAIN told : i \in Nat /\ i < L /\ told'[i] = told[i]
       /\ L \in Nat
  BY <1>3, <1>4, <1>8, <1>9, AppendMembers
<1>11. /\ calls \in Seq({calls[i] : i \in DOMAIN calls})
       /\ \A i \in DOMAIN calls' : i \in Nat /\ i + 1 \in DOMAIN calls /\ calls'[i] = calls[i + 1]
       /\ \A i \in DOMAIN calls : i \in Nat /\ (i = 1 \/ i - 1 \in DOMAIN calls')
       /\ calls' \in Seq({calls'[i] : i \in DOMAIN calls'})
  <2>0. calls \in Seq({calls[i] : i \in DOMAIN calls}) /\ Len(calls) \in Nat
    BY <1>1 DEF ItemsInv, CallsOK
  <2>1. /\ \A i \in DOMAIN calls' : i \in Nat /\ i + 1 \in DOMAIN calls /\ calls'[i] = calls[i + 1]
        /\ Len(calls') = Len(calls) - 1 /\ calls' \in Seq({calls[i] : i \in DOMAIN calls})
    BY <1>1, <1>3, <2>0, TailMembers
  <2>2. calls' \in Seq({calls'[i] : i \in DOMAIN calls'})
    BY <2>1, MembersOfItself
  <2> QED BY <2>0, <2>1, <2>2
<1>12. ASSUME NEW i \in DOMAIN calls'
       PROVE  /\ CallNumber(calls[i])' = CallNumber(calls[i + 1])
              /\ i + 1 \in DOMAIN calls
              /\ (calls[i] = CallFor(CallNumber(calls[i])))'
              /\ n < CallNumber(calls[i + 1])
  <2>1. PICK d, m : d = calls[i + 1] /\ m = CallNumber(d)
    OBVIOUS
  <2>2. CallNumber(d)' = m /\ calls'[i] = d
    BY <1>1, <1>11, <2>1 DEF CallNumber, Number, ValueOf
  <2>3. CallNumber(calls[i])' = m
    BY <2>2
  <2>4. CallFor(CallNumber(calls[i]))' = CallFor(m)'
    BY <2>3
  <2>5. d = CallFor(m)
    BY <1>6, <1>11, <2>1
  <2>6. n < CallNumber(calls[i + 1])
    <3>1. i + 1 \in DOMAIN calls /\ 1 < i + 1
      <4>1. i + 1 \in DOMAIN calls /\ i \in Nat /\ i # 0
        BY <1>11
      <4> QED BY <4>1
    <3> QED BY <1>0, <1>1, <1>2, <3>1 DEF CallsOK, ItemsInv
  <2> QED BY <1>7, <1>11, <2>1, <2>2, <2>3, <2>4, <2>5, <2>6
<1>13. SubscriptionsOK'
  BY <1>1 DEF ItemsInv, SubscriptionsOK, Supported
<1>14. MailOK'
  <2>1. Batched' = Batched /\ ItemStreams' = ItemStreams
    BY <1>1 DEF Batched, ItemStreams, get_channel, HasService
  <2>2. ASSUME NEW i \in DOMAIN mail PROVE IsBatch(mail[i])'
    <3>1. IsBatch(mail[i])
      BY DEF MailOK, ItemsInv
    <3> QED BY <1>1, <2>1, <3>1 DEF IsBatch
  <2> QED BY <1>1, <2>1, <2>2 DEF MailOK, ItemsInv
<1>15. CallsOK'
  <2>1. \A i \in DOMAIN calls' : /\ CallNumber(calls[i])' \in DOMAIN items'
                                 /\ items'[CallNumber(calls[i])'].pair \in pairs'
    BY <1>1, <1>6, <1>12
  <2>2. ASSUME NEW i \in DOMAIN calls', NEW j \in DOMAIN calls', i < j
        PROVE  CallNumber(calls[i])' < CallNumber(calls[j])'
    <3>1. i + 1 < j + 1 /\ i + 1 \in DOMAIN calls /\ j + 1 \in DOMAIN calls
      BY <1>11, <2>2
    <3>2. CallNumber(calls[i + 1]) < CallNumber(calls[j + 1])
      BY <1>1, <3>1 DEF CallsOK, ItemsInv
    <3> QED BY <1>12, <3>2
  <2>3. \A i \in DOMAIN calls', j \in DOMAIN mail' : \A k \in DOMAIN mail'[j] : CallNumber(calls[i])' < mail'[j][k]
    BY <1>1, <1>12 DEF CallsOK, ItemsInv
  <2>4. (calls \in Seq({calls[i] : i \in DOMAIN calls}))'
    BY <1>11
  <2> QED BY <1>12, <2>1, <2>2, <2>3, <2>4 DEF CallsOK
<1>16. ASSUME NEW i \in DOMAIN told'
       PROVE  \/ i = L /\ Number(told[i].value)' = n
              \/ /\ i \in DOMAIN told /\ Number(told[i].value)' = Number(told[i].value)
                 /\ Number(told[i].value) < n
  <2>1. CASE i = L
    <3>1. told'[i] = said
      BY <1>10, <2>1
    <3>2. Number(told[i].value)' = Number(said.value)'
      BY <3>1
    <3> QED BY <1>6, <2>1, <3>2
  <2>2. CASE i \in DOMAIN told
    <3>1. PICK t : t = told[i]
      OBVIOUS
    <3>2. told'[i] = t
      BY <1>10, <2>2, <3>1
    <3>3. Number(told[i].value)' = Number(t.value)' /\ Number(t.value)' = Number(t.value)
      BY <1>1, <3>2 DEF Number
    <3>4. Number(told[i].value) < n
      BY <1>0, <1>1, <1>2, <2>2 DEF ToldOK, ItemsInv
    <3> QED BY <2>2, <3>1, <3>3, <3>4
  <2> QED BY <1>10, <2>1, <2>2
<1>17. ToldOK'
  <2>1. told' \in Seq([pair : Pairs, interval : Intervals \cup {""}, value : {Said(m).value : m \in DOMAIN items}])'
    BY <1>1, <1>7, <1>10 DEF V
  <2>2. ASSUME NEW i \in DOMAIN told'
        PROVE  /\ Number(told[i].value)' \in DOMAIN items'
               /\ (told[i] = Said(Number(told[i].value)))'
    <3>1. CASE i = L
      <4>1. Number(told[i].value)' = n
        BY <1>10, <1>16, <3>1
      <4>2. Said(Number(told[i].value))' = Said(n)'
        BY <4>1
      <4> QED BY <1>1, <1>2, <1>4, <1>7, <1>10, <3>1, <4>1, <4>2
    <3>2. CASE i \in DOMAIN told
      <4>1. PICK m : m = Number(told[i].value)
        OBVIOUS
      <4>2. Number(told[i].value)' = m
        BY <1>10, <1>16, <3>2, <4>1
      <4>3. Said(Number(told[i].value))' = Said(m)'
        BY <4>2
      <4>4. m \in DOMAIN items /\ told[i] = Said(m)
        BY <3>2, <4>1 DEF ToldOK, ItemsInv
      <4> QED BY <1>1, <1>7, <1>10, <3>2, <4>2, <4>3, <4>4
    <3> QED BY <1>10, <3>1, <3>2
  <2>3. ASSUME NEW i \in DOMAIN told', NEW j \in DOMAIN told', i < j
        PROVE  Number(told[i].value)' < Number(told[j].value)'
    <3>1. i # L
      BY <1>10, <2>3
    <3>2. CASE j = L
      BY <1>10, <1>16, <3>1, <3>2
    <3>3. CASE j # L
      <4>1. Number(told[i].value) < Number(told[j].value)
        BY <1>10, <2>3, <3>1, <3>3 DEF ToldOK, ItemsInv
      <4> QED BY <1>16, <3>1, <3>3, <4>1
    <3> QED BY <3>2, <3>3
  <2>4. ASSUME NEW i \in DOMAIN told', NEW j \in DOMAIN calls'
        PROVE  Number(told[i].value)' < CallNumber(calls[j])'
    <3>1. CASE i = L
      BY <1>10, <1>12, <1>16, <3>1
    <3>2. CASE i \in DOMAIN told
      <4>1. Number(told[i].value) < CallNumber(calls[j + 1])
        BY <1>1, <1>12, <3>2 DEF ToldOK, ItemsInv
      <4> QED BY <1>10, <1>12, <1>16, <3>2, <4>1
    <3> QED BY <1>10, <3>1, <3>2
  <2>5. ASSUME NEW i \in DOMAIN told', NEW j \in DOMAIN mail', NEW k \in DOMAIN mail'[j]
        PROVE  Number(told[i].value)' < mail'[j][k]
    <3>0. mail' = mail
      BY <1>1
    <3>1. CASE i = L
      <4>1. CallNumber(calls[1]) < mail[j][k]
        BY <1>1, <1>2, <3>0 DEF CallsOK, ItemsInv
      <4>2. Number(told[i].value)' = n
        BY <1>10, <1>16, <3>1
      <4>3. n < mail[j][k]
        BY <1>0, <1>2, <4>1
      <4> QED BY <3>0, <4>2, <4>3
    <3>2. CASE i \in DOMAIN told
      <4>1. Number(told[i].value) < mail[j][k]
        BY <3>0, <3>2 DEF ToldOK, ItemsInv
      <4> QED BY <1>10, <1>16, <3>0, <3>2, <4>1
    <3> QED BY <1>10, <3>1, <3>2
  <2> QED BY <2>1, <2>2, <2>3, <2>4, <2>5 DEF ToldOK
<1>18. DueOK'
  <2> SUFFICES ASSUME NEW m \in due
               PROVE  \/ \E i \in DOMAIN told' : Number(told[i].value)' = m
                      \/ \E i \in DOMAIN calls' : CallNumber(calls[i])' = m
                      \/ \E i \in DOMAIN mail : \E k \in DOMAIN Read(mail[i])' : Read(mail[i])'[k] = m
    BY <1>1 DEF DueOK
  <2>1. CASE \E i \in DOMAIN told : Number(told[i].value) = m
    <3>1. PICK i \in DOMAIN told : Number(told[i].value) = m
      BY <2>1
    <3> QED BY <1>10, <1>16, <3>1
  <2>2. CASE \E i \in DOMAIN calls : CallNumber(calls[i]) = m
    <3>1. PICK i \in DOMAIN calls : CallNumber(calls[i]) = m
      BY <2>2
    <3>2. CASE i = 1
      <4>1. m = n /\ L \in DOMAIN told'
        BY <1>0, <1>2, <1>10, <3>1, <3>2
      <4>2. Number(told[L].value)' = n
        BY <1>10, <1>16, <4>1
      <4> QED BY <4>1, <4>2
    <3>3. CASE i # 1
      <4>1. i - 1 \in DOMAIN calls' /\ i \in Nat
        BY <1>11, <3>1, <3>3
      <4>2. PICK j : j = i - 1
        OBVIOUS
      <4>3. j \in DOMAIN calls' /\ j + 1 = i
        BY <4>1, <4>2
      <4>4. CallNumber(calls[j])' = m
        BY <1>12, <3>1, <4>3
      <4> QED BY <4>3, <4>4
    <3> QED BY <3>2, <3>3
  <2>3. CASE \E i \in DOMAIN mail : \E k \in DOMAIN Read(mail[i]) : Read(mail[i])[k] = m
    BY <1>1, <2>3 DEF Read
  <2> QED BY <1>1, <2>1, <2>2, <2>3 DEF ItemsInv, DueOK
<1>19. FiledOK'
  <2>0. \A p : Named(p)' = Named(p)
    <3>1. Separator' = Separator
      BY <1>1, Zenon DEF Separator
    <3> QED BY <3>1 DEF Named, Name
  <2> DEFINE K(t) == Key(Named(t.pair), t.interval)
  <2>1. K(said) = k0
    BY <1>0, <1>5
  <2>2. /\ DOMAIN filed' = DOMAIN filed \cup {k0} /\ filed'[k0] = said.value
        /\ \A k \in DOMAIN filed : k # k0 => filed'[k] = filed[k]
    BY <1>3, <1>4
  <2> SUFFICES /\ \A i \in DOMAIN told' : K(told'[i]) \in DOMAIN filed'
               /\ \A k \in DOMAIN filed' : \E i \in DOMAIN told' :
                    /\ k = K(told'[i])
                    /\ filed'[k] = told'[i].value
                    /\ \A j \in DOMAIN told' : j > i => k # K(told'[j])
    BY <2>0 DEF FiledOK, Key
  <2>3. /\ \A i \in DOMAIN told : K(told[i]) \in DOMAIN filed
        /\ \A k \in DOMAIN filed : \E i \in DOMAIN told :
             /\ k = K(told[i])
             /\ filed[k] = told[i].value
             /\ \A j \in DOMAIN told : j > i => k # K(told[j])
    BY DEF FiledOK, ItemsInv
  <2> HIDE DEF K
  <2>4. \A i \in DOMAIN told' : K(told'[i]) \in DOMAIN filed'
    BY <1>10, <2>1, <2>2, <2>3
  <2>5. ASSUME NEW k \in DOMAIN filed'
        PROVE  \E i \in DOMAIN told' : /\ k = K(told'[i])
                                       /\ filed'[k] = told'[i].value
                                       /\ \A j \in DOMAIN told' : j > i => k # K(told'[j])
    <3>1. CASE k = k0
      <4>1. \A j \in DOMAIN told' : ~ (j > L)
        BY <1>10
      <4> QED BY <1>10, <2>1, <2>2, <3>1, <4>1
    <3>2. CASE k # k0
      <4>1. k \in DOMAIN filed /\ filed'[k] = filed[k]
        BY <2>2, <3>2
      <4>2. PICK i \in DOMAIN told : /\ k = K(told[i]) /\ filed[k] = told[i].value
                                     /\ \A j \in DOMAIN told : j > i => k # K(told[j])
        BY <2>3, <4>1
      <4>3. \A j \in DOMAIN told' : j > i => k # K(told'[j])
        BY <1>10, <2>1, <3>2, <4>2
      <4> QED BY <1>10, <4>1, <4>2, <4>3
    <3> QED BY <3>1, <3>2
  <2> QED BY <2>4, <2>5
<1> QED BY <1>13, <1>14, <1>15, <1>17, <1>18, <1>19 DEF ItemsInv

-----------------------------------------------------------------------------
(***************************************************************************)
(* All steps.                                                              *)
(***************************************************************************)
\* Only an order book that is looked at has messages, and calls.
LEMMA OnlyALookedAtBookHasCalls ==
  ASSUME BookIsLookedAt, TakeBookMessage \/ UpdateOrderBook \/ FinishMessage
  PROVE  channel = "ORDER_BOOK" /\ kind # "digifinex"
<1>1. ASSUME wire = <<>> PROVE ToSet(First(wire, 1)) = {}
  BY <1>1 DEF First, ToSet
<1>2. CASE TakeBookMessage
  BY <1>1, <1>2 DEF TakeBookMessage, BookIsLookedAt
<1>3. CASE UpdateOrderBook \/ FinishMessage
  BY <1>3 DEF UpdateOrderBook, FinishMessage, BookIsLookedAt
<1> QED BY <1>2, <1>3

\* Of a channel and a book, one is looked at.
LEMMA NextKeepsWhatIsLookedAt ==
  ASSUME BookIsLookedAt, [Next]_vars
  PROVE  BookIsLookedAt'
<1> USE DEF BookIsLookedAt
<1>1. CASE \E ps \in (SUBSET Pairs) \ {{}}, interval \in IntervalsOf :
             SubscribeItems(ps, interval) \/ UnsubscribeItems(ps, interval)
  BY <1>1 DEF SubscribeItems, UnsubscribeItems, Subscribe, Unsubscribe, bookVars
<1>2. CASE SubscribeUnsupported({BookPair})
  BY <1>2 DEF SubscribeUnsupported, bookVars
<1>3. CASE SubscribeBook
  BY <1>3 DEF SubscribeBook, Subscribe, subscribe, bookVars, BookKinds
<1>4. CASE UnsubscribeBook
  BY <1>4 DEF UnsubscribeBook, Unsubscribe, unsubscribe, bookVars
<1>5. CASE Reset
  BY <1>5 DEF Reset, reset
<1>6. CASE \E level \in Levels, volume \in Volumes : ChangeBook(level, volume)
  BY <1>6 DEF ChangeBook, Change
<1>7. CASE EmitChanges
  BY <1>7 DEF EmitChanges, Emit
<1>8. CASE \E p \in Pairs, interval \in IntervalsOf, joined \in BOOLEAN :
             channel # "ORDER_BOOK" /\ \E s \in Wanted({p}, interval) : Make(s, joined)
  BY <1>8 DEF Make, bookVars
<1>9. CASE TakeBookMessage \/ UpdateOrderBook \/ FinishMessage
  <2>1. channel = "ORDER_BOOK" /\ kind # "digifinex"
    BY <1>9, OnlyALookedAtBookHasCalls
  <2>2. channel' = channel /\ kind' = kind
    BY <1>9 DEF TakeBookMessage, Take, UpdateOrderBook, FinishMessage
  <2> QED BY <2>1, <2>2
<1>10. CASE SnapshotAnswer \/ SnapshotError
  BY <1>10 DEF SnapshotAnswer, SnapshotError, SnapshotArrives, SnapshotFails, exchangeVars
<1>11. CASE TakeItems \/ UpdateItem
  BY <1>11 DEF TakeItems, UpdateItem, bookVars
<1>12. CASE UNCHANGED vars
  BY <1>12 DEF vars, bookVars
<1> QED BY <1>1, <1>2, <1>3, <1>4, <1>5, <1>6, <1>7, <1>8, <1>9, <1>10, <1>11, <1>12 DEF Next, on_message

\* Every step keeps the invariant of trades and candles.
LEMMA NextKeepsItems ==
  ASSUME ItemsInv, BookIsLookedAt, [Next]_vars
  PROVE  ItemsInv'
<1>1. ASSUME NEW ps \in (SUBSET Pairs) \ {{}}, NEW interval \in IntervalsOf,
             SubscribeItems(ps, interval) \/ UnsubscribeItems(ps, interval)
      PROVE  ItemsInv'
  <2>1. kind' = kind /\ (Subscribe(ps, interval) \/ Unsubscribe(ps, interval))
    BY <1>1 DEF SubscribeItems, UnsubscribeItems, bookVars
  <2> QED BY <2>1, SubscribeKeepsItems, UnsubscribeKeepsItems
<1>2. CASE SubscribeUnsupported({BookPair})
  BY <1>2, OtherStepsKeepItems DEF SubscribeUnsupported, bookVars
<1>3. CASE SubscribeBook \/ UnsubscribeBook
  <2>1. {BookPair} \in SUBSET Pairs /\ "" \in IntervalsOf
    BY <1>3, StreamMessagesAssumption DEF SubscribeBook, UnsubscribeBook, IntervalsOf
  <2>2. kind' = kind /\ (Subscribe({BookPair}, "") \/ Unsubscribe({BookPair}, ""))
    BY <1>3 DEF SubscribeBook, UnsubscribeBook, subscribe, unsubscribe, bookVars
  <2> QED BY <2>1, <2>2, SubscribeKeepsItems, UnsubscribeKeepsItems
<1>4. CASE Reset
  BY <1>4, ResetKeepsItems
<1>5. ASSUME NEW level \in Levels, NEW volume \in Volumes, ChangeBook(level, volume)
      PROVE  ItemsInv'
  BY <1>5, OtherStepsKeepItems DEF ChangeBook, Change, itemVars
<1>6. CASE EmitChanges
  BY <1>6, OtherStepsKeepItems DEF EmitChanges, Emit, itemVars
<1>7. ASSUME NEW p \in Pairs, NEW interval \in IntervalsOf, NEW joined \in BOOLEAN,
             channel # "ORDER_BOOK", NEW s \in Wanted({p}, interval), Make(s, joined)
      PROVE  ItemsInv'
  <2>1. s = Stream(get_channel, IF HasService THEN "" ELSE interval, p)
    BY DEF Wanted
  <2>2. s \in ItemStreams
    BY <2>1 DEF Stream, ItemStreams, IntervalsOf
  <2> QED BY <1>7, <2>2, MakeKeepsItems
<1>8. CASE TakeBookMessage \/ UpdateOrderBook \/ FinishMessage
  <2>1. channel = "ORDER_BOOK"
    BY <1>8, OnlyALookedAtBookHasCalls
  <2>2. UNCHANGED <<kind, channel, itemVars>>
    BY <1>8 DEF TakeBookMessage, Take, UpdateOrderBook, FinishMessage
  <2> QED BY <2>1, <2>2, OtherStepsKeepItems DEF itemVars
<1>9. CASE SnapshotAnswer \/ SnapshotError
  BY <1>9, OtherStepsKeepItems DEF SnapshotAnswer, SnapshotError, SnapshotArrives, SnapshotFails, itemVars
<1>10. CASE TakeItems
  BY <1>10, TakeItemsKeepsItems
<1>11. CASE UpdateItem
  BY <1>11, UpdateItemKeepsItems
<1>12. CASE UNCHANGED vars
  BY <1>12, OtherStepsKeepItems DEF vars, bookVars, itemVars
<1> QED BY <1>1, <1>2, <1>3, <1>4, <1>5, <1>6, <1>7, <1>8, <1>9, <1>10, <1>11, <1>12 DEF Next, on_message

\* The invariant of trades and candles holds in every reachable state.
LEMMA ItemsInvariant == Spec => [](ItemsInv /\ BookIsLookedAt)
<1>1. Init => ItemsInv /\ BookIsLookedAt
  BY ItemsInitially DEF Init, BookInit, BookIsLookedAt
<1>2. ItemsInv /\ BookIsLookedAt /\ [Next]_vars => ItemsInv' /\ BookIsLookedAt'
  BY NextKeepsItems, NextKeepsWhatIsLookedAt
<1> QED BY <1>1, <1>2, PTL DEF Spec

\* The handlers are told of every trade and candle that was made while the strategy was
\* subscribed (exchange_websocket_stream::update_trade and update_ohlcv), each with its
\* own pair, interval and values, of none twice and of none out of order: whatever the
\* exchange's messages look like, for any number of pairs, intervals and items.
THEOREM EveryTradeAndCandleIsTold == Spec => []HandlersAreToldEverything
<1>1. ASSUME ItemsInv, BookIsLookedAt
      PROVE  HandlersAreToldEverything
  <2>1. \A i \in DOMAIN told : \E n \in DOMAIN items : told[i] = Said(n)
    BY <1>1 DEF ItemsInv, ToldOK
  <2>2. ASSUME NEW i \in DOMAIN told, NEW j \in DOMAIN told, i < j
        PROVE  told[i].value.time < told[j].value.time
    <3>1. /\ Number(told[i].value) \in DOMAIN items /\ told[i] = Said(Number(told[i].value))
          /\ Number(told[j].value) \in DOMAIN items /\ told[j] = Said(Number(told[j].value))
          /\ Number(told[i].value) < Number(told[j].value) /\ items \in Seq(ItemStreams)
      BY <1>1, <2>2 DEF ItemsInv, ToldOK, MailOK
    <3>2. PICK n, m : n = Number(told[i].value) /\ m = Number(told[j].value)
      OBVIOUS
    <3>3. n \in Nat /\ m \in Nat /\ n < m /\ told[i] = Said(n) /\ told[j] = Said(m)
      BY <3>1, <3>2
    <3>4. told[i].value.time = (IF kind = "coinbase" THEN n - LocalOffset ELSE n)
          /\ told[j].value.time = (IF kind = "coinbase" THEN m - LocalOffset ELSE m)
      BY <3>3, TimeOfAValue
    <3>5. PICK x, y, offset : x = told[i].value.time /\ y = told[j].value.time /\ offset = LocalOffset
      OBVIOUS
    <3>6. offset \in Int /\ n \in Nat /\ m \in Nat /\ n < m
      BY <3>3, <3>5, StreamMessagesAssumption
    <3>7. CASE kind = "coinbase"
      <4>1. x = n - offset /\ y = m - offset
        BY <3>4, <3>5, <3>7
      <4>2. x < y
        BY <3>6, <4>1
      <4> QED BY <3>5, <4>2
    <3>8. CASE kind # "coinbase"
      BY <3>4, <3>5, <3>6, <3>8
    <3> QED BY <3>7, <3>8
  <2>3. ASSUME mail = <<>>, calls = <<>>, NEW n \in due
        PROVE  \E i \in DOMAIN told : told[i] = Said(n)
    <3>1. PICK i \in DOMAIN told : Number(told[i].value) = n
      BY <1>1, <2>3 DEF ItemsInv, DueOK
    <3>2. told[i] = Said(n)
      BY <1>1, <3>1 DEF ItemsInv, ToldOK
    <3> QED BY <3>2
  <2> QED BY <2>1, <2>2, <2>3 DEF HandlersAreToldEverything
<1> QED BY <1>1, ItemsInvariant, PTL

-----------------------------------------------------------------------------
(***************************************************************************)
(* Sorting.                                                                *)
(***************************************************************************)
\* A finite set of natural numbers can be listed in order.
LEMMA ListExists ==
  ASSUME NEW S \in SUBSET Nat, IsFiniteSet(S)
  PROVE  \E seq \in [1 .. Cardinality(S) -> S] : \A i, j \in DOMAIN seq : i < j => seq[i] < seq[j]
<1> DEFINE Listed(T, n) == \E seq \in [1 .. n -> T] : \A i, j \in 1 .. n : i < j => seq[i] < seq[j]
           Sizes == {n \in Nat : \A T \in SUBSET Nat : IsFiniteSet(T) /\ Cardinality(T) = n => Listed(T, n)}
<1>1. 0 \in Sizes
  <2> SUFFICES ASSUME NEW T \in SUBSET Nat PROVE Listed(T, 0)
    OBVIOUS
  <2>1. [i \in 1 .. 0 |-> 0] \in [1 .. 0 -> T] /\ 1 .. 0 = {}
    OBVIOUS
  <2> QED BY <2>1
<1>2. ASSUME NEW n \in Nat, n \in Sizes PROVE n + 1 \in Sizes
  <2> SUFFICES ASSUME NEW T \in SUBSET Nat, IsFiniteSet(T), Cardinality(T) = n + 1 PROVE Listed(T, n + 1)
    OBVIOUS
  <2>1. T # {}
    BY FS_EmptySet
  <2>2. PICK least \in T : \A m \in T : least <= m
    BY <2>1, LeastNatural
  <2>3. IsFiniteSet(T \ {least}) /\ Cardinality(T \ {least}) = n
    <3>1. /\ IsFiniteSet(T \ {least})
          /\ Cardinality(T \ {least}) = IF least \in T THEN Cardinality(T) - 1 ELSE Cardinality(T)
      BY FS_RemoveElement
    <3> QED BY <3>1
  <2>4. Listed(T \ {least}, n)
    BY <1>2, <2>3
  <2>5. PICK rest \in [1 .. n -> T \ {least}] : \A i, j \in 1 .. n : i < j => rest[i] < rest[j]
    BY <2>4
  <2> DEFINE seq == [i \in 1 .. n + 1 |-> IF i = 1 THEN least ELSE rest[i - 1]]
  <2>6. seq \in [1 .. n + 1 -> T]
    OBVIOUS
  <2>7. ASSUME NEW i \in 1 .. n + 1, NEW j \in 1 .. n + 1, i < j
        PROVE  seq[i] < seq[j]
    <3>1. j - 1 \in 1 .. n /\ seq[j] = rest[j - 1] /\ rest[j - 1] \in T \ {least}
      BY <2>7
    <3>2. CASE i = 1
      <4>1. rest[j - 1] \in Nat /\ least \in Nat /\ least <= rest[j - 1] /\ least # rest[j - 1]
        BY <2>2, <3>1
      <4> QED BY <3>1, <3>2, <4>1
    <3>3. CASE i # 1
      <4>1. i - 1 \in 1 .. n /\ seq[i] = rest[i - 1] /\ i - 1 < j - 1
        BY <2>7, <3>3
      <4> QED BY <2>5, <3>1, <4>1
    <3> QED BY <3>2, <3>3
  <2> HIDE DEF seq
  <2> QED BY <2>6, <2>7
<1> HIDE DEF Sizes
<1>3. Nat \subseteq Sizes
  BY <1>1, <1>2, SetInduction
<1>4. Cardinality(S) \in Sizes
  BY <1>3, FS_CardinalityType
<1>5. Listed(S, Cardinality(S))
  BY <1>4 DEF Sizes
<1> QED BY <1>5

\* A list without repetitions that is as long as the set has all of its elements.
LEMMA ListHasAll ==
  ASSUME NEW S, IsFiniteSet(S), NEW seq \in [1 .. Cardinality(S) -> S],
         \A i, j \in DOMAIN seq : i # j => seq[i] # seq[j]
  PROVE  /\ seq \in Seq(S) /\ Len(seq) = Cardinality(S)
         /\ \A p \in S : \E i \in DOMAIN seq : seq[i] = p
<1>1. Cardinality(S) \in Nat
  BY FS_CardinalityType
<1>2. IsFiniteSet(1 .. Cardinality(S)) /\ Cardinality(1 .. Cardinality(S)) = Cardinality(S)
  <2>1. Cardinality(1 .. Cardinality(S)) = IF 1 > Cardinality(S) THEN 0 ELSE Cardinality(S) - 1 + 1
    BY <1>1, FS_Interval
  <2> QED BY <1>1, <2>1, FS_Interval
<1>3. seq \in Injection(1 .. Cardinality(S), S)
  BY DEF Injection, IsInjective
<1>4. seq \in Surjection(1 .. Cardinality(S), S)
  BY <1>2, <1>3, FS_Injection
<1>5. \A p \in S : \E i \in 1 .. Cardinality(S) : seq[i] = p
  BY <1>4 DEF Surjection
<1> QED BY <1>1, <1>5

\* A rising list of the right length has every element, each once.
LEMMA RisingHasAll ==
  ASSUME NEW S \in SUBSET Nat, IsFiniteSet(S), NEW seq \in [1 .. Cardinality(S) -> S],
         \A i, j \in DOMAIN seq : i < j => seq[i] < seq[j]
  PROVE  /\ seq \in Seq(S) /\ Len(seq) = Cardinality(S)
         /\ \A i, j \in DOMAIN seq : i # j => seq[i] # seq[j]
         /\ \A p \in S : \E i \in DOMAIN seq : seq[i] = p
<1>1. \A i, j \in DOMAIN seq : i # j => seq[i] # seq[j]
  <2> SUFFICES ASSUME NEW i \in DOMAIN seq, NEW j \in DOMAIN seq, i # j PROVE seq[i] # seq[j]
    OBVIOUS
  <2>1. i \in Int /\ j \in Int /\ seq[i] \in Nat /\ seq[j] \in Nat
    <3>1. PICK n \in Nat : n = Cardinality(S)
      BY FS_CardinalityType
    <3>2. seq \in [1 .. n -> S] /\ i \in 1 .. n /\ j \in 1 .. n
      BY <3>1
    <3>3. seq[i] \in S /\ seq[j] \in S
      BY <3>2
    <3>4. i \in Int /\ j \in Int
      BY <3>2
    <3> QED BY <3>3, <3>4
  <2>2. i < j \/ j < i
    BY <2>1
  <2>3. seq[i] < seq[j] \/ seq[j] < seq[i]
    BY <2>2
  <2> QED BY <2>1, <2>3
<1> QED BY <1>1, ListHasAll

\* So has a falling one.
LEMMA FallingHasAll ==
  ASSUME NEW S \in SUBSET Nat, IsFiniteSet(S), NEW seq \in [1 .. Cardinality(S) -> S],
         \A i, j \in DOMAIN seq : i < j => seq[i] > seq[j]
  PROVE  /\ seq \in Seq(S) /\ Len(seq) = Cardinality(S)
         /\ \A i, j \in DOMAIN seq : i # j => seq[i] # seq[j]
         /\ \A p \in S : \E i \in DOMAIN seq : seq[i] = p
<1>1. \A i, j \in DOMAIN seq : i # j => seq[i] # seq[j]
  <2> SUFFICES ASSUME NEW i \in DOMAIN seq, NEW j \in DOMAIN seq, i # j PROVE seq[i] # seq[j]
    OBVIOUS
  <2>1. i \in Int /\ j \in Int /\ seq[i] \in Nat /\ seq[j] \in Nat
    <3>1. PICK n \in Nat : n = Cardinality(S)
      BY FS_CardinalityType
    <3>2. seq \in [1 .. n -> S] /\ i \in 1 .. n /\ j \in 1 .. n
      BY <3>1
    <3>3. seq[i] \in S /\ seq[j] \in S
      BY <3>2
    <3>4. i \in Int /\ j \in Int
      BY <3>2
    <3> QED BY <3>3, <3>4
  <2>2. i < j \/ j < i
    BY <2>1
  <2>3. seq[i] > seq[j] \/ seq[j] > seq[i]
    BY <2>2
  <2> QED BY <2>1, <2>3
<1> QED BY <1>1, ListHasAll

\* A rising list, backwards.
LEMMA FallingListExists ==
  ASSUME NEW S \in SUBSET Nat, IsFiniteSet(S)
  PROVE  \E seq \in [1 .. Cardinality(S) -> S] : \A i, j \in DOMAIN seq : i < j => seq[i] > seq[j]
<1>1. PICK n \in Nat : n = Cardinality(S)
  BY FS_CardinalityType
<1>2. PICK up \in [1 .. n -> S] : \A i, j \in DOMAIN up : i < j => up[i] < up[j]
  BY <1>1, ListExists
<1> DEFINE down == [i \in 1 .. n |-> up[n + 1 - i]]
<1>3. down \in [1 .. n -> S]
  <2> SUFFICES ASSUME NEW i \in 1 .. n PROVE up[n + 1 - i] \in S
    OBVIOUS
  <2>1. n + 1 - i \in 1 .. n
    OBVIOUS
  <2> QED BY <2>1
<1>4. ASSUME NEW i \in 1 .. n, NEW j \in 1 .. n, i < j PROVE down[i] > down[j]
  <2>1. n + 1 - i \in 1 .. n /\ n + 1 - j \in 1 .. n /\ n + 1 - j < n + 1 - i
    BY <1>4
  <2>2. up[n + 1 - j] < up[n + 1 - i]
    BY <1>2, <2>1
  <2>3. up[n + 1 - j] \in Nat /\ up[n + 1 - i] \in Nat
    BY <2>1
  <2> QED BY <2>2, <2>3
<1> HIDE DEF down
<1>5. \E seq \in [1 .. n -> S] : \A i, j \in DOMAIN seq : i < j => seq[i] > seq[j]
  BY <1>3, <1>4
<1> QED BY <1>1, <1>5

\* order_book_cache keeps asks from the cheapest and bids from the dearest.
LEMMA SortedUp ==
  ASSUME NEW S \in SUBSET Nat, IsFiniteSet(S)
  PROVE  \E seq \in [1 .. Cardinality(S) -> S] :
           seq = Sorted(S, <) /\ \A i, j \in DOMAIN seq : i < j => seq[i] < seq[j]
BY ListExists, Zenon DEF Sorted

\* The bids, from the dearest.
LEMMA SortedDown ==
  ASSUME NEW S \in SUBSET Nat, IsFiniteSet(S)
  PROVE  \E seq \in [1 .. Cardinality(S) -> S] :
           seq = Sorted(S, >) /\ \A i, j \in DOMAIN seq : i < j => seq[i] > seq[j]
BY FallingListExists, Zenon DEF Sorted

-----------------------------------------------------------------------------
(***************************************************************************)
(* The levels of a message.                                                *)
(***************************************************************************)
\* Prices that name levels of a side, each once.
PricesOf(prices, side, levels) ==
  /\ prices \in Seq(Prices)
  /\ \A i, j \in DOMAIN prices : i # j => prices[i] # prices[j]
  /\ \A p \in Prices : <<side, p>> \in levels <=> \E i \in DOMAIN prices : prices[i] = p

RowsAt(v, prices, side) == [i \in DOMAIN prices |-> <<Text(prices[i]), Text(books[v][<<side, prices[i]>>])>>]

\* The rows of a side are those of a list of its prices.
LEMMA RowsList ==
  ASSUME NEW v, NEW levels, NEW side
  PROVE  \E prices : PricesOf(prices, side, levels) /\ Rows(v, levels, side) = RowsAt(v, prices, side)
<1> DEFINE S == {p \in Prices : <<side, p>> \in levels}
<1>1. S \in SUBSET Nat /\ IsFiniteSet(S)
  <2>1. S \in SUBSET Prices /\ Prices \subseteq Nat /\ IsFiniteSet(Prices)
    BY StreamDataAssumption, StreamMessagesAssumption
  <2> QED BY <2>1, FS_Subset
<1>2. /\ Rows(v, levels, side) = [i \in DOMAIN Sorted(S, <) |->
                                   <<Text(Sorted(S, <)[i]), Text(books[v][<<side, Sorted(S, <)[i]>>])>>]
  BY Zenon DEF Rows, Each
<1>3. PICK prices \in [1 .. Cardinality(S) -> S] :
        prices = Sorted(S, <) /\ \A i, j \in DOMAIN prices : i < j => prices[i] < prices[j]
  BY <1>1, SortedUp, Zenon
<1>4. Rows(v, levels, side) = RowsAt(v, prices, side)
  BY <1>2, <1>3, Zenon DEF RowsAt
<1>5. prices \in [1 .. Cardinality(S) -> S] /\ \A i, j \in DOMAIN prices : i < j => prices[i] < prices[j]
  BY <1>3, Zenon
<1>6. /\ prices \in Seq(S)
      /\ \A i, j \in DOMAIN prices : i # j => prices[i] # prices[j]
      /\ \A p \in S : \E i \in DOMAIN prices : prices[i] = p
  <2> HIDE DEF S
  <2> QED BY <1>1, <1>5, RisingHasAll
<1>7. \A i \in DOMAIN prices : prices[i] \in S
  BY <1>6
<1>8. prices \in Seq(Prices)
  <2>1. S \subseteq Prices
    OBVIOUS
  <2> HIDE DEF S
  <2> QED BY <1>6, <2>1, SeqMonotonic
<1>9. PricesOf(prices, side, levels)
  BY <1>6, <1>7, <1>8 DEF PricesOf
<1> QED BY <1>4, <1>9

\* A level is read from its row as it was written.
LEMMA RowIsRead ==
  ASSUME NEW v, NEW p, NEW side
  PROVE  /\ create_order_book_entry(side, <<Text(p), Text(books[v][<<side, p>>])>>) = Entry(p, books[v][<<side, p>>], side)
         /\ UpdateBook(side, <<Text(p), Text(books[v][<<side, p>>])>>) = UpdateCall(v, <<side, p>>)
<1>1. create_order_book_entry(side, <<Text(p), Text(books[v][<<side, p>>])>>) = Entry(p, books[v][<<side, p>>], side)
  BY ReadBack DEF create_order_book_entry
<1> QED BY <1>1 DEF UpdateBook, UpdateCall

\* Calls of different levels are different.
LEMMA CallsTellLevels ==
  ASSUME NEW v, NEW level \in Levels, NEW other \in Levels, UpdateCall(v, level) = UpdateCall(v, other)
  PROVE  level = other
<1>1. level[1] = other[1] /\ level[2] = other[2]
  <2>1. UpdateCall(v, level).entry = UpdateCall(v, other).entry
    OBVIOUS
  <2>2. \A l : UpdateCall(v, l).entry.side = l[1] /\ UpdateCall(v, l).entry.price = l[2]
    BY DEF UpdateCall, Entry
  <2> QED BY <2>1, <2>2
<1> QED BY <1>1 DEF Levels

\* The updates of a side name its levels.
LEMMA UpdatesOfASide ==
  ASSUME NEW v, NEW levels \in SUBSET Levels, NEW side \in {"ASK", "BID"}, NEW prices, PricesOf(prices, side, levels)
  PROVE  LET cs == Updates(side, RowsAt(v, prices, side))
         IN  /\ Names(cs, v, {level \in levels : level[1] = side})
             /\ Len(cs) = Len(prices)
             /\ \A i \in DOMAIN cs : cs[i].entry.side = side
<1> DEFINE cs == Updates(side, RowsAt(v, prices, side))
           L == {level \in levels : level[1] = side}
<1>0. prices \in Seq(Prices)
  BY DEF PricesOf
<1>1. cs = [i \in DOMAIN prices |-> UpdateCall(v, <<side, prices[i]>>)]
  <2>1. cs = [i \in DOMAIN RowsAt(v, prices, side) |-> UpdateBook(side, RowsAt(v, prices, side)[i])]
    BY Zenon DEF Updates, Each
  <2>2. DOMAIN RowsAt(v, prices, side) = DOMAIN prices
    BY DEF RowsAt
  <2>3. \A i \in DOMAIN prices : RowsAt(v, prices, side)[i] = <<Text(prices[i]), Text(books[v][<<side, prices[i]>>])>>
    BY DEF RowsAt
  <2>4. \A i \in DOMAIN prices : UpdateBook(side, RowsAt(v, prices, side)[i]) = UpdateCall(v, <<side, prices[i]>>)
    BY <2>3, RowIsRead
  <2> HIDE DEF cs
  <2> QED BY <2>1, <2>2, <2>4
<1> HIDE DEF cs
<1>2. ASSUME NEW i \in DOMAIN prices
      PROVE  <<side, prices[i]>> \in L /\ prices[i] \in Prices /\ <<side, prices[i]>> \in Levels
  BY <1>0 DEF PricesOf
<1>3. cs \in Seq({UpdateCall(v, level) : level \in L}) /\ Len(cs) = Len(prices) /\ DOMAIN cs = DOMAIN prices
  <2>1. \A i \in DOMAIN prices : UpdateCall(v, <<side, prices[i]>>) \in {UpdateCall(v, level) : level \in L}
    BY <1>2
  <2> HIDE DEF L
  <2>2. DOMAIN prices = 1 .. Len(prices) /\ Len(prices) \in Nat
    BY <1>0
  <2> QED BY <1>1, <2>1, <2>2
<1>4. ASSUME NEW level \in L PROVE \E i \in DOMAIN cs : cs[i] = UpdateCall(v, level)
  <2>1. level \in Levels /\ level[1] = side
    OBVIOUS
  <2>2. level[2] \in Prices /\ level = <<side, level[2]>>
    BY <2>1 DEF Levels
  <2>3. PICK i \in DOMAIN prices : prices[i] = level[2]
    BY <2>2 DEF PricesOf
  <2> QED BY <1>1, <2>2, <2>3
<1>5. ASSUME NEW i \in DOMAIN cs, NEW j \in DOMAIN cs, cs[i] = cs[j]
      PROVE  i = j
  <2>1. UpdateCall(v, <<side, prices[i]>>) = UpdateCall(v, <<side, prices[j]>>) /\ i \in DOMAIN prices /\ j \in DOMAIN prices
    BY <1>1, <1>5
  <2>2. <<side, prices[i]>> = <<side, prices[j]>>
    BY <1>2, <2>1, CallsTellLevels
  <2> QED BY <2>1, <2>2 DEF PricesOf
<1>6. \A i \in DOMAIN cs : cs[i].entry.side = side
  BY <1>1 DEF UpdateCall, Entry
<1> HIDE DEF L
<1>7. Names(cs, v, L)
  BY <1>3, <1>4, <1>5 DEF Names
<1> QED BY <1>3, <1>6, <1>7 DEF cs, L

\* Both sides: one after the other, or by turns.
LEMMA DifferentLevels ==
  ASSUME NEW v, NEW A \in SUBSET Levels, NEW B \in SUBSET Levels, A \cap B = {},
         NEW a, NEW b, Names(a, v, A), Names(b, v, B)
  PROVE  /\ Len(a) \in Nat /\ DOMAIN a = 1 .. Len(a) /\ Len(b) \in Nat /\ DOMAIN b = 1 .. Len(b)
         /\ \A i \in DOMAIN a : a[i] \in {UpdateCall(v, level) : level \in A \cup B}
         /\ \A i \in DOMAIN b : b[i] \in {UpdateCall(v, level) : level \in A \cup B}
         /\ \A i \in DOMAIN a, j \in DOMAIN b : a[i] # b[j]
<1>1. a \in Seq({UpdateCall(v, level) : level \in A}) /\ b \in Seq({UpdateCall(v, level) : level \in B})
  BY DEF Names
<1>2. /\ \A i \in DOMAIN a : a[i] \in {UpdateCall(v, level) : level \in A}
      /\ \A i \in DOMAIN b : b[i] \in {UpdateCall(v, level) : level \in B}
  BY <1>1
<1>3. ASSUME NEW i \in DOMAIN a, NEW j \in DOMAIN b, a[i] = b[j] PROVE FALSE
  <2>1. PICK l \in A, m \in B : a[i] = UpdateCall(v, l) /\ b[j] = UpdateCall(v, m)
    BY <1>2
  <2>2. l = m
    BY <1>3, <2>1, CallsTellLevels
  <2> QED BY <2>2
<1>4. /\ Len(a) \in Nat /\ DOMAIN a = 1 .. Len(a) /\ Len(b) \in Nat /\ DOMAIN b = 1 .. Len(b)
  BY <1>1
<1> QED BY <1>2, <1>3, <1>4

\* The calls for one side, followed by those for the other, name the levels of both.
LEMMA OneSideThenTheOther ==
  ASSUME NEW v, NEW A \in SUBSET Levels, NEW B \in SUBSET Levels, A \cap B = {},
         NEW a, NEW b, Names(a, v, A), Names(b, v, B)
  PROVE  Names(a \o b, v, A \cup B)
<1> DEFINE both == a \o b
           all == {UpdateCall(v, level) : level \in A \cup B}
<1>1. /\ Len(a) \in Nat /\ DOMAIN a = 1 .. Len(a) /\ Len(b) \in Nat /\ DOMAIN b = 1 .. Len(b)
      /\ \A i \in DOMAIN a : a[i] \in all
      /\ \A i \in DOMAIN b : b[i] \in all
      /\ \A i \in DOMAIN a, j \in DOMAIN b : a[i] # b[j]
  BY DifferentLevels
<1>2. /\ \A level \in A : \E i \in DOMAIN a : a[i] = UpdateCall(v, level)
      /\ \A level \in B : \E i \in DOMAIN b : b[i] = UpdateCall(v, level)
      /\ \A i, j \in DOMAIN a : a[i] = a[j] => i = j
      /\ \A i, j \in DOMAIN b : b[i] = b[j] => i = j
      /\ a \in Seq({UpdateCall(v, level) : level \in A}) /\ b \in Seq({UpdateCall(v, level) : level \in B})
  BY DEF Names
<1> HIDE DEF all
<1>3. /\ Len(both) = Len(a) + Len(b) /\ DOMAIN both = 1 .. Len(a) + Len(b)
      /\ \A i \in DOMAIN a : both[i] = a[i]
      /\ \A i \in DOMAIN b : i + Len(a) \in DOMAIN both /\ both[i + Len(a)] = b[i]
      /\ both \in Seq(all)
  <2>1. a \in Seq(all) /\ b \in Seq(all)
    BY <1>1, <1>2
  <2> QED BY <2>1
<1> HIDE DEF both
<1>4. \A i \in DOMAIN both : i \in DOMAIN a \/ (i - Len(a) \in DOMAIN b /\ both[i] = b[i - Len(a)])
  <2> SUFFICES ASSUME NEW i \in DOMAIN both, i \notin DOMAIN a
               PROVE  i - Len(a) \in DOMAIN b /\ both[i] = b[i - Len(a)]
    OBVIOUS
  <2>1. i - Len(a) \in DOMAIN b /\ (i - Len(a)) + Len(a) = i
    BY <1>1, <1>3
  <2> QED BY <1>3, <2>1
<1>5. \A level \in A \cup B : \E i \in DOMAIN both : both[i] = UpdateCall(v, level)
  <2> SUFFICES ASSUME NEW level \in A \cup B PROVE \E i \in DOMAIN both : both[i] = UpdateCall(v, level)
    OBVIOUS
  <2>1. CASE level \in A
    <3>1. PICK i \in DOMAIN a : a[i] = UpdateCall(v, level)
      BY <1>2, <2>1
    <3>2. i \in DOMAIN both
      BY <1>1, <1>3
    <3> QED BY <1>3, <3>1, <3>2
  <2>2. CASE level \in B
    BY <1>2, <1>3, <2>2
  <2> QED BY <2>1, <2>2
<1>6. ASSUME NEW i \in DOMAIN both, NEW j \in DOMAIN both, both[i] = both[j]
      PROVE  i = j
  <2>1. i \in Int /\ j \in Int
    BY <1>1, <1>3
  <2>2. CASE i \in DOMAIN a /\ j \in DOMAIN a
    BY <1>2, <1>3, <1>6, <2>2
  <2>3. CASE i \in DOMAIN a /\ j \notin DOMAIN a
    BY <1>1, <1>3, <1>4, <1>6, <2>3
  <2>4. CASE i \notin DOMAIN a /\ j \in DOMAIN a
    BY <1>1, <1>3, <1>4, <1>6, <2>4
  <2>5. CASE i \notin DOMAIN a /\ j \notin DOMAIN a
    <3>1. i - Len(a) = j - Len(a)
      BY <1>2, <1>4, <1>6, <2>5
    <3> QED BY <1>1, <2>1, <3>1
  <2> QED BY <2>2, <2>3, <2>4, <2>5
<1> QED BY <1>3, <1>5, <1>6 DEF Names, both, all

\* Asks before bids.
LEMMA AsksThenBids ==
  ASSUME NEW a, NEW b, NEW S, NEW T, a \in Seq(S), b \in Seq(T),
         \A i \in DOMAIN a : a[i].entry.side = "ASK", \A i \in DOMAIN b : b[i].entry.side = "BID"
  PROVE  AsksFirst(a \o b)
<1> SUFFICES ASSUME NEW i \in DOMAIN (a \o b), NEW j \in DOMAIN (a \o b), i < j,
                    (a \o b)[j].entry.side = "ASK"
             PROVE  (a \o b)[i].entry.side = "ASK"
  BY DEF AsksFirst
<1>0. a \in Seq(S \cup T) /\ b \in Seq(S \cup T)
  OBVIOUS
<1>1. /\ Len(a) \in Nat /\ DOMAIN a = 1 .. Len(a) /\ Len(b) \in Nat /\ DOMAIN b = 1 .. Len(b)
      /\ Len(a \o b) = Len(a) + Len(b) /\ DOMAIN (a \o b) = 1 .. Len(a) + Len(b)
      /\ \A k \in 1 .. Len(a) : (a \o b)[k] = a[k]
      /\ \A k \in 1 .. Len(a) + Len(b) : k > Len(a) => (a \o b)[k] = b[k - Len(a)]
  BY <1>0
<1>2. j <= Len(a)
  <2> SUFFICES ASSUME j > Len(a) PROVE FALSE
    BY <1>1
  <2>1. (a \o b)[j] = b[j - Len(a)] /\ j - Len(a) \in DOMAIN b
    BY <1>1
  <2> QED BY <2>1
<1>3. i \in DOMAIN a /\ (a \o b)[i] = a[i]
  BY <1>1, <1>2
<1> QED BY <1>3

\* bybit_websocket_stream goes through both sides at once.
LEMMA SidesByTurns ==
  ASSUME NEW v, NEW A \in SUBSET Levels, NEW B \in SUBSET Levels, A \cap B = {},
         NEW a, NEW b, Names(a, v, A), Names(b, v, B)
  PROVE  Names(Alternately(a, b), v, A \cup B)
<1> DEFINE all == {UpdateCall(v, level) : level \in A \cup B}
<1>1. /\ Len(a) \in Nat /\ DOMAIN a = 1 .. Len(a) /\ Len(b) \in Nat /\ DOMAIN b = 1 .. Len(b)
      /\ \A i \in DOMAIN a : a[i] \in all
      /\ \A i \in DOMAIN b : b[i] \in all
      /\ \A i \in DOMAIN a, j \in DOMAIN b : a[i] # b[j]
  BY DifferentLevels
<1>2. /\ \A level \in A : \E i \in DOMAIN a : a[i] = UpdateCall(v, level)
      /\ \A level \in B : \E i \in DOMAIN b : b[i] = UpdateCall(v, level)
      /\ \A i, j \in DOMAIN a : a[i] = a[j] => i = j
      /\ \A i, j \in DOMAIN b : b[i] = b[j] => i = j
  BY DEF Names
<1> HIDE DEF all
<1>3. PICK la, lb, both, longer : /\ la = Len(a) /\ lb = Len(b)
                                  /\ both = IF Len(a) < Len(b) THEN Len(a) ELSE Len(b)
                                  /\ longer = IF Len(a) < Len(b) THEN b ELSE a
  OBVIOUS
<1>4. /\ la \in Nat /\ lb \in Nat /\ both \in Nat /\ DOMAIN a = 1 .. la /\ DOMAIN b = 1 .. lb
      /\ both <= la /\ both <= lb
      /\ (longer = b /\ both = la /\ la < lb) \/ (longer = a /\ both = lb /\ lb <= la)
  <2>1. la \in Nat /\ lb \in Nat /\ DOMAIN a = 1 .. la /\ DOMAIN b = 1 .. lb
    BY <1>1, <1>3
  <2>2. both = (IF la < lb THEN la ELSE lb) /\ longer = IF la < lb THEN b ELSE a
    BY <1>3
  <2>3. CASE la < lb
    BY <2>1, <2>2, <2>3
  <2>4. CASE ~ (la < lb)
    BY <2>1, <2>2, <2>4
  <2> QED BY <2>3, <2>4
<1>5. PICK cs : cs = Alternately(a, b)
  OBVIOUS
<1>6. cs = [i \in 1 .. la + lb |-> IF i > 2 * both THEN longer[i - both]
                                   ELSE IF i % 2 = 1 THEN a[(i + 1) \div 2] ELSE b[i \div 2]]
  BY <1>3, <1>5, Zenon DEF Alternately
<1> DEFINE Odd(i) == i <= 2 * both /\ i % 2 = 1
           Even(i) == i <= 2 * both /\ i % 2 = 0
           Rest(i) == i > 2 * both
<1>7. ASSUME NEW i \in 1 .. la + lb
      PROVE  /\ Odd(i) \/ Even(i) \/ Rest(i)
             /\ Odd(i) => /\ (i + 1) \div 2 \in 1 .. both /\ cs[i] = a[(i + 1) \div 2]
                          /\ i = 2 * ((i + 1) \div 2) - 1
             /\ Even(i) => i \div 2 \in 1 .. both /\ cs[i] = b[i \div 2] /\ i = 2 * (i \div 2)
             /\ Rest(i) => i - both \in DOMAIN longer /\ i - both > both /\ cs[i] = longer[i - both]
  <2>1. i \in Nat /\ i >= 1 /\ i <= la + lb /\ (i % 2 = 0 \/ i % 2 = 1)
    BY <1>4
  <2>2. CASE Odd(i)
    <3>1. (i + 1) \div 2 \in 1 .. both /\ i = 2 * ((i + 1) \div 2) - 1
      BY <1>4, <2>1, <2>2
    <3>2. cs[i] = a[(i + 1) \div 2] /\ ~ Even(i) /\ ~ Rest(i)
      BY <1>4, <1>6, <2>1, <2>2
    <3> QED BY <2>2, <3>1, <3>2
  <2>3. CASE Even(i)
    <3>1. i \div 2 \in 1 .. both /\ i = 2 * (i \div 2)
      BY <1>4, <2>1, <2>3
    <3>2. cs[i] = b[i \div 2] /\ ~ Odd(i) /\ ~ Rest(i)
      BY <1>4, <1>6, <2>1, <2>3
    <3> QED BY <2>3, <3>1, <3>2
  <2>4. CASE Rest(i)
    <3>1. cs[i] = longer[i - both] /\ ~ Odd(i) /\ ~ Even(i)
      BY <1>4, <1>6, <2>1, <2>4
    <3>2. i - both \in Nat /\ i - both > both
      BY <1>4, <2>1, <2>4
    <3>3. i - both \in DOMAIN longer
      BY <1>4, <2>1, <3>2
    <3> QED BY <2>4, <3>1, <3>2, <3>3
  <2>5. Odd(i) \/ Even(i) \/ Rest(i)
    BY <1>4, <2>1
  <2> QED BY <2>2, <2>3, <2>4, <2>5
<1>8. cs \in Seq(all) /\ DOMAIN cs = 1 .. la + lb
  <2>1. \A i \in 1 .. la + lb : cs[i] \in all
    <3> SUFFICES ASSUME NEW i \in 1 .. la + lb PROVE cs[i] \in all
      OBVIOUS
    <3>1. \/ \E k \in DOMAIN a : cs[i] = a[k]
          \/ \E k \in DOMAIN b : cs[i] = b[k]
      <4>1. 1 .. both \subseteq DOMAIN a /\ 1 .. both \subseteq DOMAIN b
        BY <1>4
      <4> HIDE DEF Odd, Even, Rest
      <4> QED BY <1>4, <1>7, <4>1
    <3> QED BY <1>1, <3>1
  <2> QED BY <1>4, <1>6, <2>1
<1>9. \A k \in DOMAIN a : \E i \in DOMAIN cs : cs[i] = a[k]
  <2> SUFFICES ASSUME NEW k \in DOMAIN a PROVE \E i \in DOMAIN cs : cs[i] = a[k]
    OBVIOUS
  <2>0. k \in Nat /\ 1 <= k /\ k <= la
    BY <1>4
  <2>1. CASE k <= both
    <3>1. PICK i : i = 2 * k - 1
      OBVIOUS
    <3>2. i \in 1 .. la + lb /\ i % 2 = 1 /\ ~ (i > 2 * both) /\ (i + 1) \div 2 = k
      <4>1. i \in Int /\ i >= 1 /\ i <= la + lb /\ ~ (i > 2 * both)
        BY <1>4, <2>0, <2>1, <3>1
      <4>2. i + 1 = 2 * k /\ (2 * k) \div 2 = k
        BY <2>0, <3>1
      <4>3. i % 2 = 1
        BY <2>0, <3>1
      <4> QED BY <1>4, <4>1, <4>2, <4>3
    <3>3. cs[i] = a[(i + 1) \div 2]
      BY <1>6, <3>2
    <3> QED BY <1>8, <3>2, <3>3
  <2>2. CASE k > both
    <3>1. PICK i : i = k + both
      OBVIOUS
    <3>2. i \in 1 .. la + lb /\ i > 2 * both /\ i - both = k /\ longer = a
      BY <1>4, <2>0, <2>2, <3>1
    <3>3. cs[i] = longer[i - both]
      BY <1>6, <3>2
    <3> QED BY <1>8, <3>2, <3>3
  <2> QED BY <1>4, <2>0, <2>1, <2>2
<1>10. \A k \in DOMAIN b : \E i \in DOMAIN cs : cs[i] = b[k]
  <2> SUFFICES ASSUME NEW k \in DOMAIN b PROVE \E i \in DOMAIN cs : cs[i] = b[k]
    OBVIOUS
  <2>0. k \in Nat /\ 1 <= k /\ k <= lb
    BY <1>4
  <2>1. CASE k <= both
    <3>1. PICK i : i = 2 * k
      OBVIOUS
    <3>2. i \in 1 .. la + lb /\ i % 2 # 1 /\ ~ (i > 2 * both) /\ i \div 2 = k
      BY <1>4, <2>0, <2>1, <3>1
    <3>3. cs[i] = b[i \div 2]
      BY <1>6, <3>2
    <3> QED BY <1>8, <3>2, <3>3
  <2>2. CASE k > both
    <3>1. PICK i : i = k + both
      OBVIOUS
    <3>2. i \in 1 .. la + lb /\ i > 2 * both /\ i - both = k /\ longer = b
      BY <1>4, <2>0, <2>2, <3>1
    <3>3. cs[i] = longer[i - both]
      BY <1>6, <3>2
    <3> QED BY <1>8, <3>2, <3>3
  <2> QED BY <1>4, <2>0, <2>1, <2>2
<1>11. \A level \in A \cup B : \E i \in DOMAIN cs : cs[i] = UpdateCall(v, level)
  BY <1>2, <1>9, <1>10
<1>12. ASSUME NEW i \in DOMAIN cs, NEW j \in DOMAIN cs, cs[i] = cs[j]
       PROVE  i = j
  <2>0. i \in 1 .. la + lb /\ j \in 1 .. la + lb
    BY <1>8
  <2>1. PICK ai, aj, bi, bj, ri, rj : /\ ai = (i + 1) \div 2 /\ aj = (j + 1) \div 2
                                      /\ bi = i \div 2 /\ bj = j \div 2
                                      /\ ri = i - both /\ rj = j - both
    OBVIOUS
  <2>2. /\ Odd(i) \/ Even(i) \/ Rest(i)
        /\ Odd(i) => ai \in 1 .. both /\ cs[i] = a[ai] /\ i = 2 * ai - 1
        /\ Even(i) => bi \in 1 .. both /\ cs[i] = b[bi] /\ i = 2 * bi
        /\ Rest(i) => ri \in DOMAIN longer /\ ri > both /\ cs[i] = longer[ri] /\ i = ri + both
    <3> HIDE DEF Odd, Even, Rest
    <3>1. Rest(i) => i = ri + both
      BY <1>4, <2>0, <2>1
    <3>2. /\ Odd(i) \/ Even(i) \/ Rest(i)
          /\ Odd(i) => ai \in 1 .. both /\ cs[i] = a[ai] /\ i = 2 * ai - 1
          /\ Even(i) => bi \in 1 .. both /\ cs[i] = b[bi] /\ i = 2 * bi
          /\ Rest(i) => ri \in DOMAIN longer /\ ri > both /\ cs[i] = longer[ri]
      BY <1>7, <2>0, <2>1, Zenon
    <3> QED BY <3>1, <3>2
  <2>3. /\ Odd(j) \/ Even(j) \/ Rest(j)
        /\ Odd(j) => aj \in 1 .. both /\ cs[j] = a[aj] /\ j = 2 * aj - 1
        /\ Even(j) => bj \in 1 .. both /\ cs[j] = b[bj] /\ j = 2 * bj
        /\ Rest(j) => rj \in DOMAIN longer /\ rj > both /\ cs[j] = longer[rj] /\ j = rj + both
    <3> HIDE DEF Odd, Even, Rest
    <3>1. Rest(j) => j = rj + both
      BY <1>4, <2>0, <2>1
    <3>2. /\ Odd(j) \/ Even(j) \/ Rest(j)
          /\ Odd(j) => aj \in 1 .. both /\ cs[j] = a[aj] /\ j = 2 * aj - 1
          /\ Even(j) => bj \in 1 .. both /\ cs[j] = b[bj] /\ j = 2 * bj
          /\ Rest(j) => rj \in DOMAIN longer /\ rj > both /\ cs[j] = longer[rj]
      BY <1>7, <2>0, <2>1, Zenon
    <3> QED BY <3>1, <3>2
  <2> HIDE DEF Odd, Even, Rest
  <2>4. 1 .. both \subseteq DOMAIN a /\ 1 .. both \subseteq DOMAIN b /\ \A k \in 1 .. both : ~ (k > both)
    BY <1>4
  <2>5. CASE Odd(i) /\ Odd(j)
    BY <1>2, <1>12, <2>2, <2>3, <2>4, <2>5
  <2>6. CASE Even(i) /\ Even(j)
    BY <1>2, <1>12, <2>2, <2>3, <2>4, <2>6
  <2>7. CASE Rest(i) /\ Rest(j)
    <3>1. ri = rj
      <4>1. ri \in DOMAIN longer /\ rj \in DOMAIN longer /\ longer[ri] = longer[rj]
        BY <1>12, <2>2, <2>3, <2>7
      <4>2. longer = a \/ longer = b
        BY <1>4
      <4> QED BY <1>2, <4>1, <4>2
    <3> QED BY <2>2, <2>3, <2>7, <3>1
  <2>8. CASE (Odd(i) /\ Even(j)) \/ (Even(i) /\ Odd(j))
    BY <1>1, <1>12, <2>2, <2>3, <2>4, <2>8, SMTT(20)
  <2>9. CASE Rest(i) /\ ~ Rest(j)
    BY <1>1, <1>2, <1>4, <1>12, <2>2, <2>3, <2>4, <2>9, SMTT(20)
  <2>10. CASE ~ Rest(i) /\ Rest(j)
    BY <1>1, <1>2, <1>4, <1>12, <2>2, <2>3, <2>4, <2>10, SMTT(20)
  <2> QED BY <2>2, <2>3, <2>5, <2>6, <2>7, <2>8, <2>9, <2>10
<1> QED BY <1>5, <1>8, <1>11, <1>12 DEF Names, all

-----------------------------------------------------------------------------
(***************************************************************************)
(* The order book in messages.                                             *)
(***************************************************************************)
\* Sequences, of whatever.
IsSeq(s) == s \in Seq({s[i] : i \in DOMAIN s})

\* A sequence over some set is one over its own elements.
LEMMA SeqIsSeq ==
  ASSUME NEW S, NEW s \in Seq(S)
  PROVE  IsSeq(s) /\ Len(s) \in Nat /\ DOMAIN s = 1 .. Len(s) /\ s = [i \in 1 .. Len(s) |-> s[i]]
BY DEF IsSeq

\* A list is a sequence.
LEMMA ListIsSeq ==
  ASSUME NEW n \in Nat, NEW s, s = [i \in 1 .. n |-> s[i]]
  PROVE  IsSeq(s) /\ Len(s) = n /\ DOMAIN s = 1 .. n
<1>1. s \in Seq({s[i] : i \in 1 .. n})
  OBVIOUS
<1> QED BY <1>1 DEF IsSeq

\* Rows are pairs of texts.
ArePairs(rows) ==
  /\ Len(rows) \in Nat /\ DOMAIN rows = 1 .. Len(rows) /\ rows \in Seq({rows[i] : i \in DOMAIN rows})
  /\ \A i \in DOMAIN rows : \E x, y : rows[i] = <<x, y>>

\* The calls for the rows of a side.
AreUpdates(cs, side, rows) ==
  /\ ArePairs(rows) /\ IsSeq(cs) /\ DOMAIN cs = DOMAIN rows
  /\ \A i \in DOMAIN rows : cs[i] = UpdateBook(side, rows[i])

\* The asks and the bids of a message are rows for its levels.
LEMMA SidesOfAMessage ==
  ASSUME NEW v, NEW levels \in SUBSET Levels,
         NEW asks, asks = Rows(v, levels, "ASK"), NEW bids, bids = Rows(v, levels, "BID"),
         NEW a, a = Updates("ASK", asks), NEW b, b = Updates("BID", bids)
  PROVE  /\ Names(a \o b, v, levels) /\ Names(Alternately(a, b), v, levels) /\ AsksFirst(a \o b)
         /\ AreUpdates(a, "ASK", asks) /\ AreUpdates(b, "BID", bids)
<1> DEFINE A == {level \in levels : level[1] = "ASK"}
           B == {level \in levels : level[1] = "BID"}
<1>1. PICK prices : PricesOf(prices, "ASK", levels) /\ asks = RowsAt(v, prices, "ASK")
  BY RowsList
<1>2. PICK others : PricesOf(others, "BID", levels) /\ bids = RowsAt(v, others, "BID")
  BY RowsList
<1>3. Names(a, v, A) /\ \A i \in DOMAIN a : a[i].entry.side = "ASK"
  <2>1. /\ Names(Updates("ASK", RowsAt(v, prices, "ASK")), v, {level \in levels : level[1] = "ASK"})
        /\ \A i \in DOMAIN Updates("ASK", RowsAt(v, prices, "ASK")) :
             Updates("ASK", RowsAt(v, prices, "ASK"))[i].entry.side = "ASK"
    BY <1>1, UpdatesOfASide, ZenonT(30)
  <2>2. a = Updates("ASK", RowsAt(v, prices, "ASK"))
    BY <1>1, Zenon
  <2> QED BY <2>1, <2>2, Zenon
<1>4. Names(b, v, B) /\ \A i \in DOMAIN b : b[i].entry.side = "BID"
  <2>1. /\ Names(Updates("BID", RowsAt(v, others, "BID")), v, {level \in levels : level[1] = "BID"})
        /\ \A i \in DOMAIN Updates("BID", RowsAt(v, others, "BID")) :
             Updates("BID", RowsAt(v, others, "BID"))[i].entry.side = "BID"
    BY <1>2, UpdatesOfASide, ZenonT(30)
  <2>2. b = Updates("BID", RowsAt(v, others, "BID"))
    BY <1>2, Zenon
  <2> QED BY <2>1, <2>2, Zenon
<1>5. A \cap B = {} /\ A \cup B = levels /\ A \in SUBSET Levels /\ B \in SUBSET Levels
  BY DEF Levels
<1>6. a \in Seq({UpdateCall(v, level) : level \in A}) /\ b \in Seq({UpdateCall(v, level) : level \in B})
  BY <1>3, <1>4 DEF Names
<1> HIDE DEF A, B
<1>7. Names(a \o b, v, levels) /\ Names(Alternately(a, b), v, levels)
  <2>1. Names(a \o b, v, A \cup B)
    BY <1>3, <1>4, <1>5, OneSideThenTheOther
  <2>2. Names(Alternately(a, b), v, A \cup B)
    BY <1>3, <1>4, <1>5, SidesByTurns
  <2> QED BY <1>5, <2>1, <2>2
<1>8. AsksFirst(a \o b)
  BY <1>3, <1>4, <1>6, AsksThenBids
<1>9. ArePairs(asks) /\ ArePairs(bids)
  <2>1. ASSUME NEW ps \in Seq(Prices), NEW side
        PROVE  ArePairs(RowsAt(v, ps, side))
    <3> DEFINE rows == RowsAt(v, ps, side)
    <3>1. DOMAIN rows = DOMAIN ps /\ \A i \in DOMAIN ps : rows[i] = <<Text(ps[i]), Text(books[v][<<side, ps[i]>>])>>
      BY DEF RowsAt
    <3>2. rows = [i \in 1 .. Len(ps) |-> rows[i]] /\ Len(ps) \in Nat
      BY DEF RowsAt
    <3> HIDE DEF rows
    <3>3. Len(rows) \in Nat /\ DOMAIN rows = 1 .. Len(rows) /\ rows \in Seq({rows[i] : i \in DOMAIN rows})
      BY <3>2
    <3>4. ArePairs(rows)
      BY <3>1, <3>3 DEF ArePairs
    <3> QED BY <3>4 DEF rows
  <2> QED BY <1>1, <1>2, <2>1 DEF PricesOf
<1>10. /\ DOMAIN a = DOMAIN asks /\ \A i \in DOMAIN asks : a[i] = UpdateBook("ASK", asks[i])
       /\ DOMAIN b = DOMAIN bids /\ \A i \in DOMAIN bids : b[i] = UpdateBook("BID", bids[i])
  <2>1. a = [i \in DOMAIN asks |-> UpdateBook("ASK", asks[i])]
    BY Zenon DEF Updates, Each
  <2>2. b = [i \in DOMAIN bids |-> UpdateBook("BID", bids[i])]
    BY Zenon DEF Updates, Each
  <2> QED BY <2>1, <2>2
<1>11. IsSeq(a) /\ IsSeq(b)
  BY <1>6, SeqIsSeq
<1> QED BY <1>7, <1>8, <1>9, <1>10, <1>11 DEF AreUpdates

\* Whatever the exchange, the calls for an update are those of its asks and its bids.
LevelsIn(m) == IF m.type = "snapshot" THEN OfBook(m.to) ELSE Touched(m.from, m.to)

\* binance_websocket_stream reads the asks, then the bids.
LEMMA BinanceReads ==
  ASSUME NEW m, kind = "binance",
         NEW asks, asks = Rows(m.to, LevelsIn(m), "ASK"), NEW bids, bids = Rows(m.to, LevelsIn(m), "BID")
  PROVE  Calls(BookJson(m)) = Updates("ASK", asks) \o Updates("BID", bids) /\ BookJson(m).u = m.to
<1> DEFINE json == BookJson(m)
           name == Named(BookPair)
<1>1. json = [e |-> "depthUpdate", s |-> name, u |-> m.to, a |-> asks, b |-> bids]
  BY Zenon DEF BookJson, LevelsIn
<1>2. Calls(json) = binance_calls(json)
  BY Zenon DEF Calls
<1> HIDE DEF json, name
<1>3. json.e = "depthUpdate" /\ json.u = m.to /\ json.a = asks /\ json.b = bids
  BY <1>1
<1>4. binance_calls(json) = Updates("ASK", json.a) \o Updates("BID", json.b)
  BY <1>3, Zenon DEF binance_calls
<1> QED BY <1>2, <1>3, <1>4 DEF json

\* bybit_websocket_stream reads a snapshot, or an ask and a bid by turns.
LEMMA BybitReads ==
  ASSUME NEW m, kind = "bybit",
         NEW asks, asks = Rows(m.to, LevelsIn(m), "ASK"), NEW bids, bids = Rows(m.to, LevelsIn(m), "BID")
  PROVE  Calls(BookJson(m)) = IF m.type = "snapshot" THEN create_order_book_cache(asks, bids)
                              ELSE Alternately(Updates("ASK", asks), Updates("BID", bids))
<1> DEFINE json == BookJson(m)
           name == Named(BookPair)
           snap == m.type = "snapshot"
<1>1. json = [topic |-> "diffDepth", symbol |-> name, f |-> snap, data |-> <<[a |-> asks, b |-> bids]>>]
  BY Zenon DEF BookJson, LevelsIn
<1>2. Calls(json) = bybit_calls(json)
  BY Zenon DEF Calls
<1> HIDE DEF json, name, snap
<1>3. json.topic = "diffDepth" /\ json.f = snap /\ json.data = <<[a |-> asks, b |-> bids]>>
  BY <1>1, Zenon
<1>4. json.data[1] = [a |-> asks, b |-> bids]
  BY <1>3
<1>5. json.data[1].a = asks /\ json.data[1].b = bids
  BY <1>4
<1>6. bybit_calls(json) = IF json.f THEN create_order_book_cache(json.data[1].a, json.data[1].b)
                          ELSE Alternately(Updates("ASK", json.data[1].a), Updates("BID", json.data[1].b))
  BY <1>3, Zenon DEF bybit_calls
<1>7. bybit_calls(json) = IF snap THEN create_order_book_cache(asks, bids)
                          ELSE Alternately(Updates("ASK", asks), Updates("BID", bids))
  BY <1>3, <1>5, <1>6, Zenon
<1> QED BY <1>2, <1>7, Zenon DEF json, snap

\* coinbase_websocket_stream reads a snapshot.
LEMMA CoinbaseReadsSnapshots ==
  ASSUME NEW m, kind = "coinbase", m.type = "snapshot",
         NEW asks, asks = Rows(m.to, LevelsIn(m), "ASK"), NEW bids, bids = Rows(m.to, LevelsIn(m), "BID")
  PROVE  Calls(BookJson(m)) = create_order_book_cache(asks, bids)
<1> DEFINE json == BookJson(m)
           name == Named(BookPair)
<1>1. json = [type |-> "snapshot", product_id |-> name, asks |-> asks, bids |-> bids]
  BY Zenon DEF BookJson, LevelsIn
<1>2. Calls(json) = coinbase_calls(json)
  BY Zenon DEF Calls
<1> HIDE DEF json, name
<1>3. json.type = "snapshot" /\ json.asks = asks /\ json.bids = bids
  BY <1>1
<1>4. coinbase_calls(json) = create_order_book_cache(json.asks, json.bids)
  BY <1>3, Zenon DEF coinbase_calls
<1> QED BY <1>2, <1>3, <1>4 DEF json

\* One sequence after another.
IsJoin(st, s, t) ==
  /\ IsSeq(st)
  /\ Len(s) \in Nat /\ Len(t) \in Nat /\ DOMAIN s = 1 .. Len(s) /\ DOMAIN t = 1 .. Len(t)
  /\ Len(st) = Len(s) + Len(t) /\ DOMAIN st = 1 .. Len(s) + Len(t)
  /\ \A i \in DOMAIN s : i \in DOMAIN st /\ st[i] = s[i]
  /\ \A i \in DOMAIN t : Len(s) + i \in DOMAIN st /\ st[Len(s) + i] = t[i]

\* What there is of two sequences in their concatenation.
LEMMA Joined ==
  ASSUME NEW s, IsSeq(s), NEW t, IsSeq(t)
  PROVE  IsJoin(s \o t, s, t)
<1>1. PICK S : s \in Seq(S) /\ t \in Seq(S)
  <2> DEFINE S == {s[i] : i \in DOMAIN s}
             T == {t[i] : i \in DOMAIN t}
  <2>1. s \in Seq(S) /\ t \in Seq(T)
    BY DEF IsSeq
  <2> HIDE DEF S, T
  <2>2. s \in Seq(S \cup T) /\ t \in Seq(S \cup T)
    BY <2>1
  <2> QED BY <2>2
<1>2. /\ s \o t \in Seq(S)
      /\ Len(s \o t) = Len(s) + Len(t)
      /\ \A i \in 1 .. Len(s) + Len(t) : (s \o t)[i] = IF i <= Len(s) THEN s[i] ELSE t[i - Len(s)]
  BY <1>1, ConcatProperties
<1>3. Len(s) \in Nat /\ Len(t) \in Nat /\ DOMAIN s = 1 .. Len(s) /\ DOMAIN t = 1 .. Len(t)
  BY <1>1
<1>4. DOMAIN (s \o t) = 1 .. Len(s) + Len(t) /\ IsSeq(s \o t)
  BY <1>2, SeqIsSeq
<1>5. ASSUME NEW i \in DOMAIN s PROVE i \in DOMAIN (s \o t) /\ (s \o t)[i] = s[i]
  BY <1>2, <1>3, <1>4
<1>6. ASSUME NEW i \in DOMAIN t PROVE Len(s) + i \in DOMAIN (s \o t) /\ (s \o t)[Len(s) + i] = t[i]
  <2>1. Len(s) + i \in 1 .. Len(s) + Len(t) /\ ~ (Len(s) + i <= Len(s)) /\ (Len(s) + i) - Len(s) = i
    BY <1>3
  <2>2. (s \o t)[Len(s) + i] = t[(Len(s) + i) - Len(s)]
    BY <1>2, <2>1
  <2> QED BY <1>4, <2>1, <2>2
<1> QED BY <1>2, <1>3, <1>4, <1>5, <1>6 DEF IsJoin

\* What is known of a concatenation determines it.
LEMMA JoinIsJoined ==
  ASSUME NEW c, IsSeq(c), NEW d, IsSeq(d), NEW r, IsJoin(r, c, d)
  PROVE  r = c \o d
<1>1. PICK cd : cd = c \o d
  OBVIOUS
<1>2. IsJoin(cd, c, d)
  BY <1>1, Joined
<1>3. PICK m, n : m = Len(c) /\ n = Len(d)
  OBVIOUS
<1>4. /\ m \in Nat /\ n \in Nat /\ DOMAIN c = 1 .. m /\ DOMAIN d = 1 .. n
      /\ IsSeq(r) /\ Len(r) = m + n /\ IsSeq(cd) /\ Len(cd) = m + n
      /\ \A i \in 1 .. m : r[i] = c[i] /\ cd[i] = c[i]
      /\ \A i \in 1 .. n : r[m + i] = d[i] /\ cd[m + i] = d[i]
  BY <1>2, <1>3 DEF IsJoin
<1>5. r = [i \in 1 .. m + n |-> r[i]] /\ cd = [i \in 1 .. m + n |-> cd[i]]
  BY <1>4, SeqIsSeq DEF IsSeq
<1>6. ASSUME NEW i \in 1 .. m + n PROVE r[i] = cd[i]
  <2>1. CASE i <= m
    BY <1>4, <2>1
  <2>2. CASE i > m
    <3>1. i - m \in 1 .. n /\ m + (i - m) = i
      BY <1>4, <2>2
    <3>2. r[m + (i - m)] = d[i - m] /\ cd[m + (i - m)] = d[i - m]
      BY <1>4, <3>1
    <3> QED BY <3>1, <3>2
  <2> QED BY <1>4, <2>1, <2>2
<1> QED BY <1>1, <1>5, <1>6

\* A change of coinbase_websocket_stream is its word and its row.
LEMMA WordAndRow ==
  ASSUME NEW word, NEW x, NEW y
  PROVE  (<<word>> \o <<x, y>>)[1] = word /\ Tail(<<word>> \o <<x, y>>) = <<x, y>>
<1> DEFINE s == <<word>>
           t == <<x, y>>
<1>1. /\ IsSeq(s) /\ IsSeq(t) /\ Len(s) = 1 /\ Len(t) = 2 /\ s[1] = word /\ t[1] = x /\ t[2] = y
      /\ 1 \in DOMAIN s /\ 1 \in DOMAIN t /\ 2 \in DOMAIN t
  BY DEF IsSeq
<1>2. PICK c : c = s \o t
  OBVIOUS
<1> HIDE DEF s, t
<1>3. /\ IsSeq(c) /\ Len(c) = Len(s) + Len(t)
      /\ \A i \in DOMAIN s : c[i] = s[i]
      /\ \A i \in DOMAIN t : c[Len(s) + i] = t[i]
  <2>1. IsJoin(c, s, t)
    BY <1>1, <1>2, Joined
  <2> QED BY <2>1 DEF IsJoin
<1>4. Len(c) = 3 /\ c[1] = word /\ c[1 + 1] = x /\ c[1 + 2] = y
  BY <1>1, <1>3
<1>5. c = <<word, x, y>>
  <2>1. c = [i \in 1 .. 3 |-> c[i]]
    <3>1. c = [i \in 1 .. Len(c) |-> c[i]]
      BY <1>3, SeqIsSeq DEF IsSeq
    <3> QED BY <1>4, <3>1
  <2>2. <<word, x, y>> = [i \in 1 .. 3 |-> <<word, x, y>>[i]]
    OBVIOUS
  <2>3. \A i \in 1 .. 3 : c[i] = <<word, x, y>>[i]
    BY <1>4
  <2> QED BY <2>1, <2>2, <2>3
<1>6. Tail(<<word, x, y>>) = <<x, y>> /\ <<word, x, y>>[1] = word
  OBVIOUS
<1> QED BY <1>2, <1>5, <1>6, Zenon DEF s, t

\* coinbase_websocket_stream reads sells and buys as asks and bids.
LEMMA CoinbaseReadsUpdates ==
  ASSUME NEW m, kind = "coinbase", m.type = "update", LevelsIn(m) \in SUBSET Levels,
         NEW asks, asks = Rows(m.to, LevelsIn(m), "ASK"), NEW bids, bids = Rows(m.to, LevelsIn(m), "BID"),
         NEW a, a = Updates("ASK", asks), NEW b, b = Updates("BID", bids)
  PROVE  Calls(BookJson(m)) = a \o b
<1> DEFINE json == BookJson(m)
           name == Named(BookPair)
           sells == Each(asks, LAMBDA row : <<"sell">> \o row)
           buys == Each(bids, LAMBDA row : <<"buy">> \o row)
           call(change) == UpdateBook(IF change[1] = "buy" THEN "BID" ELSE "ASK", Tail(change))
<1>0. m.type # "snapshot"
  OBVIOUS
<1>1. json = [type |-> "l2update", product_id |-> name, changes |-> sells \o buys]
  BY <1>0, Zenon DEF BookJson, LevelsIn
<1>2. Calls(json) = coinbase_calls(json)
  BY Zenon DEF Calls
<1>3. /\ ArePairs(asks) /\ ArePairs(bids) /\ IsSeq(a) /\ IsSeq(b)
      /\ DOMAIN a = DOMAIN asks /\ \A i \in DOMAIN asks : a[i] = UpdateBook("ASK", asks[i])
      /\ DOMAIN b = DOMAIN bids /\ \A i \in DOMAIN bids : b[i] = UpdateBook("BID", bids[i])
  <2>1. AreUpdates(a, "ASK", asks) /\ AreUpdates(b, "BID", bids)
    BY SidesOfAMessage
  <2> QED BY <2>1 DEF AreUpdates
<1>4. /\ sells = [i \in DOMAIN asks |-> <<"sell">> \o asks[i]]
      /\ buys = [i \in DOMAIN bids |-> <<"buy">> \o bids[i]]
  BY Zenon DEF Each
<1> HIDE DEF json, name, sells, buys
<1>5. json.type = "l2update" /\ json.changes = sells \o buys
  BY <1>1
<1>6. coinbase_calls(json) = [i \in DOMAIN (sells \o buys) |-> call((sells \o buys)[i])]
  <2>1. coinbase_calls(json) = Each(json.changes, LAMBDA change :
           UpdateBook(IF change[1] = "buy" THEN "BID" ELSE "ASK", Tail(change)))
    BY <1>5, Zenon DEF coinbase_calls
  <2> QED BY <1>5, <2>1, Zenon DEF Each
<1>7. /\ IsSeq(sells) /\ Len(sells) = Len(asks) /\ Len(a) = Len(asks)
      /\ IsSeq(buys) /\ Len(buys) = Len(bids) /\ Len(b) = Len(bids)
      /\ DOMAIN sells = DOMAIN asks /\ DOMAIN buys = DOMAIN bids /\ Len(sells) \in Nat /\ Len(buys) \in Nat
      /\ DOMAIN asks = 1 .. Len(asks) /\ DOMAIN bids = 1 .. Len(bids)
  <2>1. Len(asks) \in Nat /\ DOMAIN asks = 1 .. Len(asks) /\ Len(bids) \in Nat /\ DOMAIN bids = 1 .. Len(bids)
    BY <1>3 DEF ArePairs
  <2>2. sells = [i \in 1 .. Len(asks) |-> sells[i]] /\ buys = [i \in 1 .. Len(bids) |-> buys[i]]
    BY <1>4, <2>1
  <2>3. Len(sells) = Len(asks) /\ IsSeq(sells)
    BY <2>1, <2>2, ListIsSeq
  <2>4. Len(buys) = Len(bids) /\ IsSeq(buys)
    BY <2>1, <2>2, ListIsSeq
  <2>5. Len(a) = Len(asks) /\ Len(b) = Len(bids)
    BY <1>3, <2>1
  <2> QED BY <1>4, <2>1, <2>3, <2>4, <2>5
<1>8. ASSUME NEW i \in DOMAIN sells
      PROVE  call(sells[i]) = a[i]
  <2>1. PICK x, y : asks[i] = <<x, y>>
    BY <1>3, <1>7 DEF ArePairs
  <2>2. sells[i] = <<"sell">> \o <<x, y>>
    BY <1>4, <1>7, <2>1
  <2>3. sells[i][1] = "sell" /\ Tail(sells[i]) = <<x, y>>
    <3>1. (<<"sell">> \o <<x, y>>)[1] = "sell" /\ Tail(<<"sell">> \o <<x, y>>) = <<x, y>>
      BY WordAndRow, Zenon
    <3> QED BY <2>2, <3>1, Zenon
  <2>4. sells[i][1] = "sell" /\ Tail(sells[i]) = asks[i]
    BY <2>1, <2>3, Zenon
  <2> QED BY <1>3, <1>7, <2>4, ZenonT(30)
<1>9. ASSUME NEW i \in DOMAIN buys
      PROVE  call(buys[i]) = b[i]
  <2>1. PICK x, y : bids[i] = <<x, y>>
    BY <1>3, <1>7 DEF ArePairs
  <2>2. buys[i] = <<"buy">> \o <<x, y>>
    BY <1>4, <1>7, <2>1
  <2>3. buys[i][1] = "buy" /\ Tail(buys[i]) = <<x, y>>
    <3>1. (<<"buy">> \o <<x, y>>)[1] = "buy" /\ Tail(<<"buy">> \o <<x, y>>) = <<x, y>>
      BY WordAndRow, Zenon
    <3> QED BY <2>2, <3>1, Zenon
  <2>4. buys[i][1] = "buy" /\ Tail(buys[i]) = bids[i]
    BY <2>1, <2>3, Zenon
  <2> QED BY <1>3, <1>7, <2>4, ZenonT(30)
<1> HIDE DEF call
<1>10. PICK r : r = [i \in DOMAIN (sells \o buys) |-> call((sells \o buys)[i])]
  OBVIOUS
<1>11. /\ \A i \in DOMAIN sells : i \in DOMAIN (sells \o buys) /\ (sells \o buys)[i] = sells[i]
       /\ \A i \in DOMAIN buys : Len(sells) + i \in DOMAIN (sells \o buys) /\ (sells \o buys)[Len(sells) + i] = buys[i]
  <2>1. IsJoin(sells \o buys, sells, buys)
    BY <1>7, Joined
  <2> QED BY <2>1 DEF IsJoin
<1>12. /\ \A i \in DOMAIN sells : r[i] = a[i]
       /\ \A i \in DOMAIN buys : r[Len(sells) + i] = b[i]
  BY <1>8, <1>9, <1>10, <1>11
<1>13. r = a \o b
  <2>1. PICK w, v : w = Len(sells) /\ v = Len(buys)
    OBVIOUS
  <2>2. w \in Nat /\ v \in Nat /\ DOMAIN (sells \o buys) = 1 .. w + v
    <3>1. IsJoin(sells \o buys, sells, buys)
      BY <1>7, Joined
    <3> QED BY <2>1, <3>1 DEF IsJoin
  <2>3. r = [i \in 1 .. w + v |-> r[i]]
    BY <1>10, <2>2
  <2>4. w + v \in Nat
    BY <2>2
  <2>5. IsSeq(r) /\ Len(r) = w + v /\ DOMAIN r = 1 .. w + v
    BY <2>3, <2>4, ListIsSeq
  <2>6. /\ Len(a) = w /\ Len(b) = v /\ DOMAIN a = 1 .. w /\ DOMAIN b = 1 .. v
        /\ DOMAIN sells = 1 .. w /\ DOMAIN buys = 1 .. v
    BY <1>3, <1>7, <2>1
  <2>7. IsJoin(r, a, b)
    <3>1. /\ \A i \in 1 .. w : i \in 1 .. w + v /\ r[i] = a[i]
          /\ \A i \in 1 .. v : w + i \in 1 .. w + v /\ r[w + i] = b[i]
      <4>1. \A i \in 1 .. w : r[i] = a[i]
        BY <1>12, <2>6
      <4>2. \A i \in 1 .. v : r[w + i] = b[i]
        BY <1>12, <2>1, <2>6
      <4> QED BY <2>2, <4>1, <4>2
    <3> QED BY <2>2, <2>5, <2>6, <3>1 DEF IsJoin
  <2> QED BY <1>3, <2>7, JoinIsJoined
<1> QED BY <1>2, <1>6, <1>10, <1>13 DEF json

\* The arrays of kraken_websocket_stream.
LEMMA ShortTuples ==
  ASSUME NEW a, NEW b, NEW c, NEW d, NEW e
  PROVE  /\ IsSeq(<<a>>) /\ IsSeq(<<a, b>>) /\ IsSeq(<<a, b, c>>) /\ IsSeq(<<a, b, c, d>>) /\ IsSeq(<<a, b, c, d, e>>)
<1>1. IsSeq(<<a>>) /\ IsSeq(<<a, b>>)
  BY DEF IsSeq
<1>2. IsSeq(<<a, b, c>>)
  BY DEF IsSeq
<1>3. IsSeq(<<a, b, c, d>>)
  BY DEF IsSeq
<1>4. IsSeq(<<a, b, c, d, e>>)
  BY DEF IsSeq
<1> QED BY <1>1, <1>2, <1>3, <1>4

\* Concatenations of short tuples.
LEMMA JoinedOfTwo ==
  ASSUME NEW a, NEW b
  PROVE  <<a>> \o <<b>> = <<a, b>>
<1>1. IsJoin(<<a, b>>, <<a>>, <<b>>)
  <2>1. IsSeq(<<a, b>>)
    BY ShortTuples
  <2>2. PICK ab, s, t : ab = <<a, b>> /\ s = <<a>> /\ t = <<b>>
    OBVIOUS
  <2>3. /\ Len(ab) = 2 /\ Len(s) = 1 /\ Len(t) = 1 /\ DOMAIN ab = 1 .. 2 /\ DOMAIN s = {1} /\ DOMAIN t = {1}
        /\ 1 .. 1 = {1} /\ ab[1] = a /\ ab[1 + 1] = b /\ s[1] = a /\ t[1] = b
    BY <2>2
  <2>4. IsSeq(ab)
    BY <2>1, <2>2, Zenon
  <2>5. IsJoin(ab, s, t)
    BY <2>3, <2>4 DEF IsJoin
  <2> QED BY <2>2, <2>5, Zenon
<1> QED BY <1>1, ShortTuples, JoinIsJoined

\* Concatenations of short tuples.
LEMMA JoinedOfThree ==
  ASSUME NEW a, NEW b, NEW c
  PROVE  <<a>> \o <<b, c>> = <<a, b, c>>
<1>1. IsJoin(<<a, b, c>>, <<a>>, <<b, c>>)
  <2>1. IsSeq(<<a, b, c>>)
    BY ShortTuples
  <2> QED BY <2>1 DEF IsJoin
<1> QED BY <1>1, ShortTuples, JoinIsJoined

\* Concatenations of short tuples.
LEMMA JoinedOfFour ==
  ASSUME NEW a, NEW b, NEW c, NEW d
  PROVE  <<a, b>> \o <<c, d>> = <<a, b, c, d>>
<1>1. IsJoin(<<a, b, c, d>>, <<a, b>>, <<c, d>>)
  <2>1. IsSeq(<<a, b, c, d>>)
    BY ShortTuples
  <2> QED BY <2>1 DEF IsJoin
<1> QED BY <1>1, ShortTuples, JoinIsJoined

\* Concatenations of short tuples.
LEMMA JoinedOfFive ==
  ASSUME NEW a, NEW b, NEW c, NEW d, NEW e
  PROVE  <<a, b, c>> \o <<d, e>> = <<a, b, c, d, e>>
<1>1. IsJoin(<<a, b, c, d, e>>, <<a, b, c>>, <<d, e>>)
  <2>1. IsSeq(<<a, b, c, d, e>>)
    BY ShortTuples
  <2> QED BY <2>1 DEF IsJoin
<1> QED BY <1>1, ShortTuples, JoinIsJoined

\* Kraken's messages have four elements, or five when both sides changed.
LEMMA KrakenArrays ==
  ASSUME NEW x, NEW y, NEW c, NEW n
  PROVE  /\ <<7>> \o <<x>> \o <<c, n>> = <<7, x, c, n>>
         /\ <<7>> \o (<<x>> \o <<y>>) \o <<c, n>> = <<7, x, y, c, n>>
<1>1. <<7>> \o <<x>> = <<7, x>>
  BY JoinedOfTwo, Zenon
<1>2. <<7, x>> \o <<c, n>> = <<7, x, c, n>>
  BY JoinedOfFour, Zenon
<1>3. <<x>> \o <<y>> = <<x, y>>
  BY JoinedOfTwo, Zenon
<1>4. <<7>> \o <<x, y>> = <<7, x, y>>
  BY JoinedOfThree, Zenon
<1>5. <<7, x, y>> \o <<c, n>> = <<7, x, y, c, n>>
  BY JoinedOfFive, Zenon
<1>6. <<7>> \o <<x>> \o <<c, n>> = <<7, x, c, n>>
  BY <1>1, <1>2, Zenon
<1>7. <<7>> \o (<<x>> \o <<y>>) \o <<c, n>> = <<7, x, y, c, n>>
  BY <1>3, <1>4, <1>5, Zenon
<1> QED BY <1>6, <1>7

\* What kraken_websocket_stream makes of an array of a book.
LEMMA KrakenReadsFour ==
  ASSUME NEW json, NEW x, NEW n, json.array = <<7, x, <<"book", 100>>, n>>
  PROVE  kraken_calls(json) = IF "as" \in DOMAIN x THEN create_order_book_cache(x.as, x.bs)
                              ELSE process_order_book_updates(x)
<1>1. PICK c : c = <<"book", 100>>
  OBVIOUS
<1>2. c[1] = "book"
  BY <1>1
<1>3. PICK array : array = json.array
  OBVIOUS
<1>4. array = <<7, x, c, n>>
  BY <1>1, <1>3, Zenon
<1>5. Len(array) = 4 /\ array[2] = x /\ array[3] = c
  BY <1>4, FourFields
<1>6. array[Len(array) - 1] = c
  <2>1. Len(array) - 1 = 3
    BY <1>5
  <2> QED BY <1>5, <2>1, Zenon
<1>7. kraken_calls(json) = kraken_book_calls(array)
  BY <1>2, <1>3, <1>6, Zenon DEF kraken_calls
<1>8. kraken_book_calls(array) = IF "as" \in DOMAIN x THEN create_order_book_cache(x.as, x.bs)
                                 ELSE process_order_book_updates(x)
  BY <1>5, Zenon DEF kraken_book_calls
<1> QED BY <1>7, <1>8, Zenon

\* Both sides of the book.
LEMMA KrakenReadsFive ==
  ASSUME NEW json, NEW x, NEW y, NEW n, json.array = <<7, x, y, <<"book", 100>>, n>>
  PROVE  kraken_calls(json) = process_order_book_updates(x) \o process_order_book_updates(y)
<1>1. PICK c : c = <<"book", 100>>
  OBVIOUS
<1>2. c[1] = "book"
  BY <1>1
<1>3. PICK array : array = json.array
  OBVIOUS
<1>4. array = <<7, x, y, c, n>>
  BY <1>1, <1>3, Zenon
<1>5. Len(array) = 5 /\ array[2] = x /\ array[3] = y /\ array[4] = c
  BY <1>4
<1>6. array[Len(array) - 1] = c /\ Len(array) # 4
  <2>1. Len(array) - 1 = 4 /\ Len(array) # 4
    BY <1>5
  <2> QED BY <1>5, <2>1, Zenon
<1>7. kraken_calls(json) = kraken_book_calls(array)
  BY <1>2, <1>3, <1>6, Zenon DEF kraken_calls
<1>8. kraken_book_calls(array) = process_order_book_updates(x) \o process_order_book_updates(y)
  BY <1>5, <1>6, Zenon DEF kraken_book_calls
<1> QED BY <1>7, <1>8, Zenon

\* kraken_websocket_stream reads a snapshot.
LEMMA KrakenReadsSnapshots ==
  ASSUME NEW m, kind = "kraken", m.type = "snapshot",
         NEW asks, asks = Rows(m.to, LevelsIn(m), "ASK"), NEW bids, bids = Rows(m.to, LevelsIn(m), "BID")
  PROVE  Calls(BookJson(m)) = create_order_book_cache(asks, bids)
<1> DEFINE json == BookJson(m)
           name == Named(BookPair)
           both == [as |-> asks, bs |-> bids]
<1>1. json = [array |-> <<7>> \o <<both>> \o << <<"book", 100>>, name>>]
  BY Zenon DEF BookJson, LevelsIn
<1>2. Calls(json) = kraken_calls(json)
  BY Zenon DEF Calls
<1>3. both.as = asks /\ both.bs = bids /\ "as" \in DOMAIN both
  OBVIOUS
<1> HIDE DEF json, name, both
<1>4. json.array = <<7>> \o <<both>> \o << <<"book", 100>>, name>>
  BY <1>1
<1>5. <<7>> \o <<both>> \o << <<"book", 100>>, name>> = <<7, both, <<"book", 100>>, name>>
  BY KrakenArrays, Zenon
<1>6. json.array = <<7, both, <<"book", 100>>, name>>
  BY <1>4, <1>5, Zenon
<1>7. kraken_calls(json) = create_order_book_cache(both.as, both.bs)
  BY <1>3, <1>6, KrakenReadsFour, Zenon
<1> QED BY <1>2, <1>3, <1>7 DEF json

\* kraken_websocket_stream reads the asks, then the bids, of whichever there are.
LEMMA KrakenReadsUpdates ==
  ASSUME NEW m, kind = "kraken", m.type = "update",
         NEW asks, asks = Rows(m.to, LevelsIn(m), "ASK"), NEW bids, bids = Rows(m.to, LevelsIn(m), "BID"),
         asks # <<>> \/ bids # <<>>,
         NEW a, a = Updates("ASK", asks), NEW b, b = Updates("BID", bids), IsSeq(a), IsSeq(b)
  PROVE  Calls(BookJson(m)) = a \o b
<1> DEFINE json == BookJson(m)
           name == Named(BookPair)
           ra == [a |-> asks]
           rb == [b |-> bids]
           parts == (IF asks = <<>> THEN <<>> ELSE <<ra>>) \o (IF bids = <<>> THEN <<>> ELSE <<rb>>)
<1>0. m.type # "snapshot"
  OBVIOUS
<1>1. json = [array |-> <<7>> \o parts \o << <<"book", 100>>, name>>]
  BY <1>0, Zenon DEF BookJson, LevelsIn
<1>2. Calls(json) = kraken_calls(json)
  BY Zenon DEF Calls
<1>3. ra.a = asks /\ "a" \in DOMAIN ra /\ "as" \notin DOMAIN ra /\ rb.b = bids /\ "a" \notin DOMAIN rb /\ "as" \notin DOMAIN rb
  OBVIOUS
<1>4. process_order_book_updates(ra) = a /\ process_order_book_updates(rb) = b
  <2> HIDE DEF ra, rb
  <2> QED BY <1>3, Zenon DEF process_order_book_updates
<1> HIDE DEF json, name, ra, rb
<1>5. json.array = <<7>> \o parts \o << <<"book", 100>>, name>>
  <2> HIDE DEF parts
  <2> QED BY <1>1
<1>6. CASE asks # <<>> /\ bids # <<>>
  <2>1. parts = <<ra>> \o <<rb>>
    BY <1>6, Zenon
  <2>2. <<7>> \o (<<ra>> \o <<rb>>) \o << <<"book", 100>>, name>> = <<7, ra, rb, <<"book", 100>>, name>>
    BY KrakenArrays, Zenon
  <2> HIDE DEF parts
  <2>3. json.array = <<7, ra, rb, <<"book", 100>>, name>>
    BY <1>5, <2>1, <2>2, Zenon
  <2>4. kraken_calls(json) = process_order_book_updates(ra) \o process_order_book_updates(rb)
    BY <2>3, KrakenReadsFive, Zenon
  <2> QED BY <1>2, <1>4, <2>4, Zenon DEF json
<1>7. ASSUME NEW x, parts = <<x>>, "as" \notin DOMAIN x, process_order_book_updates(x) = a \o b
      PROVE  Calls(BookJson(m)) = a \o b
  <2> HIDE DEF parts
  <2>1. <<7>> \o <<x>> \o << <<"book", 100>>, name>> = <<7, x, <<"book", 100>>, name>>
    BY KrakenArrays, Zenon
  <2>2. json.array = <<7, x, <<"book", 100>>, name>>
    BY <1>5, <1>7, <2>1, Zenon
  <2>3. kraken_calls(json) = IF "as" \in DOMAIN x THEN create_order_book_cache(x.as, x.bs)
                             ELSE process_order_book_updates(x)
    BY <2>2, KrakenReadsFour, Zenon
  <2> QED BY <1>2, <1>7, <2>3, Zenon DEF json
<1>8. CASE asks # <<>> /\ bids = <<>>
  <2>1. parts = <<ra>> \o <<>>
    BY <1>8, Zenon
  <2>2. <<ra>> \o <<>> = <<ra>>
    <3>1. <<ra>> \in Seq({ra})
      OBVIOUS
    <3> QED BY <3>1, ConcatEmptySeq
  <2>3. b = <<>>
    <3>1. b = [i \in DOMAIN bids |-> UpdateBook("BID", bids[i])]
      BY Zenon DEF Updates, Each
    <3> QED BY <1>8, <3>1
  <2>4. a \o <<>> = a
    BY ConcatEmptySeq DEF IsSeq
  <2> HIDE DEF parts
  <2>5. parts = <<ra>> /\ process_order_book_updates(ra) = a \o b
    BY <1>4, <2>1, <2>2, <2>3, <2>4, Zenon
  <2> QED BY <1>3, <1>7, <2>5
<1>9. CASE asks = <<>> /\ bids # <<>>
  <2>1. parts = <<>> \o <<rb>>
    BY <1>9, Zenon
  <2>2. <<>> \o <<rb>> = <<rb>>
    <3>1. <<rb>> \in Seq({rb})
      OBVIOUS
    <3> QED BY <3>1, ConcatEmptySeq
  <2>3. a = <<>>
    <3>1. a = [i \in DOMAIN asks |-> UpdateBook("ASK", asks[i])]
      BY Zenon DEF Updates, Each
    <3> QED BY <1>9, <3>1
  <2>4. <<>> \o b = b
    BY ConcatEmptySeq DEF IsSeq
  <2> HIDE DEF parts
  <2>5. parts = <<rb>> /\ process_order_book_updates(rb) = a \o b
    BY <1>4, <2>1, <2>2, <2>3, <2>4, Zenon
  <2> QED BY <1>3, <1>7, <2>5
<1> QED BY <1>6, <1>8, <1>9

\* An update, whatever the exchange, becomes one call for each of its levels.
LEMMA UpdateIsRead ==
  ASSUME kind \in BookKinds, NEW m, m.type = "update",
         Touched(m.from, m.to) # {}
  PROVE  /\ Names(Calls(BookJson(m)), m.to, Touched(m.from, m.to))
         /\ kind \in {"binance", "kraken"} => AsksFirst(Calls(BookJson(m)))
         /\ kind = "binance" => BookJson(m).u = m.to
<1>1. PICK levels : levels = Touched(m.from, m.to)
  OBVIOUS
<1>2. levels \in SUBSET Levels /\ levels # {} /\ LevelsIn(m) = levels
  BY <1>1 DEF Touched, LevelsIn
<1>3. PICK asks, bids : asks = Rows(m.to, levels, "ASK") /\ bids = Rows(m.to, levels, "BID")
  OBVIOUS
<1>4. PICK a, b : a = Updates("ASK", asks) /\ b = Updates("BID", bids)
  OBVIOUS
<1>5. /\ Names(a \o b, m.to, levels) /\ Names(Alternately(a, b), m.to, levels) /\ AsksFirst(a \o b)
      /\ AreUpdates(a, "ASK", asks) /\ AreUpdates(b, "BID", bids)
  BY <1>2, <1>3, <1>4, SidesOfAMessage
<1>6. asks = Rows(m.to, LevelsIn(m), "ASK") /\ bids = Rows(m.to, LevelsIn(m), "BID") /\ LevelsIn(m) \in SUBSET Levels
  BY <1>2, <1>3
<1>7. CASE kind = "binance"
  <2>1. Calls(BookJson(m)) = a \o b /\ BookJson(m).u = m.to
    BY <1>4, <1>6, <1>7, BinanceReads
  <2> QED BY <1>1, <1>5, <2>1
<1>8. CASE kind = "bybit"
  <2>1. Calls(BookJson(m)) = IF m.type = "snapshot" THEN create_order_book_cache(asks, bids)
                             ELSE Alternately(a, b)
    BY <1>4, <1>6, <1>8, BybitReads, Zenon
  <2>2. Calls(BookJson(m)) = Alternately(a, b)
    BY <2>1
  <2> QED BY <1>1, <1>5, <1>8, <2>2
<1>9. CASE kind = "coinbase"
  <2>1. Calls(BookJson(m)) = a \o b
    BY <1>4, <1>6, <1>9, CoinbaseReadsUpdates
  <2> QED BY <1>1, <1>5, <1>9, <2>1
<1>10. CASE kind = "kraken"
  <2>1. asks # <<>> \/ bids # <<>>
    <3> SUFFICES ASSUME asks = <<>>, bids = <<>> PROVE FALSE
      OBVIOUS
    <3>1. DOMAIN a = {} /\ DOMAIN b = {} /\ IsSeq(a) /\ IsSeq(b)
      BY <1>5 DEF AreUpdates
    <3>2. a = <<>> /\ b = <<>>
      BY <3>1 DEF IsSeq
    <3>3. a \o b = <<>>
      BY <3>2
    <3>4. PICK level : level \in levels
      BY <1>2
    <3>5. \E i \in DOMAIN (a \o b) : (a \o b)[i] = UpdateCall(m.to, level)
      BY <1>5, <3>4 DEF Names
    <3> QED BY <3>3, <3>5
  <2>2. IsSeq(a) /\ IsSeq(b)
    BY <1>5 DEF AreUpdates
  <2>3. Calls(BookJson(m)) = a \o b
    BY <1>4, <1>6, <1>10, <2>1, <2>2, KrakenReadsUpdates
  <2> QED BY <1>1, <1>5, <1>10, <2>3
<1> QED BY <1>7, <1>8, <1>9, <1>10 DEF BookKinds

\* A snapshot, whatever the exchange, becomes the exchange's book.
LEMMA VolumeIsRead ==
  ASSUME NEW v, NEW side \in {"ASK", "BID"}, NEW p \in Prices,
         NEW rows, rows = Rows(v, OfBook(v), side),
         NEW entries, entries = [i \in DOMAIN rows |-> create_order_book_entry(side, rows[i])]
  PROVE  VolumeIn(entries, p) = books[v][<<side, p>>]
<1>1. PICK prices : PricesOf(prices, side, OfBook(v)) /\ rows = RowsAt(v, prices, side)
  BY RowsList
<1>2. DOMAIN entries = DOMAIN prices /\ \A i \in DOMAIN prices : entries[i] = Entry(prices[i], books[v][<<side, prices[i]>>], side)
  <2>1. DOMAIN rows = DOMAIN prices
        /\ \A i \in DOMAIN prices : rows[i] = <<Text(prices[i]), Text(books[v][<<side, prices[i]>>])>>
    BY <1>1 DEF RowsAt
  <2>2. ASSUME NEW i \in DOMAIN prices
        PROVE  entries[i] = Entry(prices[i], books[v][<<side, prices[i]>>], side)
    <3>1. create_order_book_entry(side, <<Text(prices[i]), Text(books[v][<<side, prices[i]>>])>>)
            = Entry(prices[i], books[v][<<side, prices[i]>>], side)
      BY RowIsRead, Zenon
    <3> QED BY <2>1, <3>1
  <2> QED BY <2>1, <2>2
<1>3. \A i \in DOMAIN prices : entries[i].price = prices[i] /\ entries[i].volume = books[v][<<side, prices[i]>>]
  BY <1>2 DEF Entry
<1>4. \A e : e \in ToSet(entries) <=> \E i \in DOMAIN prices : e = entries[i]
  <2>1. ToSet(entries) = {entries[i] : i \in DOMAIN prices}
    BY <1>2 DEF ToSet
  <2> QED BY <2>1
<1>5. \A q \in Prices : <<side, q>> \in OfBook(v) <=> \E i \in DOMAIN prices : prices[i] = q
  BY <1>1 DEF PricesOf
<1>6. CASE <<side, p>> \in OfBook(v)
  <2>1. \E e \in ToSet(entries) : e.price = p
    <3>1. PICK i \in DOMAIN prices : prices[i] = p
      BY <1>5, <1>6
    <3>2. entries[i] \in ToSet(entries) /\ entries[i].price = p
      BY <1>3, <1>4, <3>1
    <3> QED BY <3>2
  <2>2. PICK e : e = CHOOSE x \in ToSet(entries) : x.price = p
    OBVIOUS
  <2>3. e \in ToSet(entries) /\ e.price = p
    BY <2>1, <2>2, Zenon
  <2>4. VolumeIn(entries, p) = e.volume
    BY <2>1, <2>2, Zenon DEF VolumeIn
  <2>5. e.volume = books[v][<<side, p>>]
    <3>1. PICK i \in DOMAIN prices : e = entries[i]
      BY <1>4, <2>3
    <3>2. prices[i] = p
      BY <1>3, <2>3, <3>1
    <3> QED BY <1>3, <3>1, <3>2
  <2> QED BY <2>4, <2>5
<1>7. CASE <<side, p>> \notin OfBook(v)
  <2>1. ~ \E e \in ToSet(entries) : e.price = p
    <3> SUFFICES ASSUME NEW e, e \in ToSet(entries), e.price = p PROVE FALSE
      OBVIOUS
    <3>1. PICK i \in DOMAIN prices : e = entries[i]
      BY <1>4
    <3>2. prices[i] = p
      BY <1>3, <3>1
    <3> QED BY <1>5, <1>7, <3>2
  <2>2. VolumeIn(entries, p) = 0
    BY <2>1, Zenon DEF VolumeIn
  <2>3. <<side, p>> \in Levels
    BY DEF Levels
  <2>4. books[v][<<side, p>>] = 0
    BY <1>7, <2>3 DEF OfBook
  <2> QED BY <2>2, <2>4
<1> QED BY <1>6, <1>7

\* initialise_order_book of a snapshot is the book that the exchange had.
LEMMA SnapshotIsRead ==
  ASSUME kind \in BookKinds, kind # "binance", NEW m, m.type = "snapshot", books[m.to] \in Book,
         NEW c, c = Calls(BookJson(m))[1]
  PROVE  /\ c.call = "initialise_order_book"
         /\ initialise_order_book(c) <=> (known' = TRUE /\ cache' = books[m.to])
<1>1. PICK asks, bids : asks = Rows(m.to, OfBook(m.to), "ASK") /\ bids = Rows(m.to, OfBook(m.to), "BID")
  OBVIOUS
<1>2. LevelsIn(m) = OfBook(m.to)
  BY DEF LevelsIn
<1>3. asks = Rows(m.to, LevelsIn(m), "ASK") /\ bids = Rows(m.to, LevelsIn(m), "BID")
  BY <1>1, <1>2
<1>4. Calls(BookJson(m)) = create_order_book_cache(asks, bids)
  <2>1. CASE kind = "bybit"
    <3>1. Calls(BookJson(m)) = IF m.type = "snapshot" THEN create_order_book_cache(asks, bids)
                               ELSE Alternately(Updates("ASK", asks), Updates("BID", bids))
      BY <1>3, <2>1, BybitReads, Zenon
    <3> QED BY <3>1
  <2>2. CASE kind = "coinbase"
    BY <1>3, <2>2, CoinbaseReadsSnapshots
  <2>3. CASE kind = "kraken"
    BY <1>3, <2>3, KrakenReadsSnapshots
  <2> QED BY <2>1, <2>2, <2>3 DEF BookKinds
<1> DEFINE eas == [i \in DOMAIN asks |-> create_order_book_entry("ASK", asks[i])]
           ebs == [i \in DOMAIN bids |-> create_order_book_entry("BID", bids[i])]
<1>5. create_order_book_cache(asks, bids) = <<[call |-> "initialise_order_book", asks |-> eas, bids |-> ebs]>>
  BY Zenon DEF create_order_book_cache, Each
<1>6. /\ \A p \in Prices : VolumeIn(eas, p) = books[m.to][<<"ASK", p>>]
      /\ \A p \in Prices : VolumeIn(ebs, p) = books[m.to][<<"BID", p>>]
  BY <1>1, VolumeIsRead
<1> HIDE DEF eas, ebs
<1>7. c.call = "initialise_order_book" /\ c.asks = eas /\ c.bids = ebs
  BY <1>4, <1>5
<1> DEFINE read == [level \in Levels |-> VolumeIn(IF level[1] = "ASK" THEN c.asks ELSE c.bids, level[2])]
<1>8. read = books[m.to]
  <2>1. ASSUME NEW level \in Levels
        PROVE  read[level] = books[m.to][level]
    <3>1. level[2] \in Prices /\ level = <<level[1], level[2]>> /\ level[1] \in {"ASK", "BID"}
      BY DEF Levels
    <3>2. read[level] = VolumeIn(IF level[1] = "ASK" THEN c.asks ELSE c.bids, level[2])
      BY Zenon
    <3> HIDE DEF read
    <3>3. CASE level[1] = "ASK"
      BY <1>6, <1>7, <3>1, <3>2, <3>3
    <3>4. CASE level[1] # "ASK"
      BY <1>6, <1>7, <3>1, <3>2, <3>4
    <3> QED BY <3>3, <3>4
  <2>2. books[m.to] = [level \in Levels |-> books[m.to][level]]
    BY DEF Book
  <2> QED BY <2>1, <2>2
<1>9. initialise_order_book(c) <=> (known' = TRUE /\ cache' = read)
  BY Zenon DEF initialise_order_book
<1> QED BY <1>7, <1>8, <1>9

-----------------------------------------------------------------------------
(***************************************************************************)
(* The steps on the order book are StreamData's.                           *)
(***************************************************************************)
\* The level that a call of update_order_book names, and its volume.
LEMMA LevelOfACall ==
  ASSUME NEW v, NEW level \in Levels
  PROVE  /\ LevelOf(UpdateCall(v, level).entry) = level
         /\ UpdateCall(v, level).entry.volume = books[v][level]
         /\ UpdateCall(v, level).entry.side = level[1]
         /\ UpdateCall(v, level).call = "update_order_book"
<1>1. level = <<level[1], level[2]>>
  BY DEF Levels
<1>2. /\ UpdateCall(v, level).entry.side = level[1] /\ UpdateCall(v, level).entry.price = level[2]
      /\ UpdateCall(v, level).entry.volume = books[v][level]
      /\ UpdateCall(v, level).call = "update_order_book"
  BY DEF UpdateCall, Entry
<1> QED BY <1>1, <1>2 DEF LevelOf

\* The levels that calls name.
LEMMA LevelsOfCalls ==
  ASSUME NEW v, NEW levels \in SUBSET Levels, NEW cs, Names(cs, v, levels)
  PROVE  {LevelOf(cs[i].entry) : i \in DOMAIN cs} = levels
<1>1. \A i \in DOMAIN cs : \E level \in levels : cs[i] = UpdateCall(v, level)
  BY DEF Names
<1>2. \A level \in levels : \E i \in DOMAIN cs : cs[i] = UpdateCall(v, level)
  BY DEF Names
<1>3. \A level \in levels : LevelOf(UpdateCall(v, level).entry) = level
  BY LevelOfACall
<1>4. ASSUME NEW i \in DOMAIN cs PROVE LevelOf(cs[i].entry) \in levels
  BY <1>1, <1>3
<1>5. ASSUME NEW level \in levels PROVE \E i \in DOMAIN cs : LevelOf(cs[i].entry) = level
  BY <1>2, <1>3
<1> QED BY <1>4, <1>5

\* The next call applies one of the levels that are left.
AppliesNext(cs, v, levels, level) ==
  /\ level = LevelOf(Head(cs).entry)
  /\ level \in levels /\ Head(cs).entry.volume = books[v][level]
  /\ Names(Tail(cs), v, levels \ {level})
  /\ AsksFirst(cs) => /\ AsksFirst(Tail(cs))
                      /\ level[1] = "BID" => \A other \in levels : other[1] = "BID"

\* The next call applies one of the levels that are left.
LEMMA NextCallApplies ==
  ASSUME NEW v, NEW levels \in SUBSET Levels, NEW cs, Names(cs, v, levels), cs # <<>>
  PROVE  AppliesNext(cs, v, levels, LevelOf(Head(cs).entry))
<1>0. PICK level : level = LevelOf(Head(cs).entry)
  OBVIOUS
<1> DEFINE all == {UpdateCall(v, l) : l \in levels}
<1>1. /\ cs \in Seq(all)
      /\ \A l \in levels : \E i \in DOMAIN cs : cs[i] = UpdateCall(v, l)
      /\ \A i, j \in DOMAIN cs : cs[i] = cs[j] => i = j
  BY DEF Names
<1>2. \A i \in DOMAIN cs : \E l \in levels : cs[i] = UpdateCall(v, l)
  BY <1>1
<1> HIDE DEF all
<1>3. /\ Head(cs) = cs[1] /\ 1 \in DOMAIN cs
      /\ Tail(cs) \in Seq(all)
      /\ \A i \in DOMAIN Tail(cs) : i \in Nat /\ i + 1 \in DOMAIN cs /\ Tail(cs)[i] = cs[i + 1]
      /\ Len(Tail(cs)) = Len(cs) - 1
  BY <1>1, TailMembers
<1>4. PICK first \in levels : cs[1] = UpdateCall(v, first)
  BY <1>2, <1>3
<1>5. level = first /\ level \in levels /\ level \in Levels /\ Head(cs).entry.volume = books[v][level]
      /\ Head(cs).entry.side = level[1]
  BY <1>0, <1>3, <1>4, LevelOfACall
<1>6. PICK rest : rest = Tail(cs)
  OBVIOUS
<1>7. \A i \in DOMAIN cs : i \in Nat /\ i >= 1 /\ (i > 1 => i - 1 \in DOMAIN rest /\ (i - 1) + 1 = i)
  <2>1. Len(cs) \in Nat /\ DOMAIN cs = 1 .. Len(cs) /\ DOMAIN rest = 1 .. Len(cs) - 1
    BY <1>1, <1>3, <1>6
  <2> QED BY <2>1
<1>8. Names(rest, v, levels \ {level})
  <2>1. ASSUME NEW i \in DOMAIN rest
        PROVE  \E l \in levels \ {level} : rest[i] = UpdateCall(v, l)
    <3>1. rest[i] = cs[i + 1] /\ i + 1 \in DOMAIN cs /\ i \in Nat
      BY <1>3, <1>6
    <3>2. PICK l \in levels : cs[i + 1] = UpdateCall(v, l)
      BY <1>2, <3>1
    <3>3. l # level
      <4> SUFFICES ASSUME l = level PROVE FALSE
        OBVIOUS
      <4>1. cs[i + 1] = cs[1] /\ i + 1 # 1 /\ DOMAIN rest = 1 .. Len(rest)
        BY <1>3, <1>4, <1>5, <1>6, <3>1, <3>2
      <4>2. i + 1 # 1
        BY <1>7, <3>1, <4>1
      <4> QED BY <1>1, <1>3, <3>1, <4>1, <4>2
    <3> QED BY <3>1, <3>2, <3>3
  <2>2. ASSUME NEW l \in levels \ {level}
        PROVE  \E i \in DOMAIN rest : rest[i] = UpdateCall(v, l)
    <3>1. PICK i \in DOMAIN cs : cs[i] = UpdateCall(v, l)
      BY <1>1
    <3>2. i # 1
      <4> SUFFICES ASSUME i = 1 PROVE FALSE
        OBVIOUS
      <4>1. UpdateCall(v, l) = UpdateCall(v, level) /\ l \in Levels
        BY <1>4, <1>5, <3>1
      <4>2. l = level
        BY <1>5, <4>1, CallsTellLevels
      <4> QED BY <4>2
    <3>3. i - 1 \in DOMAIN rest /\ (i - 1) + 1 = i
      BY <1>7, <3>2
    <3>4. rest[i - 1] = cs[i]
      BY <1>3, <1>6, <3>3
    <3> QED BY <3>1, <3>3, <3>4
  <2>3. ASSUME NEW i \in DOMAIN rest, NEW j \in DOMAIN rest, rest[i] = rest[j]
        PROVE  i = j
    <3>1. i \in Nat /\ j \in Nat /\ i + 1 \in DOMAIN cs /\ j + 1 \in DOMAIN cs /\ cs[i + 1] = cs[j + 1]
      BY <1>3, <1>6, <2>3
    <3>2. i + 1 = j + 1
      BY <1>1, <3>1
    <3> QED BY <3>1, <3>2
  <2>4. rest \in Seq({UpdateCall(v, l) : l \in levels \ {level}})
    <3> DEFINE some == {UpdateCall(v, l) : l \in levels \ {level}}
    <3>1. \A i \in DOMAIN rest : rest[i] \in some
      BY <2>1
    <3> HIDE DEF some
    <3>2. rest \in Seq(all)
      BY <1>3, <1>6
    <3>3. rest \in Seq(some)
      BY <3>1, <3>2
    <3> QED BY <3>3 DEF some
  <2> QED BY <2>2, <2>3, <2>4 DEF Names
<1>9. ASSUME AsksFirst(cs)
      PROVE  AsksFirst(rest) /\ (level[1] = "BID" => \A other \in levels : other[1] = "BID")
  <2>1. AsksFirst(rest)
    <3> SUFFICES ASSUME NEW i \in DOMAIN rest, NEW j \in DOMAIN rest, i < j, rest[j].entry.side = "ASK"
                 PROVE  rest[i].entry.side = "ASK"
      BY DEF AsksFirst
    <3>1. /\ i + 1 \in DOMAIN cs /\ j + 1 \in DOMAIN cs /\ i \in Nat /\ j \in Nat
          /\ rest[i] = cs[i + 1] /\ rest[j] = cs[j + 1]
      BY <1>3, <1>6
    <3>2. i + 1 < j + 1
      BY <3>1
    <3> QED BY <1>9, <3>1, <3>2 DEF AsksFirst
  <2>2. ASSUME level[1] = "BID", NEW other \in levels
        PROVE  other[1] = "BID"
    <3> SUFFICES ASSUME other[1] # "BID" PROVE FALSE
      OBVIOUS
    <3>1. other[1] = "ASK" /\ other \in Levels
      BY DEF Levels
    <3>2. PICK j \in DOMAIN cs : cs[j] = UpdateCall(v, other)
      BY <1>1
    <3>3. cs[j].entry.side = "ASK"
      BY <3>1, <3>2, LevelOfACall
    <3>4. j # 1
      BY <1>3, <1>5, <2>2, <3>3
    <3>5. 1 < j
      BY <1>7, <3>4
    <3>6. cs[1].entry.side = "ASK"
      BY <1>3, <1>9, <3>3, <3>5 DEF AsksFirst
    <3> QED BY <1>3, <1>5, <2>2, <3>6
  <2> QED BY <2>1, <2>2
<1>10. AppliesNext(cs, v, levels, level)
  BY <1>0, <1>5, <1>6, <1>8, <1>9 DEF AppliesNext
<1> QED BY <1>0, <1>10

\* An update names at least one level.
LEMMA TouchedSomething ==
  ASSUME books \in Seq(Book), ChangesDiffer, NEW from \in Nat, NEW to \in Nat,
         1 <= from, from < to, to <= Len(books)
  PROVE  Touched(from, to) # {}
<1>1. Len(books) \in Nat /\ to - 1 \in 1 .. Len(books) - 1 /\ (to - 1) + 1 = to
      /\ to - 1 \in 1 .. Len(books) /\ to \in 1 .. Len(books) /\ to - 1 \in from .. to
  OBVIOUS
<1>2. books[to - 1] # books[(to - 1) + 1]
  BY <1>1 DEF ChangesDiffer
<1>3. books[to - 1] \in Book /\ books[to] \in Book
  BY <1>1
<1>4. \E level \in Levels : books[to - 1][level] # books[to][level]
  <2> SUFFICES ASSUME \A level \in Levels : books[to - 1][level] = books[to][level] PROVE FALSE
    OBVIOUS
  <2>1. books[to - 1] = books[to]
    BY <1>3 DEF Book
  <2> QED BY <1>1, <1>2, <2>1
<1> QED BY <1>1, <1>4 DEF Touched

\* StreamData's invariant, and what its steps need of the calls and the wire.
BookStepsInv == BookInv /\ ChangesDiffer /\ UpdatesOK /\ ItemsInv /\ BookIsLookedAt

\* on_message takes the message that arrived first.
LEMMA MessageIsTheFirst ==
  ASSUME wire \in Seq(Messages), NEW m \in ToSet(First(wire, 1))
  PROVE  /\ wire # <<>> /\ m = wire[1] /\ m = Head(wire) /\ 1 \in DOMAIN wire /\ m \in Messages
<1>1. wire # <<>>
  <2> SUFFICES ASSUME wire = <<>> PROVE FALSE
    OBVIOUS
  <2>1. First(wire, 1) = SubSeq(<<>>, 1, 0)
    BY DEF First
  <2>2. ToSet(First(wire, 1)) = {}
    BY <2>1 DEF ToSet
  <2> QED BY <2>2
<1>2. Len(wire) \in Nat /\ Len(wire) >= 1
  BY <1>1
<1>3. First(wire, 1) = SubSeq(wire, 1, 1)
  BY <1>2 DEF First
<1>4. /\ SubSeq(wire, 1, 1) \in Seq(Messages) /\ Len(SubSeq(wire, 1, 1)) = 1
      /\ \A i \in 1 .. 1 : SubSeq(wire, 1, 1)[i] = wire[i]
  BY <1>2
<1>5. m = wire[1]
  <2>1. DOMAIN First(wire, 1) = 1 .. 1
    BY <1>3, <1>4
  <2> QED BY <1>3, <1>4, <2>1 DEF ToSet
<1> QED BY <1>1, <1>2, <1>5

\* on_message begins with what StreamData takes from the wire.
LEMMA TakenMessage ==
  ASSUME BookStepsInv, TakeBookMessage
  PROVE  BookNext /\ ChangesDiffer' /\ UpdatesOK'
<1>a. PICK m \in ToSet(First(wire, 1)) : \E json \in {BookJson(m)} : \E made \in {Calls(json)} : Take(m, json, made)
  BY Zenon DEF TakeBookMessage
<1>b. PICK json \in {BookJson(m)} : \E made \in {Calls(json)} : Take(m, json, made)
  BY <1>a, Zenon
<1>0. PICK made \in {Calls(json)} : Take(m, json, made)
  BY <1>b, Zenon
<1>1. wire \in Seq(Messages) /\ books \in Seq(Book) /\ at \in 0 .. Len(books) /\ ids \in 0 .. Len(books) /\ sent \in 0 .. Len(books)
      /\ Len(books) \in Nat
  BY DEF BookStepsInv, BookInv, StreamTypeOK
<1>2. wire # <<>> /\ m = wire[1] /\ m = Head(wire) /\ 1 \in DOMAIN wire /\ m \in Messages
  BY <1>1, MessageIsTheFirst
<1>3. json = BookJson(m) /\ made = Calls(BookJson(m))
  OBVIOUS
<1>4. /\ m.from \in Nat /\ m.to \in Nat /\ m.type \in {"update", "snapshot"}
      /\ 1 <= m.from /\ m.from <= m.to /\ m.to <= Len(books)
      /\ m.type = "update" => m.from < m.to
  <2>1. 1 <= m.from /\ m.from <= m.to /\ m.to <= sent
    BY <1>2 DEF BookStepsInv, BookInv, Ordered
  <2>2. m.type = "update" => m.from < m.to
    BY <1>2 DEF BookStepsInv, ChangesDiffer
  <2>3. m.from \in Nat /\ m.to \in Nat /\ m.type \in {"update", "snapshot"}
    BY <1>2 DEF Messages
  <2> QED BY <1>1, <2>1, <2>2, <2>3
<1>5. channel = "ORDER_BOOK" /\ kind \in BookKinds
  <2>1. channel = "ORDER_BOOK" /\ kind # "digifinex"
    BY OnlyALookedAtBookHasCalls DEF BookStepsInv
  <2>2. kind \in BookKinds \cup {"digifinex"}
    BY StreamDataAssumption DEF BookStepsInv, BookInv, StreamTypeOK
  <2> QED BY <2>1, <2>2
<1>6. /\ phase = "idle" /\ wire' = Tail(wire)
      /\ UNCHANGED <<kind, exchangeVars, ids, subscriptions, missed, channel, itemVars>>
  BY <1>0, Zenon DEF Take
<1>7. UNCHANGED <<kind, books, subscribed, sent, ids, subscriptions, missed, channel>>
  BY <1>6 DEF exchangeVars
<1>8. ChangesDiffer'
  <2>1. Tail(wire) \in Seq(Messages) /\ \A i \in DOMAIN Tail(wire) : i + 1 \in DOMAIN wire /\ Tail(wire)[i] = wire[i + 1]
    BY <1>1, <1>2, TailMembers
  <2> QED BY <1>6, <1>7, <2>1 DEF BookStepsInv, ChangesDiffer
<1>9. calls = <<>>
  BY <1>5, <1>6 DEF BookStepsInv, UpdatesOK
<1>10. CASE m.type = "update"
  <2>1. PICK levels : levels = Touched(m.from, m.to)
    OBVIOUS
  <2>2. levels # {} /\ levels \in SUBSET Levels
    <3>1. levels # {}
      BY <1>1, <1>4, <1>10, <2>1, TouchedSomething DEF BookStepsInv
    <3> QED BY <2>1, <3>1 DEF Touched
  <2>3. /\ Names(made, m.to, levels)
        /\ kind \in {"binance", "kraken"} => AsksFirst(made)
        /\ kind = "binance" => json.u = m.to
    BY <1>3, <1>5, <1>10, <2>1, <2>2, UpdateIsRead
  <2>4. made[1].call = "update_order_book"
    <3>1. PICK level \in levels : TRUE
      BY <2>2
    <3>2. PICK i \in DOMAIN made : made[i] = UpdateCall(m.to, level)
      BY <2>3, <3>1 DEF Names
    <3>3. made \in Seq({UpdateCall(m.to, l) : l \in levels})
      BY <2>3 DEF Names
    <3>4. 1 \in DOMAIN made
      BY <3>2, <3>3
    <3>5. made[1] \in {UpdateCall(m.to, l) : l \in levels}
      BY <3>3, <3>4, ElementOfSeq
    <3> QED BY <3>5 DEF UpdateCall
  <2>5. {LevelOf(made[i].entry) : i \in DOMAIN made} = levels
    BY <2>2, <2>3, LevelsOfCalls
  <2>6. kind = "binance" => (AlreadyHad([m EXCEPT !.to = json.u]) <=> AlreadyHad(m))
    <3>1. ASSUME kind = "binance" PROVE [m EXCEPT !.to = json.u].to = m.to
      BY <1>2, <2>3, <3>1 DEF Messages
    <3> QED BY <3>1 DEF AlreadyHad
  <2>7. kind # "binance" => ~ AlreadyHad(m)
    BY DEF AlreadyHad
  <2>8. CASE kind = "binance" /\ ids = 0
    <3>1. phase' = "asking" /\ UNCHANGED <<known, cache, at, pending, calls>>
      BY <1>0, <2>8, Zenon DEF Take
    <3>2. TakeUpdate
      BY <1>2, <1>6, <1>7, <1>10, <2>8, <3>1 DEF TakeUpdate, exchangeVars
    <3>3. UpdatesOK'
      BY <1>9, <3>1 DEF UpdatesOK
    <3> QED BY <1>8, <3>2, <3>3 DEF BookNext, OnMessage
  <2>9. CASE ~ (kind = "binance" /\ ids = 0) /\ AlreadyHad(m)
    <3>0. kind = "binance" /\ AlreadyHad([m EXCEPT !.to = json.u])
      BY <2>6, <2>7, <2>9
    <3>1. UNCHANGED <<known, cache, at, phase, pending, calls>>
      BY <1>0, <2>9, <3>0, Zenon DEF Take
    <3>2. TakeUpdate
      BY <1>2, <1>6, <1>7, <1>10, <2>9, <3>1 DEF TakeUpdate, exchangeVars
    <3>3. UpdatesOK'
      BY <1>6, <1>9, <3>1 DEF UpdatesOK
    <3> QED BY <1>8, <3>2, <3>3 DEF BookNext, OnMessage
  <2>10. CASE ~ (kind = "binance" /\ ids = 0) /\ ~ AlreadyHad(m)
    <3>0. ~ (kind = "binance" /\ AlreadyHad([m EXCEPT !.to = json.u]))
      BY <2>6, <2>10
    <3>1. /\ phase' = "applying" /\ calls' = made /\ at' = m.to
          /\ pending' = {LevelOf(made[i].entry) : i \in DOMAIN made}
          /\ UNCHANGED <<known, cache>>
      BY <1>0, <2>4, <2>10, <3>0, Zenon DEF Take
    <3>2. pending' = levels
      BY <2>5, <3>1
    <3>3. TakeUpdate
      BY <1>2, <1>6, <1>7, <1>10, <2>1, <2>10, <3>1, <3>2 DEF TakeUpdate, exchangeVars
    <3>4. Names(made, m.to, levels)'
      <4>1. \A level : UpdateCall(m.to, level)' = UpdateCall(m.to, level)
        BY <1>7 DEF UpdateCall
      <4> QED BY <2>3, <4>1 DEF Names
    <3>5. Names(calls, at, pending)' /\ (kind' \in {"binance", "kraken"} => AsksFirst(calls)')
      <4>1. Names(calls, at, pending)' <=> Names(made, m.to, levels)'
        BY <3>1, <3>2
      <4>2. AsksFirst(calls)' <=> AsksFirst(made)
        BY <3>1 DEF AsksFirst
      <4> QED BY <1>7, <2>3, <3>4, <4>1, <4>2
    <3>6. UpdatesOK'
      BY <3>1, <3>5 DEF UpdatesOK
    <3> QED BY <1>8, <3>3, <3>6 DEF BookNext, OnMessage
  <2> QED BY <2>8, <2>9, <2>10
<1>11. CASE m.type = "snapshot"
  <2>1. kind # "binance"
    BY <1>2, <1>11 DEF BookStepsInv, BookInv, Phases
  <2>2. books[m.to] \in Book
    BY <1>1, <1>4
  <2>3. PICK c : c = made[1]
    OBVIOUS
  <2>4. /\ c.call = "initialise_order_book"
        /\ initialise_order_book(c) <=> (known' = TRUE /\ cache' = books[m.to])
    BY <1>3, <1>5, <1>11, <2>1, <2>2, <2>3, SnapshotIsRead
  <2>5. initialise_order_book(c) /\ at' = m.to /\ UNCHANGED <<phase, pending, calls>>
    <3>1. made[1].call # "update_order_book"
      BY <2>3, <2>4
    <3>2. initialise_order_book(made[1]) /\ at' = m.to /\ UNCHANGED <<phase, pending, calls>>
      BY <1>0, <2>1, <3>1, Zenon DEF Take
    <3> QED BY <2>3, <3>2
  <2>6. known' = TRUE /\ cache' = books[m.to]
    BY <2>4, <2>5
  <2>7. TakeSnapshot
    BY <1>2, <1>6, <1>7, <1>11, <2>5, <2>6 DEF TakeSnapshot, Initialise, exchangeVars
  <2>8. UpdatesOK'
    <3>1. phase' = "idle" /\ calls' = <<>>
      BY <1>6, <1>9, <2>5
    <3> QED BY <3>1 DEF UpdatesOK
  <2> QED BY <1>8, <2>7, <2>8 DEF BookNext, OnMessage
<1> QED BY <1>4, <1>10, <1>11

\* update_order_book applies one of the levels that are left, asks first where the code has them first.
LEMMA AppliedUpdate ==
  ASSUME BookStepsInv, UpdateOrderBook
  PROVE  BookNext /\ ChangesDiffer' /\ UpdatesOK'
<1>1. PICK entry : entry = Head(calls).entry
  OBVIOUS
<1>2. /\ phase = "applying" /\ calls # <<>>
      /\ known' = TRUE /\ cache' = [cache EXCEPT ![LevelOf(entry)] = entry.volume]
      /\ pending' = pending \ {LevelOf(entry)} /\ calls' = Tail(calls)
      /\ UNCHANGED <<kind, exchangeVars, wire, at, ids, phase, subscriptions, missed, channel, itemVars>>
  BY <1>1, Zenon DEF UpdateOrderBook, Updated
<1>3. UNCHANGED <<kind, books, subscribed, sent, wire, at, ids, phase, subscriptions, missed, channel>>
  BY <1>2 DEF exchangeVars
<1>4. Names(calls, at, pending) /\ (kind \in {"binance", "kraken"} => AsksFirst(calls)) /\ pending \in SUBSET Levels
  BY <1>2 DEF BookStepsInv, UpdatesOK, BookInv, StreamTypeOK
<1>5. PICK level : level = LevelOf(entry)
  OBVIOUS
<1>6. /\ level \in pending /\ entry.volume = books[at][level]
      /\ Names(Tail(calls), at, pending \ {level})
      /\ AsksFirst(calls) => /\ AsksFirst(Tail(calls))
                             /\ level[1] = "BID" => \A other \in pending : other[1] = "BID"
  <2>1. level = LevelOf(Head(calls).entry)
    BY <1>1, <1>5
  <2>2. /\ level \in pending /\ Head(calls).entry.volume = books[at][level]
        /\ Names(Tail(calls), at, pending \ {level})
        /\ AsksFirst(calls) => /\ AsksFirst(Tail(calls))
                               /\ level[1] = "BID" => \A other \in pending : other[1] = "BID"
    <3>1. PICK cs, v, levels : cs = calls /\ v = at /\ levels = pending
      OBVIOUS
    <3>2. Names(cs, v, levels) /\ levels \in SUBSET Levels /\ cs # <<>> /\ level = LevelOf(Head(cs).entry)
      BY <1>2, <1>4, <2>1, <3>1
    <3>4. AppliesNext(cs, v, levels, level)
      BY <3>2, NextCallApplies
    <3>3. /\ level \in levels /\ Head(cs).entry.volume = books[v][level]
          /\ Names(Tail(cs), v, levels \ {level})
          /\ AsksFirst(cs) => /\ AsksFirst(Tail(cs))
                              /\ level[1] = "BID" => \A other \in levels : other[1] = "BID"
      BY <3>4 DEF AppliesNext
    <3> QED BY <3>1, <3>3
  <2> QED BY <1>1, <2>2
<1>7. Apply(level)
  <2>1. MayApply(level)
    BY <1>4, <1>6 DEF MayApply
  <2> QED BY <1>2, <1>3, <1>5, <1>6, <2>1 DEF Apply, exchangeVars
<1>8. ChangesDiffer'
  BY <1>3 DEF BookStepsInv, ChangesDiffer
<1>9. UpdatesOK'
  <2>1. PICK cs, v, levels : cs = Tail(calls) /\ v = at /\ levels = pending \ {level}
    OBVIOUS
  <2>2. calls' = cs /\ at' = v /\ pending' = levels
    BY <1>2, <1>3, <1>5, <2>1
  <2>3. Names(cs, v, levels)'
    <3>1. \A l : UpdateCall(v, l)' = UpdateCall(v, l)
      BY <1>3 DEF UpdateCall
    <3>2. Names(cs, v, levels)
      BY <1>6, <2>1
    <3> QED BY <3>1, <3>2 DEF Names
  <2>4. Names(calls, at, pending)'
    BY <2>2, <2>3
  <2>5. AsksFirst(calls)' <=> AsksFirst(cs)
    BY <2>2 DEF AsksFirst
  <2> QED BY <1>2, <1>3, <1>4, <1>6, <2>1, <2>4, <2>5 DEF UpdatesOK
<1>10. level \in Levels
  BY <1>4, <1>6
<1> QED BY <1>7, <1>8, <1>9, <1>10 DEF BookNext, OnMessage

\* Without calls that are left, the message has been applied.
LEMMA FinishedMessage ==
  ASSUME BookStepsInv, FinishMessage
  PROVE  BookNext /\ ChangesDiffer' /\ UpdatesOK'
<1>1. /\ phase = "applying" /\ calls = <<>> /\ phase' = "idle" /\ ids' = IF kind = "binance" THEN at ELSE ids
      /\ UNCHANGED <<kind, exchangeVars, wire, known, cache, at, pending, subscriptions, missed, channel, calls>>
  BY DEF FinishMessage
<1>2. pending = {}
  <2>1. Names(<<>>, at, pending)
    BY <1>1 DEF BookStepsInv, UpdatesOK
  <2> QED BY <2>1 DEF Names
<1>3. Finish
  BY <1>1, <1>2 DEF Finish
<1>4. ChangesDiffer' /\ UpdatesOK'
  BY <1>1 DEF exchangeVars, BookStepsInv, ChangesDiffer, UpdatesOK
<1> QED BY <1>3, <1>4 DEF BookNext, OnMessage

\* A new change, or message, of the exchange.
LEMMA ChangedBook ==
  ASSUME BookStepsInv, NEW level \in Levels, NEW volume \in Volumes, ChangeBook(level, volume)
  PROVE  BookNext /\ ChangesDiffer' /\ UpdatesOK'
<1>1. Change(level, volume) /\ UNCHANGED <<channel, calls>>
  BY DEF ChangeBook
<1>2. books \in Seq(Book) /\ Len(books) \in Nat /\ Len(books) > 0 /\ at \in 0 .. Len(books)
  BY DEF BookStepsInv, BookInv, StreamTypeOK
<1>3. PICK last, book : last = books[Len(books)] /\ book = [last EXCEPT ![level] = volume]
  OBVIOUS
<1>4. /\ volume # last[level] /\ books' = Append(books, book)
      /\ UNCHANGED <<kind, wire, at, phase, pending>>
  BY <1>1, <1>3 DEF Change, Current
<1>5. last \in Book /\ book \in Book /\ book # last
  <2>1. last \in Book
    BY <1>2, <1>3
  <2>2. book[level] = volume /\ book \in Book
    BY <1>3, <2>1 DEF Book
  <2> QED BY <1>4, <2>1, <2>2
<1>6. /\ Len(books') = Len(books) + 1 /\ books'[Len(books) + 1] = book
      /\ \A v \in 1 .. Len(books) : books'[v] = books[v]
  BY <1>2, <1>4, <1>5, AppendMembers
<1>7. ChangesDiffer'
  <2>1. \A i \in DOMAIN wire : wire[i].type = "update" => wire[i].from < wire[i].to
    BY DEF BookStepsInv, ChangesDiffer
  <2>2. ASSUME NEW v \in 1 .. Len(books') - 1
        PROVE  books'[v] # books'[v + 1]
    <3>1. CASE v = Len(books)
      BY <1>2, <1>3, <1>5, <1>6, <3>1
    <3>2. CASE v # Len(books)
      <4>1. v \in 1 .. Len(books) - 1 /\ v \in 1 .. Len(books) /\ v + 1 \in 1 .. Len(books)
        BY <1>2, <1>6, <3>2
      <4>2. books[v] # books[v + 1]
        BY <4>1 DEF BookStepsInv, ChangesDiffer
      <4> QED BY <1>6, <4>1, <4>2
    <3> QED BY <3>1, <3>2
  <2> QED BY <1>4, <2>1, <2>2 DEF ChangesDiffer
<1>8. UpdatesOK'
  <2>1. CASE phase = "applying"
    <3>1. PICK v : v = at
      OBVIOUS
    <3>2. v \in 1 .. Len(books)
      <4>1. at > 0
        BY <2>1 DEF BookStepsInv, BookInv, Phases
      <4> QED BY <1>2, <3>1, <4>1
    <3>3. \A l : UpdateCall(v, l)' = UpdateCall(v, l)
      BY <1>6, <3>2 DEF UpdateCall
    <3>4. PICK cs, levels : cs = calls /\ levels = pending
      OBVIOUS
    <3>5. Names(cs, v, levels) /\ (kind \in {"binance", "kraken"} => AsksFirst(cs))
      BY <2>1, <3>1, <3>4 DEF BookStepsInv, UpdatesOK
    <3>6. Names(cs, v, levels)'
      BY <3>3, <3>5 DEF Names
    <3>7. calls' = cs /\ at' = v /\ pending' = levels
      BY <1>1, <1>4, <3>1, <3>4
    <3>8. Names(calls, at, pending)'
      BY <3>6, <3>7
    <3>9. AsksFirst(calls)' <=> AsksFirst(cs)
      BY <3>7 DEF AsksFirst
    <3> QED BY <1>4, <2>1, <3>5, <3>8, <3>9 DEF UpdatesOK
  <2>2. CASE phase # "applying"
    BY <1>1, <1>4, <2>2 DEF BookStepsInv, UpdatesOK
  <2> QED BY <2>1, <2>2
<1> QED BY <1>1, <1>7, <1>8 DEF BookNext

\* Steps that leave the books and the message in hand.
LEMMA UpdatesStay ==
  ASSUME UpdatesOK, UNCHANGED <<kind, books, at, phase, pending, channel>>,
         calls' = calls \/ (channel # "ORDER_BOOK" /\ phase # "applying")
  PROVE  UpdatesOK'
<1>1. CASE phase = "applying"
  <2>1. PICK cs, v, levels : cs = calls /\ v = at /\ levels = pending
    OBVIOUS
  <2>2. \A l : UpdateCall(v, l)' = UpdateCall(v, l)
    BY DEF UpdateCall
  <2>3. Names(cs, v, levels) /\ (kind \in {"binance", "kraken"} => AsksFirst(cs))
    BY <1>1, <2>1 DEF UpdatesOK
  <2>4. Names(cs, v, levels)'
    BY <2>2, <2>3 DEF Names
  <2>5. calls' = cs /\ at' = v /\ pending' = levels
    BY <1>1, <2>1
  <2>6. Names(calls, at, pending)'
    BY <2>4, <2>5
  <2>7. AsksFirst(calls)' <=> AsksFirst(cs)
    BY <2>5 DEF AsksFirst
  <2> QED BY <1>1, <2>3, <2>6, <2>7 DEF UpdatesOK
<1>2. CASE phase # "applying"
  BY <1>2 DEF UpdatesOK
<1> QED BY <1>1, <1>2

\* Updates on the wire that were there, or that lead on.
LEMMA ChangesStay ==
  ASSUME ChangesDiffer, UNCHANGED books,
         \A i \in DOMAIN wire' : \/ i \in DOMAIN wire /\ wire'[i] = wire[i]
                                 \/ wire'[i].type # "update"
                                 \/ wire'[i].from < wire'[i].to
  PROVE  ChangesDiffer'
BY DEF ChangesDiffer

\* A message that is added to the wire.
LEMMA ChangesSent ==
  ASSUME BookStepsInv, UNCHANGED books, NEW m \in Messages, wire' = Append(wire, m),
         m.type # "update" \/ m.from < m.to
  PROVE  ChangesDiffer'
<1>1. wire \in Seq(Messages)
  BY DEF BookStepsInv, BookInv, StreamTypeOK
<1>2. /\ wire'[Len(wire) + 1] = m
      /\ \A i \in DOMAIN wire : wire'[i] = wire[i]
      /\ \A i \in DOMAIN wire' : i \in DOMAIN wire \/ i = Len(wire) + 1
  BY <1>1, AppendMembers
<1>3. ChangesDiffer
  BY DEF BookStepsInv
<1> QED BY <1>2, <1>3, ChangesStay

\* Steps that are none of the book's.
LEMMA OtherStepsStutter ==
  ASSUME BookStepsInv, UNCHANGED bookVars, UNCHANGED channel,
         calls' = calls \/ channel # "ORDER_BOOK"
  PROVE  [BookNext]_bookVars /\ ChangesDiffer' /\ UpdatesOK'
<1>1. UNCHANGED <<kind, books, wire, at, phase, pending, channel>>
  BY DEF bookVars
<1>2. channel # "ORDER_BOOK" => phase # "applying"
  BY DEF BookStepsInv, BookIsLookedAt
<1>3. UpdatesOK'
  BY <1>1, <1>2, UpdatesStay DEF BookStepsInv
<1>4. ChangesDiffer'
  BY <1>1 DEF BookStepsInv, ChangesDiffer
<1> QED BY <1>3, <1>4

\* A subscription of the book is one of StreamData.
LEMMA SubscribedBook ==
  ASSUME BookStepsInv, subscribe, UNCHANGED <<channel, calls>>
  PROVE  BookNext /\ ChangesDiffer' /\ UpdatesOK'
<1>1. /\ UNCHANGED <<kind, books, at, phase, pending, channel>>
      /\ wire' = IF kind = "binance" THEN wire ELSE Append(wire, Message("snapshot", Current, Current))
  BY DEF subscribe
<1>2. UpdatesOK'
  BY <1>1, UpdatesStay DEF BookStepsInv
<1>3. CASE kind = "binance"
  BY <1>1, <1>2, <1>3 DEF BookStepsInv, ChangesDiffer, BookNext
<1>4. CASE kind # "binance"
  <2>1. PICK m : m = Message("snapshot", Current, Current)
    OBVIOUS
  <2>2. m \in Messages /\ m.type # "update"
    BY <2>1 DEF Message, Messages, Current, BookStepsInv, BookInv, StreamTypeOK
  <2>3. wire' = Append(wire, m)
    BY <1>1, <1>4, <2>1
  <2>4. ChangesDiffer'
    BY <1>1, <2>2, <2>3, ChangesSent
  <2> QED BY <1>2, <2>4 DEF BookNext
<1> QED BY <1>3, <1>4

\* The exchange sends the changes since the last message.
LEMMA SentChanges ==
  ASSUME BookStepsInv, Emit, UNCHANGED <<channel, calls>>
  PROVE  BookNext /\ ChangesDiffer' /\ UpdatesOK'
<1>1. /\ UNCHANGED <<kind, books, at, phase, pending, channel>>
      /\ wire' = Append(wire, Message("update", sent, Current)) /\ sent < Current
  BY DEF Emit
<1>2. UpdatesOK'
  BY <1>1, UpdatesStay DEF BookStepsInv
<1>3. PICK m : m = Message("update", sent, Current)
  OBVIOUS
<1>4. m \in Messages /\ m.from < m.to
  BY <1>1, <1>3 DEF Message, Messages, Current, BookStepsInv, BookInv, StreamTypeOK
<1>5. wire' = Append(wire, m)
  BY <1>1, <1>3
<1>6. ChangesDiffer'
  BY <1>1, <1>4, <1>5, ChangesSent
<1> QED BY <1>2, <1>6 DEF BookNext

\* The end of a subscription of the book is one of StreamData.
LEMMA UnsubscribedBook ==
  ASSUME BookStepsInv, unsubscribe, UNCHANGED <<channel, calls>>
  PROVE  BookNext /\ ChangesDiffer' /\ UpdatesOK'
<1>1. UNCHANGED <<kind, books, wire, at, phase, pending, channel>>
  BY DEF unsubscribe
<1>2. UpdatesOK'
  BY <1>1, UpdatesStay DEF BookStepsInv
<1>3. ChangesDiffer'
  BY <1>1 DEF BookStepsInv, ChangesDiffer
<1> QED BY <1>2, <1>3 DEF BookNext

\* reset clears the book between two messages.
LEMMA ClearedBook ==
  ASSUME BookStepsInv, reset, UNCHANGED <<channel, calls>>, calls = <<>>
  PROVE  BookNext /\ ChangesDiffer' /\ UpdatesOK'
<1>1. UNCHANGED <<kind, books, phase, channel>> /\ wire' = <<>> /\ phase = "idle"
  BY DEF reset
<1>2. UpdatesOK'
  BY <1>1 DEF UpdatesOK
<1>3. ChangesDiffer'
  BY <1>1 DEF BookStepsInv, ChangesDiffer
<1> QED BY <1>2, <1>3 DEF BookNext

\* The REST API's answer is one of StreamData.
LEMMA AskedForBook ==
  ASSUME BookStepsInv, SnapshotArrives \/ SnapshotFails, UNCHANGED <<channel, calls>>
  PROVE  BookNext /\ ChangesDiffer' /\ UpdatesOK'
<1>1. /\ phase = "asking" /\ phase' = "idle"
      /\ UNCHANGED <<kind, books, wire, channel, calls>>
  BY DEF SnapshotArrives, SnapshotFails, exchangeVars
<1>2. UpdatesOK'
  BY <1>1 DEF UpdatesOK, BookStepsInv
<1>3. ChangesDiffer'
  BY <1>1 DEF BookStepsInv, ChangesDiffer
<1> QED BY <1>2, <1>3 DEF BookNext, OnMessage

\* Whatever the steps here do to the book, a step of StreamData does.
LEMMA NextRefines ==
  ASSUME BookStepsInv, [Next]_vars
  PROVE  [BookNext]_bookVars /\ ChangesDiffer' /\ UpdatesOK'
<1>1. ASSUME NEW ps \in (SUBSET Pairs) \ {{}}, NEW interval \in IntervalsOf,
             SubscribeItems(ps, interval) \/ UnsubscribeItems(ps, interval)
      PROVE  [BookNext]_bookVars /\ ChangesDiffer' /\ UpdatesOK'
  <2>1. UNCHANGED bookVars /\ UNCHANGED channel /\ calls' = calls
    BY <1>1, Zenon DEF SubscribeItems, UnsubscribeItems, Subscribe, Unsubscribe
  <2> QED BY <2>1, OtherStepsStutter
<1>2. CASE SubscribeUnsupported({BookPair})
  BY <1>2, OtherStepsStutter DEF SubscribeUnsupported
<1>3. CASE SubscribeBook
  <2>1. UNCHANGED <<channel, calls>> /\ (subscribe \/ UNCHANGED bookVars)
    BY <1>3 DEF SubscribeBook, Subscribe
  <2> QED BY <2>1, SubscribedBook, OtherStepsStutter
<1>4. CASE UnsubscribeBook
  <2>1. UNCHANGED <<channel, calls>> /\ (unsubscribe \/ UNCHANGED bookVars)
    BY <1>4 DEF UnsubscribeBook, Unsubscribe
  <2> QED BY <2>1, UnsubscribedBook, OtherStepsStutter
<1>5. CASE Reset
  BY <1>5, ClearedBook DEF Reset
<1>6. ASSUME NEW level \in Levels, NEW volume \in Volumes, ChangeBook(level, volume)
      PROVE  [BookNext]_bookVars /\ ChangesDiffer' /\ UpdatesOK'
  BY <1>6, ChangedBook
<1>7. CASE EmitChanges
  BY <1>7, SentChanges DEF EmitChanges
<1>8. ASSUME NEW s, NEW joined, Make(s, joined)
      PROVE  [BookNext]_bookVars /\ ChangesDiffer' /\ UpdatesOK'
  BY <1>8, OtherStepsStutter DEF Make
<1>9. CASE SnapshotAnswer \/ SnapshotError
  BY <1>9, AskedForBook DEF SnapshotAnswer, SnapshotError
<1>10. CASE TakeItems
  <2>1. UNCHANGED bookVars /\ UNCHANGED channel /\ mail # <<>>
    BY <1>10 DEF TakeItems
  <2>2. channel # "ORDER_BOOK"
    BY <2>1 DEF BookStepsInv, ItemsInv, MailOK
  <2> QED BY <2>1, <2>2, OtherStepsStutter
<1>11. CASE UpdateItem
  <2>1. UNCHANGED bookVars /\ UNCHANGED channel /\ channel # "ORDER_BOOK"
    BY <1>11 DEF UpdateItem
  <2> QED BY <2>1, OtherStepsStutter
<1>12. CASE UNCHANGED vars
  BY <1>12, OtherStepsStutter DEF vars
<1>13. CASE TakeBookMessage \/ UpdateOrderBook \/ FinishMessage
  BY <1>13, TakenMessage, AppliedUpdate, FinishedMessage
<1> QED BY <1>1, <1>2, <1>3, <1>4, <1>5, <1>6, <1>7, <1>8, <1>9, <1>10, <1>11, <1>12, <1>13 DEF Next, on_message

\* Every step keeps the invariant.
LEMMA NextKeepsTheSteps == BookStepsInv /\ [Next]_vars => BookStepsInv' /\ [BookNext]_bookVars
<1> SUFFICES ASSUME BookStepsInv, [Next]_vars
             PROVE  BookStepsInv' /\ [BookNext]_bookVars
  OBVIOUS
<1>1. [BookNext]_bookVars /\ ChangesDiffer' /\ UpdatesOK'
  BY NextRefines
<1>2. BookInv'
  BY <1>1, BookNextKeeps DEF BookStepsInv
<1>3. ItemsInv' /\ BookIsLookedAt'
  BY NextKeepsItems, NextKeepsWhatIsLookedAt DEF BookStepsInv
<1> QED BY <1>1, <1>2, <1>3 DEF BookStepsInv

\* The invariant holds in every reachable state.
LEMMA BookStepsInvariant == Spec => []BookStepsInv
<1>1. Init => BookStepsInv
  <2> SUFFICES ASSUME Init PROVE BookStepsInv
    BY Zenon
  <2>1. BookInv
    BY BookInitially DEF Init
  <2>2. ItemsInv /\ BookIsLookedAt
    BY ItemsInitially DEF Init, BookInit, BookIsLookedAt
  <2>3. ChangesDiffer /\ UpdatesOK
    BY DEF Init, BookInit, ChangesDiffer, UpdatesOK
  <2> QED BY <2>1, <2>2, <2>3 DEF BookStepsInv
<1>2. BookStepsInv /\ [Next]_vars => BookStepsInv'
  BY NextKeepsTheSteps
<1> QED BY <1>1, <1>2, PTL DEF Spec

\* Whatever JSON an exchange's messages are, what on_message makes of them
\* (update_order_book and initialise_order_book, one call after the other) are steps of
\* the order book that StreamData describes, for any prices, volumes and pairs.
THEOREM MessagesImplementTheBook == Spec => ImplementsBook
<1>1. Init => BookInit
  BY DEF Init
<1>2. BookStepsInv /\ [Next]_vars => [BookNext]_bookVars
  BY NextKeepsTheSteps
<1> QED BY <1>1, <1>2, BookStepsInvariant, PTL DEF Spec, ImplementsBook, BookSpec

-----------------------------------------------------------------------------
(***************************************************************************)
(* The readers.                                                            *)
(***************************************************************************)
\* Of two prices of a side, the one that comes first.
Ahead(side, p, q) == IF side = "ASK" THEN p < q ELSE p > q

\* Every level of a side, the best one first.
IsSide(s, side, levels) ==
  /\ s \in Seq({s[i] : i \in DOMAIN s})
  /\ \A i \in DOMAIN s : /\ s[i].price \in Prices /\ levels[<<side, s[i].price>>] # 0
                         /\ s[i].volume = levels[<<side, s[i].price>>] /\ s[i].side = side
  /\ \A i, j \in DOMAIN s : i < j => Ahead(side, s[i].price, s[j].price)
  /\ \A p \in Prices : levels[<<side, p>>] # 0 => \E i \in DOMAIN s : s[i].price = p

\* The entries of a list of prices are a side of the book.
LEMMA SideOfPrices ==
  ASSUME NEW side, NEW s, NEW levels, NEW S, S = {p \in Prices : levels[<<side, p>>] # 0},
         NEW prices \in Seq(S),
         \A i, j \in DOMAIN prices : i < j => Ahead(side, prices[i], prices[j]),
         \A p \in S : \E i \in DOMAIN prices : prices[i] = p,
         s = [i \in DOMAIN prices |-> Entry(prices[i], levels[<<side, prices[i]>>], side)]
  PROVE  IsSide(s, side, levels)
<1>1. DOMAIN s = DOMAIN prices /\ DOMAIN prices = 1 .. Len(prices) /\ Len(prices) \in Nat
  OBVIOUS
<1>2. ASSUME NEW i \in DOMAIN s
      PROVE  /\ s[i].price = prices[i] /\ prices[i] \in S
             /\ s[i].volume = levels[<<side, prices[i]>>] /\ s[i].side = side
  BY <1>1 DEF Entry
<1>3. s \in Seq({s[i] : i \in DOMAIN s})
  <2>1. s = [i \in DOMAIN s |-> s[i]]
    OBVIOUS
  <2> QED BY <1>1, <2>1, MembersOfItself
<1>4. ASSUME NEW i \in DOMAIN s
      PROVE  /\ s[i].price \in Prices /\ levels[<<side, s[i].price>>] # 0
             /\ s[i].volume = levels[<<side, s[i].price>>] /\ s[i].side = side
  <2>1. PICK p : p = prices[i]
    OBVIOUS
  <2>2. s[i].price = p /\ p \in S /\ s[i].volume = levels[<<side, p>>] /\ s[i].side = side
    BY <1>2, <2>1
  <2>3. p \in Prices /\ levels[<<side, p>>] # 0
    BY <2>2
  <2> QED BY <2>2, <2>3
<1>5. ASSUME NEW i \in DOMAIN s, NEW j \in DOMAIN s, i < j
      PROVE  Ahead(side, s[i].price, s[j].price)
  <2>1. Ahead(side, prices[i], prices[j])
    BY <1>1, <1>5
  <2> QED BY <1>2, <2>1
<1>6. ASSUME NEW p \in Prices, levels[<<side, p>>] # 0
      PROVE  \E i \in DOMAIN s : s[i].price = p
  <2>1. p \in S
    BY <1>6
  <2>2. PICK i \in DOMAIN prices : prices[i] = p
    BY <2>1
  <2>3. i \in DOMAIN s /\ s[i].price = p
    BY <1>1, <1>2, <2>2
  <2> QED BY <2>3
<1> QED BY <1>3, <1>4, <1>5, <1>6 DEF IsSide

\* order_book_cache keeps a side sorted.
LEMMA SideIsRead ==
  ASSUME NEW side \in {"ASK", "BID"}
  PROVE  IsSide(Side(side), side, cache)
<1>1. PICK S : S = {p \in Prices : cache[<<side, p>>] # 0}
  OBVIOUS
<1>2. S \in SUBSET Nat /\ IsFiniteSet(S)
  <2>1. S \in SUBSET Prices /\ Prices \subseteq Nat /\ IsFiniteSet(Prices)
    BY <1>1, StreamDataAssumption, StreamMessagesAssumption
  <2> QED BY <2>1, FS_Subset
<1>3. CASE side = "ASK"
  <2>1. PICK prices \in [1 .. Cardinality(S) -> S] :
          prices = Sorted(S, <) /\ \A i, j \in DOMAIN prices : i < j => prices[i] < prices[j]
    BY <1>2, SortedUp, Zenon
  <2>2. prices \in [1 .. Cardinality(S) -> S] /\ \A i, j \in DOMAIN prices : i < j => prices[i] < prices[j]
    BY <2>1, Zenon
  <2>3. prices \in Seq(S) /\ \A p \in S : \E i \in DOMAIN prices : prices[i] = p
    BY <1>2, <2>2, RisingHasAll
  <2>4. \A i, j \in DOMAIN prices : i < j => Ahead(side, prices[i], prices[j])
    BY <1>3, <2>2, Zenon DEF Ahead
  <2>5. Side(side) = [i \in DOMAIN prices |-> Entry(prices[i], cache[<<side, prices[i]>>], side)]
    BY <1>1, <1>3, <2>1, Zenon DEF Side, Each
  <2> QED BY <1>1, <2>3, <2>4, <2>5, SideOfPrices
<1>4. CASE side = "BID"
  <2>1. PICK prices \in [1 .. Cardinality(S) -> S] :
          prices = Sorted(S, >) /\ \A i, j \in DOMAIN prices : i < j => prices[i] > prices[j]
    BY <1>2, SortedDown, Zenon
  <2>2. prices \in [1 .. Cardinality(S) -> S] /\ \A i, j \in DOMAIN prices : i < j => prices[i] > prices[j]
    BY <2>1, Zenon
  <2>3. prices \in Seq(S) /\ \A p \in S : \E i \in DOMAIN prices : prices[i] = p
    BY <1>2, <2>2, FallingHasAll
  <2>0. side # "ASK"
    BY <1>4
  <2>4. \A i, j \in DOMAIN prices : i < j => Ahead(side, prices[i], prices[j])
    BY <2>0, <2>2, Zenon DEF Ahead
  <2>5. Side(side) = [i \in DOMAIN prices |-> Entry(prices[i], cache[<<side, prices[i]>>], side)]
    BY <1>1, <2>0, <2>1, Zenon DEF Side, Each
  <2> QED BY <1>1, <2>3, <2>4, <2>5, SideOfPrices
<1> QED BY <1>3, <1>4

\* IsBest, with the comparison of the side.
Best(r, side, levels, depth) ==
  LET prices == {p \in Prices : levels[<<side, p>>] # 0}
      listed == {r[i].price : i \in DOMAIN r}
  IN  /\ listed \subseteq prices
      /\ \A i \in DOMAIN r : r[i].volume = levels[<<side, r[i].price>>] /\ r[i].side = side
      /\ \A i, j \in DOMAIN r : i < j => Ahead(side, r[i].price, r[j].price)
      /\ \A p \in prices \ listed : depth # 0 /\ Len(r) = depth /\ \A q \in listed : Ahead(side, q, p)

\* The first entries of a side are the best ones.
LEMMA FirstOfASide ==
  ASSUME NEW side, NEW levels, NEW s, IsSide(s, side, levels), NEW depth \in Nat, NEW d \in Nat,
         depth # 0 => d = depth, depth = 0 => Len(s) <= d
  PROVE  Best(First(s, d), side, levels, depth)
<1> DEFINE r == First(s, d)
           listed == {r[i].price : i \in DOMAIN r}
<1>1. s \in Seq({s[i] : i \in DOMAIN s}) /\ Len(s) \in Nat /\ DOMAIN s = 1 .. Len(s)
  BY DEF IsSide
<1>2. PICK n, len : len = Len(s) /\ n = IF d < len THEN d ELSE len
  OBVIOUS
<1>3. len \in Nat /\ n \in 0 .. len /\ (d < len => n = d) /\ (~ (d < len) => n = len)
  <2>1. len \in Nat
    BY <1>1, <1>2
  <2>2. CASE d < len
    <3>1. n = d
      BY <1>2, <2>2
    <3> QED BY <2>1, <2>2, <3>1
  <2>3. CASE ~ (d < len)
    <3>1. n = len
      BY <1>2, <2>3
    <3> QED BY <2>1, <2>3, <3>1
  <2> QED BY <2>2, <2>3
<1> DEFINE S == {s[i] : i \in DOMAIN s}
<1>a. s \in Seq(S)
  BY <1>1
<1> HIDE DEF r, S
<1>4. r = SubSeq(s, 1, n)
  BY <1>2 DEF First, r
<1>5. Len(r) = n /\ DOMAIN r = 1 .. n /\ \A i \in 1 .. n : i \in DOMAIN s /\ r[i] = s[i]
  <2>1. Len(SubSeq(s, 1, n)) = n /\ \A i \in 1 .. n : SubSeq(s, 1, n)[i] = s[i]
    BY <1>a, <1>2, <1>3
  <2>2. SubSeq(s, 1, n) \in Seq(S)
    BY <1>a, <1>2, <1>3
  <2>3. DOMAIN r = 1 .. n
    BY <1>4, <2>1, <2>2
  <2>4. \A i \in 1 .. n : i \in 1 .. len
    BY <1>3
  <2> QED BY <1>1, <1>2, <1>4, <2>1, <2>3, <2>4
<1>6. \A i \in DOMAIN r : /\ r[i].price \in Prices /\ levels[<<side, r[i].price>>] # 0
                          /\ r[i].volume = levels[<<side, r[i].price>>] /\ r[i].side = side
  BY <1>5 DEF IsSide
<1>7. \A i, j \in DOMAIN r : i < j => Ahead(side, r[i].price, r[j].price)
  BY <1>5 DEF IsSide
<1>8. ASSUME NEW p \in Prices, levels[<<side, p>>] # 0, p \notin listed
      PROVE  depth # 0 /\ Len(r) = depth /\ \A q \in listed : Ahead(side, q, p)
  <2>1. PICK j \in DOMAIN s : s[j].price = p
    BY <1>8 DEF IsSide
  <2>2. j \notin 1 .. n
    BY <1>5, <1>8, <2>1
  <2>a. PICK k : k = j
    OBVIOUS
  <2>b. k \in 1 .. len /\ k \notin 1 .. n
    BY <1>1, <1>2, <2>1, <2>2, <2>a
  <2>c. k \in Nat /\ n < k /\ n < len
    BY <1>3, <2>b
  <2>d. d < len /\ n = d
    BY <1>3, <2>c
  <2>3. n < Len(s) /\ n < j /\ n = d /\ d < Len(s) /\ j \in Nat
    BY <1>2, <2>a, <2>c, <2>d
  <2>4. depth # 0
    BY <1>1, <2>3
  <2>5. ASSUME NEW i \in DOMAIN r PROVE Ahead(side, r[i].price, p)
    <3>1. i \in DOMAIN s /\ r[i] = s[i] /\ i < j
      BY <1>3, <1>5, <2>3
    <3> QED BY <2>1, <3>1 DEF IsSide
  <2> QED BY <1>5, <2>3, <2>4, <2>5
<1>9. Best(r, side, levels, depth)
  BY <1>6, <1>7, <1>8 DEF Best
<1> QED BY <1>9 DEF r

\* get_order_book of a pair whose book is cached.
LEMMA BookIsRead ==
  ASSUME NEW depth \in Nat, known
  PROVE  /\ IsBest(get_order_book(depth).asks, "ASK", cache, depth, <)
         /\ IsBest(get_order_book(depth).bids, "BID", cache, depth, >)
<1>1. PICK asks, bids : asks = Side("ASK") /\ bids = Side("BID")
  OBVIOUS
<1>2. IsSide(asks, "ASK", cache) /\ IsSide(bids, "BID", cache)
  BY <1>1, SideIsRead
<1>3. Len(asks) \in Nat /\ Len(bids) \in Nat
  BY <1>2 DEF IsSide
<1>4. PICK d : d = IF depth = 0 THEN IF Len(asks) > Len(bids) THEN Len(asks) ELSE Len(bids) ELSE depth
  OBVIOUS
<1>5. d \in Nat /\ (depth # 0 => d = depth) /\ (depth = 0 => Len(asks) <= d /\ Len(bids) <= d)
  BY <1>3, <1>4
<1>6. get_order_book(depth) = [asks |-> First(asks, d), bids |-> First(bids, d)]
  BY <1>1, <1>4, Zenon DEF get_order_book, snapshot
<1>7. PICK a, b : a = First(asks, d) /\ b = First(bids, d)
  OBVIOUS
<1>8. get_order_book(depth).asks = a /\ get_order_book(depth).bids = b
  BY <1>6, <1>7
<1>9. Best(a, "ASK", cache, depth) /\ Best(b, "BID", cache, depth)
  BY <1>2, <1>5, <1>7, FirstOfASide
<1>10. IsBest(a, "ASK", cache, depth, <)
  <2>1. \A p, q : Ahead("ASK", p, q) <=> p < q
    BY DEF Ahead
  <2> QED BY <1>9, <2>1, Zenon DEF Best, IsBest
<1>11. IsBest(b, "BID", cache, depth, >)
  <2>1. \A p, q : Ahead("BID", p, q) <=> p > q
    BY DEF Ahead
  <2> QED BY <1>9, <2>1, Zenon DEF Best, IsBest
<1> QED BY <1>8, <1>10, <1>11, Zenon

\* What is filed for a pair is the newest that its handlers were told.
LEMMA LastIsRead ==
  ASSUME ItemsInv, NEW p \in Pairs, NEW interval
  PROVE  LET heard == {i \in DOMAIN told : told[i].pair = p /\ told[i].interval = interval}
         IN  /\ heard = {} => get_last(p, interval) = NoValue
             /\ \A i \in heard : (\A j \in heard : j <= i) => get_last(p, interval) = told[i].value
<1> DEFINE heard == {i \in DOMAIN told : told[i].pair = p /\ told[i].interval = interval}
<1>1. PICK k : k = Key(Named(p), interval)
  OBVIOUS
<1>2. \A i \in DOMAIN told : i \in Nat /\ told[i].pair \in Pairs
  <2>1. PICK values : values = {Said(n).value : n \in DOMAIN items}
    OBVIOUS
  <2>2. told \in Seq([pair : Pairs, interval : Intervals \cup {""}, value : values])
    BY <2>1 DEF ItemsInv, ToldOK
  <2>3. PICK R : R = [pair : Pairs, interval : Intervals \cup {""}, value : values]
    OBVIOUS
  <2>4. \A i \in DOMAIN told : i \in Nat /\ told[i] \in R
    <3>1. told \in Seq(R)
      BY <2>2, <2>3
    <3>2. DOMAIN told = 1 .. Len(told) /\ Len(told) \in Nat
      BY <3>1
    <3> QED BY <3>1, <3>2, ElementOfSeq
  <2>5. \A r \in R : r.pair \in Pairs
    BY <2>3
  <2> QED BY <2>4, <2>5
<1>3. ASSUME NEW i \in DOMAIN told
      PROVE  k = Key(Named(told[i].pair), told[i].interval) <=> i \in heard
  BY <1>1, <1>2, NamesTellPairs DEF Key
<1> HIDE DEF heard
<1>4. heard = {} => get_last(p, interval) = NoValue
  <2> SUFFICES ASSUME heard = {} PROVE get_last(p, interval) = NoValue
    OBVIOUS
  <2>1. k \notin DOMAIN filed
    BY <1>3 DEF ItemsInv, FiledOK
  <2> QED BY <1>1, <2>1 DEF get_last
<1>5. ASSUME NEW i \in heard, \A j \in heard : j <= i
      PROVE  get_last(p, interval) = told[i].value
  <2>1. i \in DOMAIN told /\ k = Key(Named(told[i].pair), told[i].interval)
    BY <1>3 DEF heard
  <2>2. k \in DOMAIN filed
    BY <2>1 DEF ItemsInv, FiledOK
  <2>3. PICK j \in DOMAIN told : /\ k = Key(Named(told[j].pair), told[j].interval)
                                 /\ filed[k] = told[j].value
                                 /\ \A l \in DOMAIN told : l > j => k # Key(Named(told[l].pair), told[l].interval)
    BY <2>2 DEF ItemsInv, FiledOK
  <2>4. j \in heard /\ ~ (i > j)
    BY <1>3, <2>1, <2>3
  <2>5. i = j
    BY <1>2, <1>5, <2>1, <2>3, <2>4
  <2> QED BY <1>1, <2>2, <2>3, <2>5 DEF get_last
<1> QED BY <1>4, <1>5 DEF heard

\* get_order_book (order_book_cache::snapshot) returns the exchange's best levels, best
\* first, and get_last_trade and get_last_candle what the handlers were told last, for any
\* number of prices, pairs and messages.
THEOREM ReadersAreRight == Spec => []ReadersSeeTheBestAndTheLast
<1>1. ASSUME BookStepsInv
      PROVE  ReadersSeeTheBestAndTheLast
  <2>1. ASSUME known, ~ missed, phase # "applying", NEW depth \in 0 .. Cardinality(Prices)
        PROVE  LET book == get_order_book(depth)
               IN  /\ IsBest(book.asks, "ASK", books[at], depth, <)
                   /\ IsBest(book.bids, "BID", books[at], depth, >)
    <3>1. cache = books[at]
      BY <1>1, <2>1 DEF BookStepsInv, BookInv, CacheOK
    <3>2. depth \in Nat
      <4>1. Cardinality(Prices) \in Nat
        BY FS_CardinalityType, StreamMessagesAssumption
      <4> QED BY <4>1
    <3>3. /\ IsBest(get_order_book(depth).asks, "ASK", cache, depth, <)
          /\ IsBest(get_order_book(depth).bids, "BID", cache, depth, >)
      BY <2>1, <3>2, BookIsRead, Zenon
    <3> QED BY <3>1, <3>3, Zenon
  <2>2. \A p \in Pairs, interval \in IntervalsOf \cup {""} :
          LET heard == {i \in DOMAIN told : told[i].pair = p /\ told[i].interval = interval}
          IN  /\ heard = {} => get_last(p, interval) = NoValue
              /\ \A i \in heard : (\A j \in heard : j <= i) => get_last(p, interval) = told[i].value
    <3>1. ItemsInv
      BY <1>1 DEF BookStepsInv
    <3>2. TAKE p \in Pairs, interval \in IntervalsOf \cup {""}
    <3> QED BY <3>1, LastIsRead
  <2> QED BY <2>1, <2>2, Zenon DEF ReadersSeeTheBestAndTheLast
<1> QED BY <1>1, BookStepsInvariant, PTL

\* What StreamData proves of the order book holds of the book that on_message makes of an
\* exchange's messages.
THEOREM BookOfMessagesIsTheExchanges == Spec => [](BookIsTheExchanges /\ NoLevelInvented)
<1>1. Spec => BookSpec
  BY MessagesImplementTheBook DEF ImplementsBook
<1> QED BY <1>1, CachedBookIsTheExchanges, CachedLevelsAreTheExchanges, PTL
=============================================================================
