---------------------------------- MODULE Wire ----------------------------------
(***************************************************************************)
(* Values as they travel between the program and an exchange, and the      *)
(* trading types they are read into.  Prices, volumes and times are        *)
(* integers.  A JSON array is a sequence and a JSON object a record; an    *)
(* array at the top of a document is its member `array'.                   *)
(***************************************************************************)
EXTENDS Integers, FiniteSets, SequencesExt

CONSTANT Pairs  \* tradable pairs of the exchange: [asset, price_unit]

ASSUME PairsAssumption ==
  \A p, q \in Pairs : p.asset = q.asset /\ p.price_unit = q.price_unit => p = q

\* A number written as text, and std::stod, std::stoll.
Text(n) == [text |-> n]
Stod(s) == s.text

\* A time in milliseconds.
Millis(t) == 1000 * t + 782

\* tradable_pair::to_string: a pair is known to an exchange by this name only.
Name(p, separator) == <<p.asset, separator, p.price_unit>>
IsName(name, separator) == \E p \in Pairs : Name(p, separator) = name
PairNamed(name, separator) == CHOOSE p \in Pairs : Name(p, separator) = name

\* to_seconds and to_minutes.
Seconds(interval) == IF interval = "1m" THEN 60 ELSE 86400
Minutes(interval) == Seconds(interval) \div 60

Entry(price, volume, side) == [price |-> price, volume |-> volume, side |-> side]
Candle(time, open, high, low, close, volume) ==
  [time |-> time, open |-> open, high |-> high, low |-> low, close |-> close, volume |-> volume]

\* f of every element of an array; its first elements.
Each(seq, f(_)) == [i \in DOMAIN seq |-> f(seq[i])]
First(seq, count) == SubSeq(seq, 1, IF count < Len(seq) THEN count ELSE Len(seq))

\* The elements of a finite set, sorted.
Sorted(S, Before(_, _)) ==
  CHOOSE seq \in [1 .. Cardinality(S) -> S] : \A i, j \in DOMAIN seq : i < j => Before(seq[i], seq[j])
=============================================================================
