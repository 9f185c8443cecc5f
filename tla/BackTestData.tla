---------------------------- MODULE BackTestData ----------------------------
(***************************************************************************)
(* The data of a back test: csv_data_source and data_factory, which load   *)
(* it, and back_testing_data, which walks it as time advances.             *)
(*                                                                         *)
(* Each pair has a list of candles with gaps of any length.  Queries share *)
(* one cached iterator per pair, which only moves forward.  A query of the *)
(* past merges candles into the windows of the interval it asks for; two   *)
(* iterators run backwards over the same list for that.                    *)
(*                                                                         *)
(* Iterators are indices, 0 is std::nullopt or no entry.  Times are        *)
(* positive, and configured limits of 0 mean the limits of the data.       *)
(* Definitions marked `Fault' are what a plausible bug would make of the   *)
(* next definition; only the mutation checks use them.                     *)
(***************************************************************************)
EXTENDS Integers, Sequences

Sets == INSTANCE FiniteSetsExt

CONSTANTS Pairs,
          Files,      \* possible contents of the data directory: pair -> rows
          StepSize,   \* back_testing_config::step_size
          ConfigStart, ConfigEnd,
          Intervals,  \* candle intervals the strategy asks for
          MaxCount    \* and how many candles at most

Row == [time : Nat \ {0}, open : Nat, high : Nat, low : Nat, close : Nat, volume : Nat]

\* back_testing_config::validate, and a directory with data.  A dynamic load,
\* which must have both limits, reads the same rows later.
DataAssumption ==
  /\ Files \subseteq [Pairs -> Seq(Row)]
  /\ \A f \in Files : \E p \in Pairs : f[p] # <<>>
  /\ StepSize \in Nat \ {0}
  /\ ConfigStart \in Nat /\ ConfigEnd \in Nat
  /\ ConfigEnd # 0 => ConfigEnd > ConfigStart
  /\ Intervals \subseteq Nat \ {0}
  /\ MaxCount \in Nat

VARIABLES data,          \* _data, all loaded at the start
          dataTime,      \* _dataTime
          iteratorCache  \* _iteratorCache

dataVars == <<data, dataTime, iteratorCache>>

Later(a, b) == IF a > b THEN a ELSE b

-----------------------------------------------------------------------------
(***************************************************************************)
(* Loading.                                                                *)
(***************************************************************************)
\* Fault: ohlcv_data_selector lets every row pass.
KeepRow(kept, row) == Append(kept, row)

\* ohlcv_data_selector: rows closer than a step to the last row kept are
\* dropped.
SelectRow(kept, row) ==
  IF kept # <<>> /\ row.time - kept[Len(kept)].time < StepSize
    THEN kept ELSE Append(kept, row)

\* The rows kept are in order of time: sorting them changes nothing.
LoadData(rows) ==
  LET Kept[n \in 0 .. Len(rows)] ==
        IF n = 0 THEN <<>> ELSE SelectRow(Kept[n - 1], rows[n])
  IN  Kept[Len(rows)]

Loaded == {p \in Pairs : data[p] # <<>>}
StartTime == IF ConfigStart # 0 THEN ConfigStart
             ELSE Sets!Min({data[p][1].time : p \in Loaded})
EndTime == IF ConfigEnd # 0 THEN ConfigEnd
           ELSE Sets!Max({data[p][Len(data[p])].time : p \in Loaded})

\* calculate_time_steps; the division of C++ truncates towards zero.
TimeSteps == IF EndTime >= StartTime
               THEN (EndTime - StartTime) \div StepSize + 1
               ELSE 1 - (StartTime - EndTime) \div StepSize

-----------------------------------------------------------------------------
(***************************************************************************)
(* The walk.                                                               *)
(***************************************************************************)
\* Fault: a candle that begins later is not stepped back from.
WalkPast(d, from) == Sets!Min({i \in from .. Len(d) : d[i].time >= dataTime})

\* The loop of get_iterator: on to the first candle that is not before
\* _dataTime, and one back when it begins later.
Walk(d, from) ==
  LET stop == Sets!Min({i \in from .. Len(d) : d[i].time >= dataTime})
  IN  IF d[stop].time > dataTime THEN stop - 1 ELSE stop

BeforeData(d) == d = <<>> \/ dataTime < d[1].time
PastData(d) == dataTime > d[Len(d)].time

GetIterator(p) ==
  LET d == data[p]
  IN  IF BeforeData(d) THEN 0
      ELSE IF PastData(d) THEN Len(d)
      ELSE Walk(d, Later(1, iteratorCache[p]))

\* The cache after a query of the pair.
CacheAfter(p) ==
  LET d == data[p]
  IN  IF BeforeData(d) \/ PastData(d) THEN iteratorCache
      ELSE [iteratorCache EXCEPT ![p] = GetIterator(p)]

\* get_trade: the open of the current candle, or the last close when the data
\* is over.
TradePrice(p) ==
  LET d == data[p]
      it == GetIterator(p)
  IN  IF it = 0 THEN 0
      ELSE IF it = Len(d) /\ dataTime > d[it].time THEN d[it].close
      ELSE d[it].open

\* get_order_book: one ask, at the high of the current candle.
Asks(p) == LET it == GetIterator(p) IN IF it = 0 THEN <<>> ELSE <<data[p][it].high>>

\* merge_ohlcv: the candles first .. last as one.
MergeCandle(c, next) ==
  [c EXCEPT !.high = Later(@, next.high),
            !.low = IF next.low < @ THEN next.low ELSE @,
            !.close = next.close,
            !.volume = @ + next.volume]

MergeOhlcv(d, first, last, time) ==
  LET Merged[n \in 0 .. last - first] ==
        IF n = 0 THEN [d[first] EXCEPT !.time = time]
        ELSE MergeCandle(Merged[n - 1], d[first + n])
  IN  Merged[last - first]

\* Fault: the end of a window is never moved on.
WindowWithoutEnd(d, interval, w) ==
  LET target == Later(w.target - interval, d[1].time)
      start == Sets!Max({1} \cup {i \in 1 .. w.end : d[i].time <= target})
  IN  [target |-> target, end |-> start, done |-> target = d[1].time /\ start = 1,
       windows |-> Append(w.windows,
         [time |-> target, first |-> start, last |-> Later(start, w.end - 1)])]

\* An iteration of get_ohlcv: the window that begins at `target' (not before the
\* data), from the candle that holds its beginning to the one before `end'.
NextWindow(d, interval, w) ==
  LET target == Later(w.target - interval, d[1].time)
      end == IF target + interval > d[w.end].time THEN w.end + 1 ELSE w.end
      start == Sets!Max({1} \cup {i \in 1 .. w.end : d[i].time <= target})
  IN  [target |-> target, end |-> start, done |-> target = d[1].time /\ start = 1,
       windows |-> Append(w.windows,
         [time |-> target, first |-> start, last |-> Later(start, end - 1)])]

\* The loop of get_ohlcv: which candles go into each candle of the answer.
OhlcvWindows(p, interval, count) ==
  LET d == data[p]
      it == GetIterator(p)
      After[n \in 0 .. count] ==
        IF n = 0 THEN [target |-> dataTime, end |-> it, done |-> FALSE, windows |-> <<>>]
        ELSE IF After[n - 1].done THEN After[n - 1]
        ELSE NextWindow(d, interval, After[n - 1])
  IN  IF it = 0 \/ (it = 1 /\ dataTime = d[1].time) THEN <<>> ELSE After[count].windows

GetOhlcv(p, interval, count) ==
  LET windows == OhlcvWindows(p, interval, count)
  IN  [i \in DOMAIN windows |->
         MergeOhlcv(data[p], windows[i].first, windows[i].last, windows[i].time)]

-----------------------------------------------------------------------------
(***************************************************************************)
(* What changes: queries move the cache, the runner advances the time.      *)
(***************************************************************************)
DataInit == /\ \E f \in Files : data = [p \in Pairs |-> LoadData(f[p])]
            /\ dataTime = StartTime
            /\ iteratorCache = [p \in Pairs |-> 0]

\* A call of get_trade, get_order_book or get_ohlcv.
Query(p) == /\ iteratorCache' = CacheAfter(p)
            /\ UNCHANGED <<data, dataTime>>

Increment == /\ dataTime' = dataTime + StepSize
             /\ UNCHANGED <<data, iteratorCache>>

-----------------------------------------------------------------------------
(***************************************************************************)
(* The data without a walk.                                                *)
(***************************************************************************)
\* The last candle that has begun at `time', 0 if there is none.
LatestAt(d, time) == Sets!Max({0} \cup {i \in DOMAIN d : d[i].time <= time})

\* The cache never runs ahead: whatever was asked before, a query finds the
\* candle that has begun last (get_iterator).
IteratorIsLatest == \A p \in Pairs : GetIterator(p) = LatestAt(data[p], dataTime)

\* The volume of the first n candles.
VolumeUpTo(d) ==
  LET Traded[n \in 0 .. Len(d)] == IF n = 0 THEN 0 ELSE Traded[n - 1] + d[n].volume
  IN  Traded

\* The k-th candle back covers the time from dataTime - k * interval to
\* dataTime - (k - 1) * interval: the candle that has begun last when it begins
\* and every one that begins within it.
WindowOf(d, interval, k) ==
  LET begins == dataTime - k * interval
      ends == dataTime - (k - 1) * interval
      first == LatestAt(d, begins)
      last == Sets!Max({i \in DOMAIN d : d[i].time < ends})
      inside == first .. last
  IN  [time |-> begins, open |-> d[first].open, close |-> d[last].close,
       high |-> Sets!Max({d[i].high : i \in inside}),
       low |-> Sets!Min({d[i].low : i \in inside}),
       volume |-> VolumeUpTo(d)[last] - VolumeUpTo(d)[first - 1]]

\* get_ohlcv walks two iterators from one window to the next without losing or
\* adding a candle, as far back as whole windows go, and stops at the first
\* candle of the data (the last window may be shorter than the interval).
OhlcvMatchesWindows ==
  \A p \in Pairs, interval \in Intervals :
    LET d == data[p]
        candles == GetOhlcv(p, interval, MaxCount)
    IN  \A k \in 1 .. MaxCount :
          IF BeforeData(d) \/ dataTime - (k - 1) * interval <= d[1].time
            THEN k \notin DOMAIN candles
          ELSE IF dataTime - k * interval >= d[1].time
            THEN k \in DOMAIN candles /\ candles[k] = WindowOf(d, interval, k)
          ELSE k \in DOMAIN candles /\ candles[k].time = d[1].time

\* No step of time passes over a candle: data_factory's steps and
\* csv_data_source's selection of rows fit together.
NoCandleSkipped ==
  [][\A p \in Pairs : LatestAt(data'[p], dataTime') <= LatestAt(data[p], dataTime) + 1
    ]_<<data, dataTime, iteratorCache>>

\* A candle that begins now is in the future
\* (back_testing_data_test.cpp, GetOhlcvReturnsEmptyVectorIfTimeEqualToFirstPoint
\* and GetOhlcvReturnsCandleAtPreviousPointIfIntervalEqualToDataInterval): it is
\* not part of an answer of get_ohlcv.
NoFutureCandle ==
  \A p \in Pairs, interval \in Intervals :
    LET windows == OhlcvWindows(p, interval, MaxCount)
    IN  \A k \in DOMAIN windows : data[p][windows[k].last].time < dataTime
=============================================================================
