---------------------------- MODULE TickToKline ----------------------------
(***************************************************************************)
(* TickToKlineHelper: ticks, read from a file or pushed by the exchange,   *)
(* are gathered until there are kDataLineNum of them and then turned into  *)
(* one bar of the k-line.  Bars of a file go to a file, bars of pushed     *)
(* ticks into m_KLineDataArray.                                            *)
(*                                                                         *)
(* A tick is its last price and the volume traded since the trading day    *)
(* began.  A line of a file should have four fields, of which the third is *)
(* the price and the fourth the volume (TickToKlineHelper.cpp:19); a       *)
(* shorter line gives what it has.                                         *)
(***************************************************************************)
EXTENDS Integers, Sequences, SequencesExt

CONSTANTS
  kDataLineNum,  \* ticks in a bar (120 in the code)
  Prices,        \* prices, numbers
  Steps,         \* by how much the volume may grow from one tick to the next
  Files,         \* recorded files: the lines under the header
  MaxTicks,      \* bound on the ticks the helper takes in before it starts anew
  MaxVolume,     \* bound on the volume traded altogether
  MaxDays        \* bound on the trading days that end

Line == [fields : Nat, price : Prices, volume : Nat]

ASSUME KlineAssumption ==
  /\ kDataLineNum \in Nat \ {0}
  /\ Prices \subseteq Int /\ Prices # {}
  /\ Steps \subseteq Nat /\ Steps # {}
  /\ Files \subseteq Seq(Line)
  /\ MaxTicks \in Nat /\ MaxVolume \in Nat /\ MaxDays \in Nat

VARIABLES
  m_priceVec, m_volumeVec,  \* the ticks of the bar in the making
  m_KLineDataArray,         \* bars of pushed ticks
  dstFile,                  \* bars the last conversion wrote
  srcInFile,                \* the lines a conversion has yet to read
  running,                  \* "idle", "converting" or "dead"
  volume,                   \* the exchange's count of the day's volume
  traded, day,              \* history: the volume traded altogether, the days ended
  stream,                   \* history: the prices taken in since the helper was
                            \* last empty, oldest first, each with its volume ...
  fromFile                  \* ... and how many of them came from a file

members == <<m_priceVec, m_volumeVec, m_KLineDataArray>>
exchange == <<volume, traded, day>>
vars == <<members, dstFile, srcInFile, running, exchange, stream, fromFile>>

\* The volume of a line that has none.
NoVolume == -1

Tick == [price : Prices, volume : Nat \cup {NoVolume}, traded : Nat, day : Nat]

\* A bar.
KLineDataType == [open_price : Prices, high_price : Prices, low_price : Prices,
                  close_price : Prices, volume : Int]

Init ==
  /\ m_priceVec = << >> /\ m_volumeVec = << >>
  /\ m_KLineDataArray = << >>
  /\ dstFile = << >> /\ srcInFile = << >>
  /\ running = "idle"
  /\ volume = 0 /\ traded = 0 /\ day = 0
  /\ stream = << >>
  /\ fromFile = 0

-----------------------------------------------------------------------------
(* What both loops do with a price and a volume. *)

\* front() and back() of a vector that may be empty: then whatever lies where
\* an element would be, for which this number stands.
Garbage == 0

Difference(v) == IF v = << >> THEN Garbage ELSE Last(v) - Head(v)

\* Seeded fault: the volume is what the day has seen so far.
BarOfDay(p, v) ==
  [open_price |-> Head(p), high_price |-> Max(Range(p)), low_price |-> Min(Range(p)),
   close_price |-> Last(p), volume |-> IF v = << >> THEN Garbage ELSE Last(v)]

Bar(p, v) ==
  [open_price |-> Head(p), high_price |-> Max(Range(p)), low_price |-> Min(Range(p)),
   close_price |-> Last(p), volume |-> Difference(v)]

\* Seeded fault: the volumes of a finished bar are kept.
GatherKeepsVolumes(p, v, bars) ==
  /\ m_priceVec' = IF Len(p) = kDataLineNum THEN << >> ELSE p
  /\ m_volumeVec' = v
  /\ bars' = IF Len(p) = kDataLineNum THEN Append(bars, Bar(p, v)) ELSE bars

\* The vectors have become p and v; a bar that is full goes to bars.
Gather(p, v, bars) ==
  IF Len(p) = kDataLineNum
  THEN /\ m_priceVec' = << >> /\ m_volumeVec' = << >>
       /\ bars' = Append(bars, Bar(p, v))
  ELSE m_priceVec' = p /\ m_volumeVec' = v /\ UNCHANGED bars

-----------------------------------------------------------------------------
(* KLineFromLocalData, from its first line to its last. *)

\* Seeded fault: what the helper held before is not cleared.
BeginsUncleared(lines) ==
  /\ running = "idle"
  /\ running' = "converting"
  /\ srcInFile' = lines /\ dstFile' = << >>
  /\ m_KLineDataArray' = << >>
  /\ stream' = << >> /\ fromFile' = 0
  /\ UNCHANGED <<m_priceVec, m_volumeVec, exchange>>

\* A file that cannot be opened has no lines.
KLineFromLocalDataBegins(lines) ==
  /\ running = "idle"
  /\ running' = "converting"
  /\ srcInFile' = lines /\ dstFile' = << >>
  /\ m_priceVec' = << >> /\ m_volumeVec' = << >> /\ m_KLineDataArray' = << >>
  /\ stream' = << >> /\ fromFile' = 0
  /\ UNCHANGED exchange

\* What a line with this many fields adds to either vector.
PriceOf(line) == IF line.fields >= 3 THEN <<line.price>> ELSE << >>
VolumeOf(line) == IF line.fields >= 4 THEN <<line.volume>> ELSE << >>

ReadLine ==
  /\ running = "converting" /\ srcInFile # << >>
  /\ srcInFile' = Tail(srcInFile)
  /\ LET line == Head(srcInFile)
         read == [price |-> line.price, traded |-> 0, day |-> 0,
                  volume |-> IF line.fields >= 4 THEN line.volume ELSE NoVolume]
     IN  /\ Gather(m_priceVec \o PriceOf(line), m_volumeVec \o VolumeOf(line), dstFile)
         /\ stream' = IF line.fields >= 3 THEN Append(stream, read) ELSE stream
  /\ fromFile' = Len(stream')
  /\ UNCHANGED <<m_KLineDataArray, running, exchange>>

\* The line fills a bar of which no line had a volume: reading an empty vector
\* may also end the process.
ReadLineDies ==
  /\ running = "converting" /\ srcInFile # << >>
  /\ LET line == Head(srcInFile)
     IN  /\ Len(m_priceVec \o PriceOf(line)) = kDataLineNum
         /\ m_volumeVec \o VolumeOf(line) = << >>
  /\ running' = "dead"
  /\ UNCHANGED <<members, dstFile, srcInFile, exchange, stream, fromFile>>

KLineFromLocalDataEnds ==
  /\ running = "converting" /\ srcInFile = << >>
  /\ running' = "idle"
  /\ UNCHANGED <<members, dstFile, srcInFile, exchange, stream, fromFile>>

-----------------------------------------------------------------------------
(* The exchange. *)

\* A tick is pushed, the volume of the day grown by some step.
KLineFromRealtimeData(p, step) ==
  /\ running = "idle"
  /\ Len(stream) < MaxTicks /\ traded + step <= MaxVolume
  /\ volume' = volume + step /\ traded' = traded + step
  /\ Gather(Append(m_priceVec, p), Append(m_volumeVec, volume'), m_KLineDataArray)
  /\ stream' = Append(stream, [price |-> p, volume |-> volume', traded |-> traded', day |-> day])
  /\ UNCHANGED <<dstFile, srcInFile, running, day, fromFile>>

\* A trading day ends, and its volume with it.
DayEnds ==
  /\ running = "idle"
  /\ day < MaxDays
  /\ day' = day + 1
  /\ volume' = 0
  /\ UNCHANGED <<members, dstFile, srcInFile, running, traded, stream, fromFile>>

Next ==
  \/ \E lines \in Files : KLineFromLocalDataBegins(lines)
  \/ ReadLine
  \/ ReadLineDies
  \/ KLineFromLocalDataEnds
  \/ \E p \in Prices, step \in Steps : KLineFromRealtimeData(p, step)
  \/ DayEnds

Spec == Init /\ [][Next]_vars

-----------------------------------------------------------------------------
(* Properties *)

\* The vectors never hold a full bar between two lines or calls: if they did
\* the test for equality (TickToKlineHelper.cpp:58, 90) would never be true
\* again.  Lines without a volume leave the second vector the shorter one.
TypeOK ==
  /\ m_priceVec \in Seq(Prices) /\ m_volumeVec \in Seq(Nat)
  /\ Len(m_priceVec) < kDataLineNum
  /\ Len(m_volumeVec) <= Len(m_priceVec)
  /\ m_KLineDataArray \in Seq(KLineDataType) /\ dstFile \in Seq(KLineDataType)
  /\ srcInFile \in Seq(Line) /\ running \in {"idle", "converting", "dead"}
  /\ volume \in Nat /\ traded \in Nat /\ day \in Nat
  /\ stream \in Seq(Tick) /\ fromFile \in 0 .. Len(stream)

\* Those of the ticks w, from the first to the last, that have a volume.
Measured(w, first, last) == {i \in first .. last : w[i].volume # NoVolume}

\* v holds the volumes of these ticks, one by one and in order.
AreVolumes(v, w, first, last) ==
  \E at \in [DOMAIN v -> Measured(w, first, last)] :
    /\ \A i, j \in DOMAIN v : i < j => at[i] < at[j]
    /\ \A n \in Measured(w, first, last) : \E i \in DOMAIN v : at[i] = n
    /\ \A i \in DOMAIN v : v[i] = w[at[i]].volume

\* What a bar says of the ticks w, from the first to the last, stated without
\* computing it.  If none of them has a volume there is nothing that the bar
\* could say of the volume.
IsBarOf(bar, w, first, last) ==
  LET measured == Measured(w, first, last)
  IN  /\ bar.open_price = w[first].price
      /\ bar.close_price = w[last].price
      /\ \A i \in first .. last : bar.low_price <= w[i].price /\ w[i].price <= bar.high_price
      /\ \E i \in first .. last : bar.low_price = w[i].price
      /\ \E i \in first .. last : bar.high_price = w[i].price
      /\ measured # {} =>
           \E i, j \in measured : /\ \A n \in measured : i <= n /\ n <= j
                                  /\ bar.volume = w[j].volume - w[i].volume

\* All bars, in the file and in memory, in order.
Bars == dstFile \o m_KLineDataArray

\* The stream is cut into bars with no tick left out and none used twice, from
\* the file into the pushed ticks, and every bar is the bar of its ticks: a line
\* without a volume, or a new trading day, shows in the bar that it falls into
\* and in no later one (TickToKlineHelper.cpp:33-78, 88-103).
BarsExact ==
  LET made == Len(Bars) * kDataLineNum
  IN  /\ \A b \in DOMAIN Bars :
           IsBarOf(Bars[b], stream, (b - 1) * kDataLineNum + 1, b * kDataLineNum)
      /\ Len(stream) = made + Len(m_priceVec)
      /\ \A i \in DOMAIN m_priceVec : m_priceVec[i] = stream[made + i].price
      /\ AreVolumes(m_volumeVec, stream, made + 1, Len(stream))

\* A bar of pushed ticks in which no trading day ends says exactly what was
\* traded from its first tick to its last; one in which a day ends says no more
\* than that, and may say less than nothing (TickToKlineHelper.cpp:98).  So no
\* trade is ever counted twice.
VolumeNotOvercounted ==
  \A b \in DOMAIN m_KLineDataArray :
    LET end == (Len(dstFile) + b) * kDataLineNum
        first == stream[end - kDataLineNum + 1]
        last == stream[end]
        truly == last.traded - first.traded
    IN  end - kDataLineNum >= fromFile =>
          IF first.day = last.day THEN m_KLineDataArray[b].volume = truly
                                  ELSE m_KLineDataArray[b].volume <= truly

\* The volume of a bar is the last of its own interval less the last of the
\* interval before (the comment at TickToKlineHelper.cpp:97).
VolumeOfInterval ==
  \A i \in DOMAIN m_KLineDataArray \ {1} :
    LET end == (Len(dstFile) + i) * kDataLineNum
    IN  m_KLineDataArray[i].volume = stream[end].volume - stream[end - kDataLineNum].volume

\* Ticks at the end of a file that do not fill a bar are dropped, so bars of
\* pushed ticks are made of pushed ticks (the comment at
\* TickToKlineHelper.cpp:9).
TailDropped ==
  m_KLineDataArray # << >> => Len(dstFile) * kDataLineNum >= fromFile
=============================================================================
