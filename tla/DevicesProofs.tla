--------------------------- MODULE DevicesProofs ---------------------------
(***************************************************************************)
(* Theorems about LogFollower, for any number of threads, logs and records *)
(* and both parsers: the state keeps its types, and threads that share a   *)
(* position without a lock skip no record of the first log between them.   *)
(* Then the types of LogFollower, Ros2Monitor and ThrusterFeed together,   *)
(* for any checking threads, nodes, topics and throttle interval; the      *)
(* topics of ThrusterFeed, subscribed whenever the connection is up; and   *)
(* the status in Ros2Monitor, which stays what it is while the system does.*)
(***************************************************************************)
EXTENDS MCDevices, FiniteSetTheorems, SequenceTheorems, TLAPS

Labels == {"idle", "open", "read", "told", "parsed"}

\* The types that the position and the reads depend on.
ReadsTyped ==
  /\ sizes \in Seq(0..MaxUnits) /\ Len(sizes) <= MaxLogs
  /\ pos \in 0..MaxUnits
  /\ pc \in [Readers -> Labels] /\ chunk \in [Readers -> Chunk]

\* A reader has a chunk only between opening a log and parsing what it read.
ChunksHeld ==
  \A r \in Readers :
    /\ pc[r] \in {"idle", "parsed"} => chunk[r] = NoChunk
    /\ pc[r] \in {"open", "read"} => chunk[r].log \in 1..Len(sizes)

\* A record that is parsed, in the hands of a reader, or torn.
Accounted(rec) ==
  \/ rec \in seen
  \/ \E r \in Readers : pc[r] = "told" /\ rec \in ToSet(RecordsIn(chunk[r]))
  \/ <<rec[1], 2 * rec[2] - 1>> \in cuts

\* Everything up to p of the first log is accounted for, also the record that
\* p lies inside.
Reached(p) ==
  /\ p <= sizes[1]
  /\ p % 2 = 1 => <<1, p>> \in cuts
  /\ \A rec \in Written : 2 * rec[2] <= p => Accounted(rec)

\* It holds of the position, and of the positions readers have started from.
FirstLogReached ==
  /\ Len(sizes) = 0 => pos = 0
  /\ Len(sizes) = 1 =>
       /\ Reached(pos)
       /\ \A r \in Readers :
            /\ pc[r] \in {"open", "read"} => Reached(chunk[r].lo)
            /\ pc[r] = "read" =>
                 /\ chunk[r].lo <= chunk[r].hi /\ chunk[r].hi <= sizes[1]
                 /\ chunk[r].hi % 2 = 1 => <<1, chunk[r].hi>> \in cuts

LogInv == ReadsTyped /\ ChunksHeld /\ FirstLogReached

\* The records that a chunk holds are those that lie wholly in it.
LEMMA WithinChunk ==
  ASSUME LogAssumption, NEW lo \in 0..MaxUnits, NEW hi \in 0..MaxUnits
  PROVE  {k \in 1..MaxUnits \div 2 : lo <= 2 * k - 2 /\ 2 * k <= hi}
           = (lo + 1) \div 2 + 1 .. hi \div 2
BY DEF LogAssumption

\* The records read whole from a chunk are those whose two units lie in it.
LEMMA RecordsInChunk ==
  ASSUME LogAssumption, NEW c \in Chunk
  PROVE  \A rec : rec \in ToSet(RecordsIn(c)) <=>
                    \E k \in 1..MaxUnits \div 2 :
                      /\ rec = <<c.log, k>>
                      /\ c.lo <= 2 * k - 2 /\ 2 * k <= c.hi
<1> DEFINE a == (c.lo + 1) \div 2
           b == c.hi \div 2
           within == {k \in 1..MaxUnits \div 2 : c.lo <= 2 * k - 2 /\ 2 * k <= c.hi}
<1>1. c.lo \in 0..MaxUnits /\ c.hi \in 0..MaxUnits
  BY DEF Chunk
<1>2. within = a + 1 .. b
  BY <1>1, WithinChunk
<1>3. a \in Nat /\ b \in Nat
  BY <1>1 DEF LogAssumption
<1>4. a + 1 \in Int /\ b \in Int
  BY <1>3
<1>5. Cardinality(a + 1 .. b) = IF a + 1 > b THEN 0 ELSE b - a
  <2> HIDE DEF a, b
  <2>1. Cardinality(a + 1 .. b) = IF a + 1 > b THEN 0 ELSE b - (a + 1) + 1
    BY <1>4, FS_Interval
  <2> QED BY <1>3, <2>1
<1>6. RecordsIn(c) = [i \in 1..Cardinality(within) |-> <<c.log, i + a>>]
  BY DEF RecordsIn
<1>7. \A k : k \in a + 1 .. b <=> k \in 1..MaxUnits \div 2 /\ c.lo <= 2 * k - 2 /\ 2 * k <= c.hi
  BY <1>2
<1> DEFINE n == Cardinality(within)
<1>8. n = IF a + 1 > b THEN 0 ELSE b - a
  BY <1>2, <1>5
<1> HIDE DEF a, b, n
<1>9. \A rec : rec \in ToSet(RecordsIn(c)) <=>
                 \E i \in 1..n : rec = <<c.log, i + a>>
  BY <1>6 DEF ToSet, n
<1>10. \A i \in 1..n : i + a \in a + 1 .. b
  BY <1>3, <1>8
<1>11. \A k \in a + 1 .. b : k - a \in 1..n /\ (k - a) + a = k
  BY <1>3, <1>8
<1>12. \A rec : (\E i \in 1..n : rec = <<c.log, i + a>>) <=>
                  \E k \in a + 1 .. b : rec = <<c.log, k>>
  BY <1>10, <1>11
<1> QED BY <1>7, <1>9, <1>12

\* A step keeps the types, and a reader's chunk with its label.
LEMMA ReadsStep ==
  ASSUME LogAssumption, ReadsTyped, ChunksHeld, [Next]_vars
  PROVE  ReadsTyped' /\ ChunksHeld'
<1> USE DEF LogAssumption, Labels, Chunk
<1>1. Len(sizes) \in Nat /\ DOMAIN sizes = 1..Len(sizes) /\ \A l \in 1..Len(sizes) : sizes[l] \in 0..MaxUnits
  BY DEF ReadsTyped
<1>2. CASE NewLog
  <2>1. 0 \in 0..MaxUnits
    OBVIOUS
  <2>2. sizes' \in Seq(0..MaxUnits) /\ Len(sizes') = Len(sizes) + 1
    BY <1>2, <2>1, AppendProperties DEF NewLog, ReadsTyped
  <2> QED BY <1>1, <1>2, <2>2 DEF NewLog, cache, ReadsTyped, ChunksHeld
<1>3. CASE DriverWrites
  <2>1. sizes # <<>> /\ Len(sizes) \in 1..Len(sizes)
    BY <1>1, <1>3, EmptySeq DEF DriverWrites, ReadsTyped
  <2>2. Last(sizes) = sizes[Len(sizes)]
    BY DEF Last
  <2>3. sizes[Len(sizes)] + 1 \in 0..MaxUnits
    BY <1>1, <1>3, <2>1, <2>2 DEF DriverWrites
  <2>4. sizes' \in Seq(0..MaxUnits) /\ Len(sizes') = Len(sizes)
    BY <1>3, <2>1, <2>3, ExceptSeq DEF DriverWrites, ReadsTyped
  <2> QED BY <1>1, <1>3, <2>4 DEF DriverWrites, cache, ReadsTyped, ChunksHeld
<1>4. CASE Tick
  BY <1>4 DEF Tick, ReadsTyped, ChunksHeld
<1>5. ASSUME NEW r \in Readers, OpenLog(r)
      PROVE  ReadsTyped' /\ ChunksHeld'
  <2>1. CASE sizes = <<>>
    BY <1>5, <2>1 DEF OpenLog, Go, logs, cache, ReadsTyped, ChunksHeld
  <2>2. CASE sizes # <<>>
    <3>1. Len(sizes) \in 1..Len(sizes) /\ Len(sizes) \in 0..MaxLogs
      BY <1>1, <2>2, EmptySeq DEF ReadsTyped
    <3> DEFINE c == [log |-> Len(sizes), lo |-> pos, hi |-> pos]
    <3>2. c \in Chunk /\ c.log \in 1..Len(sizes)
      BY <3>1 DEF ReadsTyped
    <3>3. pc' = [pc EXCEPT ![r] = "open"] /\ chunk' = [chunk EXCEPT ![r] = c] /\ UNCHANGED <<sizes, pos>>
      BY <1>5, <2>2 DEF OpenLog, Go, logs
    <3> HIDE DEF c
    <3> QED BY <3>2, <3>3 DEF ReadsTyped, ChunksHeld
  <2> QED BY <2>1, <2>2
<1>6. ASSUME NEW r \in Readers, ReadLines(r)
      PROVE  ReadsTyped' /\ ChunksHeld'
  <2> DEFINE c == chunk[r]
             end == IF sizes[c.log] > c.lo THEN sizes[c.log] ELSE c.lo
  <2>1. c.log \in 1..Len(sizes) /\ c.lo \in 0..MaxUnits
    BY <1>6 DEF ReadLines, ReadsTyped, ChunksHeld
  <2>2. end \in 0..MaxUnits
    BY <1>1, <2>1
  <2>3. chunk' = [chunk EXCEPT ![r].hi = end]
    BY <1>6 DEF ReadLines
  <2>4. pc' = [pc EXCEPT ![r] = "read"] /\ UNCHANGED <<sizes, pos>>
    BY <1>6 DEF ReadLines, Go, logs
  <2>5. c \in Chunk
    BY DEF ReadsTyped
  <2> HIDE DEF end
  <2>6. ReadsTyped'
    BY <2>2, <2>3, <2>4, <2>5 DEF ReadsTyped, Labels, Chunk
  <2>7. chunk'[r].log = c.log /\ pc'[r] = "read"
    BY <2>3, <2>4, <2>5 DEF ReadsTyped, Chunk
  <2>8. \A s \in Readers : s # r => chunk'[s] = chunk[s] /\ pc'[s] = pc[s]
    BY <2>3, <2>4 DEF ReadsTyped
  <2> HIDE DEF c
  <2> QED BY <2>1, <2>4, <2>6, <2>7, <2>8 DEF ChunksHeld
<1>7. ASSUME NEW r \in Readers, KeepPosition(r)
      PROVE  ReadsTyped' /\ ChunksHeld'
  BY <1>7 DEF KeepPosition, Go, logs, cache, ReadsTyped, ChunksHeld
<1>8. ASSUME NEW r \in Readers, Parse(r)
      PROVE  ReadsTyped' /\ ChunksHeld'
  <2>1. NoChunk \in Chunk
    BY DEF NoChunk
  <2>2. pc' = [pc EXCEPT ![r] = "parsed"] /\ chunk' = [chunk EXCEPT ![r] = NoChunk] /\ UNCHANGED <<sizes, pos>>
    BY <1>8 DEF Parse, Go, logs
  <2> QED BY <2>1, <2>2 DEF ReadsTyped, ChunksHeld
<1>9. ASSUME NEW r \in Readers, Answer(r)
      PROVE  ReadsTyped' /\ ChunksHeld'
  BY <1>9 DEF Answer, Go, logs, ReadsTyped, ChunksHeld
<1>10. CASE UNCHANGED vars
  BY <1>10 DEF vars, ReadsTyped, ChunksHeld
<1> QED BY <1>2, <1>3, <1>4, <1>5, <1>6, <1>7, <1>8, <1>9, <1>10 DEF Next, GetStatistics

\* Once accounted for, a record stays so: a reader parses what it holds.
LEMMA AccountedStays ==
  ASSUME ReadsTyped, [Next]_vars, NEW rec, Accounted(rec)
  PROVE  Accounted(rec)'
<1>1. CASE NewLog
  BY <1>1 DEF NewLog, cache, Accounted
<1>2. CASE DriverWrites
  BY <1>2 DEF DriverWrites, cache, Accounted
<1>3. CASE Tick
  BY <1>3 DEF Tick, Accounted
<1>4. ASSUME NEW r \in Readers, OpenLog(r)
      PROVE  Accounted(rec)'
  <2>1. pc[r] = "idle" /\ \A q \in Readers \ {r} : pc'[q] = pc[q] /\ chunk'[q] = chunk[q]
    BY <1>4 DEF OpenLog, Go, ReadsTyped
  <2>2. UNCHANGED <<seen, cuts>>
    BY <1>4 DEF OpenLog
  <2> QED BY <2>1, <2>2 DEF Accounted
<1>5. ASSUME NEW r \in Readers, ReadLines(r)
      PROVE  Accounted(rec)'
  <2>1. pc[r] = "open" /\ \A q \in Readers \ {r} : pc'[q] = pc[q] /\ chunk'[q] = chunk[q]
    BY <1>5 DEF ReadLines, Go, ReadsTyped
  <2>2. seen' = seen /\ cuts \subseteq cuts'
    BY <1>5 DEF ReadLines
  <2> QED BY <2>1, <2>2 DEF Accounted
<1>6. ASSUME NEW r \in Readers, KeepPosition(r)
      PROVE  Accounted(rec)'
  BY <1>6 DEF KeepPosition, Go, ReadsTyped, Accounted
<1>7. ASSUME NEW r \in Readers, Parse(r)
      PROVE  Accounted(rec)'
  <2>1. \A q \in Readers \ {r} : pc'[q] = pc[q] /\ chunk'[q] = chunk[q]
    BY <1>7 DEF Parse, Go, ReadsTyped
  <2>2. seen' = seen \cup ToSet(RecordsIn(chunk[r])) /\ cuts' = cuts
    BY <1>7 DEF Parse
  <2> QED BY <2>1, <2>2 DEF Accounted
<1>8. ASSUME NEW r \in Readers, Answer(r)
      PROVE  Accounted(rec)'
  <2>1. pc[r] = "parsed" /\ \A q \in Readers \ {r} : pc'[q] = pc[q] /\ chunk'[q] = chunk[q]
    BY <1>8 DEF Answer, Go, ReadsTyped
  <2>2. UNCHANGED <<seen, cuts>>
    BY <1>8 DEF Answer
  <2> QED BY <2>1, <2>2 DEF Accounted
<1>9. CASE UNCHANGED vars
  BY <1>9 DEF vars, Accounted
<1> QED BY <1>1, <1>2, <1>3, <1>4, <1>5, <1>6, <1>7, <1>8, <1>9 DEF Next, GetStatistics

\* Logs are only added and only grow, and the cuts are kept.
LEMMA LogsGrow ==
  ASSUME LogAssumption, ReadsTyped, [Next]_vars
  PROVE  /\ Len(sizes') = Len(sizes) \/ NewLog
         /\ Len(sizes') = Len(sizes) => \A l \in 1..Len(sizes) : sizes[l] <= sizes'[l]
         /\ cuts \subseteq cuts'
<1>1. Len(sizes) \in Nat /\ DOMAIN sizes = 1..Len(sizes) /\ \A l \in 1..Len(sizes) : sizes[l] \in Int
  BY DEF ReadsTyped, LogAssumption
<1>2. CASE NewLog
  <2>1. Len(sizes') = Len(sizes) + 1
    BY <1>2, AppendProperties DEF NewLog, ReadsTyped
  <2>2. Len(sizes') # Len(sizes)
    <3>1. PICK n \in Nat : n = Len(sizes)
      BY <1>1
    <3>2. n + 1 # n
      OBVIOUS
    <3> QED BY <2>1, <3>1, <3>2
  <2>3. cuts' = cuts
    BY <1>2 DEF NewLog
  <2> QED BY <1>2, <2>2, <2>3
<1>3. CASE DriverWrites
  <2>1. Len(sizes) \in 1..Len(sizes)
    BY <1>1, <1>3, EmptySeq DEF DriverWrites, ReadsTyped
  <2>2. sizes' = [sizes EXCEPT ![Len(sizes)] = sizes[Len(sizes)] + 1]
    BY <1>3 DEF DriverWrites
  <2>3. \A l \in 1..Len(sizes) : sizes[l] <= sizes'[l]
    <3> SUFFICES ASSUME NEW l \in 1..Len(sizes)
                 PROVE  sizes[l] <= sizes'[l]
      OBVIOUS
    <3>1. sizes'[l] = IF l = Len(sizes) THEN sizes[l] + 1 ELSE sizes[l]
      BY <1>1, <2>1, <2>2
    <3>2. sizes[l] \in Int
      BY <1>1
    <3> QED BY <3>1, <3>2
  <2>4. sizes[Len(sizes)] + 1 \in Int
    BY <1>1, <2>1
  <2>5. sizes \in Seq(Int)
    BY <1>1, LenProperties DEF ReadsTyped, LogAssumption
  <2>6. Len(sizes') = Len(sizes)
    BY <2>1, <2>2, <2>4, <2>5, ExceptSeq
  <2> QED BY <1>3, <2>3, <2>6 DEF DriverWrites
<1>4. CASE Tick
  BY <1>1, <1>4 DEF Tick
<1>5. ASSUME NEW r \in Readers, GetStatistics(r)
      PROVE  sizes' = sizes /\ cuts \subseteq cuts'
  BY <1>5 DEF GetStatistics, OpenLog, ReadLines, KeepPosition, Parse, Answer, logs
<1>6. CASE UNCHANGED vars
  BY <1>1, <1>6 DEF vars
<1> QED BY <1>1, <1>2, <1>3, <1>4, <1>5, <1>6 DEF Next

\* A position that is reached stays reached, while there is one log.
LEMMA ReachedStays ==
  ASSUME LogAssumption, ReadsTyped, [Next]_vars, Len(sizes) = 1, Len(sizes') = 1,
         ReadsTyped', NEW p \in 0..MaxUnits, Reached(p)
  PROVE  Reached(p)'
<1>1. sizes[1] \in Int /\ sizes'[1] \in Int /\ sizes[1] <= sizes'[1] /\ cuts \subseteq cuts'
  <2>1. Len(sizes') = Len(sizes) => \A l \in 1..Len(sizes) : sizes[l] <= sizes'[l]
    BY LogsGrow
  <2>2. 1 \in 1..Len(sizes) /\ 1 \in 1..Len(sizes')
    OBVIOUS
  <2>3. sizes[1] \in 0..MaxUnits /\ sizes'[1] \in 0..MaxUnits
    BY <2>2, ElementOfSeq DEF ReadsTyped
  <2> QED BY <2>1, <2>2, <2>3, LogsGrow DEF LogAssumption
<1>2. ASSUME NEW rec \in Written', 2 * rec[2] <= p
      PROVE  Accounted(rec)'
  <2>1. rec[1] = 1 /\ rec[2] \in Int
    BY <1>2 DEF Written, Records, LogAssumption
  <2>2. rec \in Written
    BY <1>1, <1>2, <2>1 DEF Written, Records, Reached, LogAssumption
  <2>3. Accounted(rec)
    BY <1>2, <2>2 DEF Reached
  <2> QED BY <2>3, AccountedStays
<1> QED BY <1>1, <1>2 DEF Reached, LogAssumption

\* What a reader holds closes the gap between where it started and where it
\* stopped, except for the record that it started inside.
LEMMA KeepReaches ==
  ASSUME LogAssumption, ReadsTyped, ChunksHeld, ReadsTyped', Len(sizes) = 1,
         NEW r \in Readers, KeepPosition(r), [Next]_vars,
         Reached(chunk[r].lo), chunk[r].lo <= chunk[r].hi, chunk[r].hi <= sizes[1],
         chunk[r].hi % 2 = 1 => <<1, chunk[r].hi>> \in cuts
  PROVE  Reached(pos)'
<1>1. /\ pc[r] = "read" /\ pc' = [pc EXCEPT ![r] = "told"]
      /\ pos' = chunk[r].hi /\ UNCHANGED <<sizes, chunk, cuts, seen>>
  BY DEF KeepPosition, Go, logs
<1>2. PICK c \in Chunk : c = chunk[r]
  BY DEF ReadsTyped
<1>3. c.lo \in 0..MaxUnits /\ c.hi \in 0..MaxUnits /\ c.log = 1
  BY <1>1, <1>2 DEF Chunk, ChunksHeld
<1>4. Written' = Written
  BY <1>1 DEF Written
<1>5. ASSUME NEW rec \in Written, 2 * rec[2] <= c.hi
      PROVE  Accounted(rec)'
  <2>1. rec = <<1, rec[2]>> /\ rec[2] \in 1..MaxUnits \div 2
    BY DEF Written, Records, LogAssumption
  <2>2. CASE 2 * rec[2] <= c.lo
    BY <1>2, <2>2, AccountedStays DEF Reached
  <2>3. CASE c.lo <= 2 * rec[2] - 2
    <3>1. rec \in ToSet(RecordsIn(c))
      BY <1>3, <1>5, <2>1, <2>3, RecordsInChunk
    <3>2. pc'[r] = "told" /\ chunk'[r] = c
      BY <1>1, <1>2 DEF ReadsTyped
    <3> QED BY <3>1, <3>2 DEF Accounted
  <2>4. CASE c.lo = 2 * rec[2] - 1
    <3>1. c.lo % 2 = 1
      BY <2>1, <2>4 DEF LogAssumption
    <3>2. <<1, c.lo>> \in cuts
      BY <1>2, <3>1 DEF Reached
    <3>3. <<rec[1], 2 * rec[2] - 1>> \in cuts
      BY <2>1, <2>4, <3>2
    <3> QED BY <1>1, <3>3 DEF Accounted
  <2> QED BY <1>3, <2>1, <2>2, <2>3, <2>4 DEF LogAssumption
<1>6. /\ pos' = c.hi /\ pos' <= sizes'[1]
      /\ pos' % 2 = 1 => <<1, pos'>> \in cuts'
  BY <1>1, <1>2
<1> QED BY <1>4, <1>5, <1>6 DEF Reached

\* The position of the first log and its readers' starting points stay reached.
LEMMA FirstLogStep ==
  ASSUME LogAssumption, LogInv, [Next]_vars
  PROVE  FirstLogReached'
<1> USE DEF LogInv
<1>1. ReadsTyped' /\ ChunksHeld'
  BY ReadsStep
<1>2. CASE NewLog
  <2>1. Len(sizes) \in Nat /\ Len(sizes') = Len(sizes) + 1 /\ UNCHANGED <<pos, pc, chunk>>
    BY <1>2, AppendProperties DEF NewLog, ReadsTyped
  <2>2. CASE Len(sizes) = 0
    <3>1. pos' = 0 /\ Len(sizes') = 1
      BY <2>1, <2>2 DEF FirstLogReached
    <3>2. \A r \in Readers : pc'[r] \notin {"open", "read"}
      BY <2>1, <2>2 DEF ChunksHeld
    <3>3. sizes'[1] \in 0..MaxUnits
      <4>1. 1 \in 1..Len(sizes')
        BY <3>1
      <4> QED BY <1>1, <4>1, ElementOfSeq DEF ReadsTyped
    <3>4. \A rec \in Written' : ~(2 * rec[2] <= 0)
      BY DEF Written, Records, LogAssumption
    <3> QED BY <3>1, <3>2, <3>3, <3>4 DEF FirstLogReached, Reached, LogAssumption
  <2>3. CASE Len(sizes) # 0
    <3>1. Len(sizes') # 0 /\ Len(sizes') # 1
      BY <2>1, <2>3
    <3> QED BY <3>1 DEF FirstLogReached
  <2> QED BY <2>2, <2>3
<1>3. CASE Len(sizes') = Len(sizes) /\ Len(sizes) = 0
  <2>1. \A r \in Readers : pc[r] \notin {"open", "read"}
    BY <1>3 DEF ChunksHeld
  <2>2. pos' = pos
    BY <2>1 DEF Next, NewLog, DriverWrites, Tick, GetStatistics, OpenLog, ReadLines,
                KeepPosition, Parse, Answer, vars
  <2> QED BY <1>3, <2>2 DEF FirstLogReached
<1>4. CASE Len(sizes') = Len(sizes) /\ Len(sizes) = 1
  <2>1. sizes[1] \in 0..MaxUnits /\ sizes'[1] \in 0..MaxUnits /\ sizes[1] <= sizes'[1] /\ cuts \subseteq cuts'
    <3>1. 1 \in 1..Len(sizes) /\ 1 \in 1..Len(sizes')
      BY <1>4
    <3> QED BY <1>1, <1>4, <3>1, LogsGrow, ElementOfSeq DEF ReadsTyped
  <2>2. Reached(pos) /\ \A q \in Readers :
          /\ pc[q] \in {"open", "read"} => Reached(chunk[q].lo)
          /\ pc[q] = "read" =>
               /\ chunk[q].lo <= chunk[q].hi /\ chunk[q].hi <= sizes[1]
               /\ chunk[q].hi % 2 = 1 => <<1, chunk[q].hi>> \in cuts
    BY <1>4 DEF FirstLogReached
  <2>3. \A p \in 0..MaxUnits : Reached(p) => Reached(p)'
    BY <1>1, <1>4, ReachedStays
  <2> DEFINE ReaderFine(q) ==
        /\ pc'[q] \in {"open", "read"} => Reached(chunk[q].lo)'
        /\ pc'[q] = "read" =>
             /\ chunk'[q].lo <= chunk'[q].hi /\ chunk'[q].hi <= sizes'[1]
             /\ chunk'[q].hi % 2 = 1 => <<1, chunk'[q].hi>> \in cuts'
  <2>4. ASSUME NEW q \in Readers, pc'[q] = pc[q], chunk'[q] = chunk[q]
        PROVE  ReaderFine(q)
    <3>1. PICK c \in Chunk : c = chunk[q]
      BY DEF ReadsTyped
    <3>2. c.lo \in 0..MaxUnits /\ c.hi \in 0..MaxUnits
      BY <3>1 DEF Chunk
    <3>3. pc[q] \in {"open", "read"} => Reached(c.lo)'
      BY <2>2, <2>3, <3>1, <3>2
    <3>4. c.hi <= sizes[1] => c.hi <= sizes'[1]
      BY <2>1, <3>2 DEF LogAssumption
    <3> QED BY <2>1, <2>2, <2>4, <3>1, <3>3, <3>4
  <2>5. pos' = pos => Reached(pos)'
    <3>1. PICK p \in 0..MaxUnits : p = pos
      BY DEF ReadsTyped
    <3>2. Reached(p)'
      BY <2>2, <2>3, <3>1
    <3> QED BY <3>1, <3>2
  <2>6. ASSUME NEW r \in Readers, OpenLog(r)
        PROVE  Reached(pos)' /\ \A q \in Readers : ReaderFine(q)
    <3>1. pc' = [pc EXCEPT ![r] = "open"] /\ pos' = pos
          /\ chunk' = [chunk EXCEPT ![r] = [log |-> Len(sizes), lo |-> pos, hi |-> pos]]
      BY <1>4, <2>6, EmptySeq DEF OpenLog, Go
    <3>2. pc'[r] = "open" /\ chunk'[r].lo = pos'
      BY <3>1 DEF ReadsTyped
    <3>3. ReaderFine(r)
      BY <2>5, <3>1, <3>2
    <3>4. \A q \in Readers \ {r} : pc'[q] = pc[q] /\ chunk'[q] = chunk[q]
      BY <3>1 DEF ReadsTyped
    <3> HIDE DEF ReaderFine
    <3> QED BY <2>4, <2>5, <3>1, <3>3, <3>4
  <2>7. ASSUME NEW r \in Readers, ReadLines(r)
        PROVE  Reached(pos)' /\ \A q \in Readers : ReaderFine(q)
    <3>1. PICK c \in Chunk : c = chunk[r]
      BY DEF ReadsTyped
    <3>2. c.lo \in 0..MaxUnits /\ c.log = 1 /\ pc[r] = "open"
      BY <1>4, <2>7, <3>1 DEF Chunk, ReadLines, ChunksHeld
    <3> DEFINE end == IF sizes[c.log] > c.lo THEN sizes[c.log] ELSE c.lo
    <3>3. /\ pc' = [pc EXCEPT ![r] = "read"]
          /\ chunk' = [chunk EXCEPT ![r].hi = end]
          /\ cuts' = cuts \cup {u \in {<<c.log, end>>} : end % 2 = 1}
          /\ UNCHANGED <<sizes, pos>>
      BY <2>7, <3>1 DEF ReadLines, Go, logs
    <3>4. Reached(c.lo) /\ c.lo <= sizes[1]
      BY <2>2, <3>1, <3>2 DEF Reached
    <3>5. end = sizes[1]
      BY <2>1, <3>2, <3>4 DEF LogAssumption
    <3> HIDE DEF end
    <3>6. pc'[r] = "read" /\ chunk'[r].lo = c.lo /\ chunk'[r].hi = end
      BY <3>1, <3>3 DEF ReadsTyped, Chunk
    <3>7. end % 2 = 1 => <<1, end>> \in cuts'
      BY <3>2, <3>3
    <3>8. Reached(c.lo)'
      BY <2>3, <3>2, <3>4
    <3>9. Reached(chunk[r].lo)'
      BY <3>6, <3>8
    <3>10. ReaderFine(r)
      <4>1. chunk'[r].lo <= chunk'[r].hi /\ chunk'[r].hi <= sizes'[1]
        BY <2>1, <3>3, <3>4, <3>5, <3>6 DEF LogAssumption
      <4> QED BY <3>6, <3>7, <3>9, <4>1
    <3>11. \A q \in Readers \ {r} : pc'[q] = pc[q] /\ chunk'[q] = chunk[q]
      BY <3>3 DEF ReadsTyped
    <3> HIDE DEF ReaderFine
    <3> QED BY <2>4, <2>5, <3>3, <3>10, <3>11
  <2>8. ASSUME NEW r \in Readers, KeepPosition(r)
        PROVE  Reached(pos)' /\ \A q \in Readers : ReaderFine(q)
    <3>1. pc[r] = "read" /\ pc' = [pc EXCEPT ![r] = "told"] /\ chunk' = chunk
      BY <2>8 DEF KeepPosition, Go
    <3>2. Reached(pos)'
      BY <1>1, <1>4, <2>2, <2>8, <3>1, KeepReaches
    <3>3. pc'[r] = "told" /\ \A q \in Readers \ {r} : pc'[q] = pc[q] /\ chunk'[q] = chunk[q]
      BY <3>1 DEF ReadsTyped
    <3>4. ReaderFine(r)
      BY <3>3
    <3> HIDE DEF ReaderFine
    <3> QED BY <2>4, <3>2, <3>3, <3>4
  <2>9. ASSUME NEW r \in Readers, Parse(r) \/ Answer(r)
        PROVE  Reached(pos)' /\ \A q \in Readers : ReaderFine(q)
    <3>1. pos' = pos /\ \A q \in Readers \ {r} : pc'[q] = pc[q] /\ chunk'[q] = chunk[q]
      BY <2>9 DEF Parse, Answer, Go, ReadsTyped
    <3>2. pc'[r] \in {"parsed", "idle"}
      BY <2>9 DEF Parse, Answer, Go, ReadsTyped
    <3>3. ReaderFine(r)
      BY <3>2
    <3> HIDE DEF ReaderFine
    <3> QED BY <2>4, <2>5, <3>1, <3>3
  <2>10. ASSUME UNCHANGED <<pos, pc, chunk>>
         PROVE  Reached(pos)' /\ \A q \in Readers : ReaderFine(q)
    <3> HIDE DEF ReaderFine
    <3> QED BY <2>4, <2>5, <2>10
  <2>11. ~NewLog
    <3>1. NewLog => Len(sizes') = Len(sizes) + 1
      BY AppendProperties DEF NewLog, ReadsTyped
    <3> QED BY <1>4, <3>1
  <2>12. Reached(pos)' /\ \A q \in Readers : ReaderFine(q)
    <3> HIDE DEF ReaderFine
    <3> QED BY <2>6, <2>7, <2>8, <2>9, <2>10, <2>11
            DEF Next, DriverWrites, Tick, GetStatistics, vars
  <2> QED BY <1>4, <2>12 DEF FirstLogReached
<1>5. CASE Len(sizes') = Len(sizes) /\ Len(sizes) # 0 /\ Len(sizes) # 1
  BY <1>5 DEF FirstLogReached
<1> QED BY <1>2, <1>3, <1>4, <1>5, LogsGrow

\* Threads that read and move the position in any order skip no record of the
\* first log between them (get_statistics() in lidar_log_parser.py and
\* camera_log_parser.py, which read _last_pos without the lock).
THEOREM NothingSkippedAlways ==
  ASSUME LogAssumption
  PROVE  Spec => []NothingSkipped
<1>1. Init => LogInv
  <2> SUFFICES ASSUME Init
               PROVE  LogInv
    OBVIOUS
  <2>1. NoChunk \in Chunk /\ 0 \in 0..MaxUnits
    BY DEF NoChunk, Chunk, LogAssumption
  <2>2. sizes \in Seq(0..MaxUnits) /\ Len(sizes) = 0
    BY EmptySeq DEF Init
  <2>3. ReadsTyped
    <3>1. Len(sizes) <= MaxLogs
      BY <2>2 DEF LogAssumption
    <3>2. pos \in 0..MaxUnits
      BY <2>1 DEF Init
    <3>3. pc \in [Readers -> Labels] /\ chunk \in [Readers -> Chunk]
      BY <2>1 DEF Init, Labels
    <3> QED BY <2>2, <3>1, <3>2, <3>3 DEF ReadsTyped
  <2>4. ChunksHeld
    BY DEF Init, ChunksHeld
  <2>5. FirstLogReached
    <3>1. Len(sizes) # 1
      BY <2>2
    <3>2. pos = 0
      BY DEF Init
    <3> QED BY <3>1, <3>2 DEF FirstLogReached
  <2> QED BY <2>3, <2>4, <2>5 DEF LogInv
<1>2. LogInv /\ [Next]_vars => LogInv'
  BY ReadsStep, FirstLogStep DEF LogInv
<1>3. LogInv => NothingSkipped
  BY DEF LogInv, FirstLogReached, Reached, Accounted, NothingSkipped
<1> QED BY <1>1, <1>2, <1>3, PTL DEF Spec
-----------------------------------------------------------------------------
(* The types of the records and of what is told of them *)

\* What a reader has read lies within its log, or it has read nothing.
ReadIsWritten ==
  \A r \in Readers : pc[r] \in {"open", "read", "told"} =>
    \/ chunk[r].hi <= chunk[r].lo
    \/ chunk[r].log \in 1..Len(sizes) /\ chunk[r].hi <= sizes[chunk[r].log]

TypeInv ==
  TypeOK /\ ReadsTyped /\ ChunksHeld /\ ReadIsWritten /\ frames \in Seq(Written)

\* A history of any records is cut to max_history of them.
LEMMA KeptTyped ==
  ASSUME LogAssumption, NEW W, NEW s \in Seq(W)
  PROVE  Kept(s) \in Seq(W) /\ Len(Kept(s)) <= MaxHistory
<1> DEFINE first == 1 + (IF Len(s) > MaxHistory THEN Len(s) - MaxHistory ELSE 0)
<1>1. Len(s) \in Nat
  BY LenProperties
<1>2. first \in Int /\ 1 <= first /\ Len(s) - first + 1 <= MaxHistory
  BY <1>1 DEF LogAssumption
<1>3. Kept(s) = SubSeq(s, first, Len(s))
  BY DEF Kept
<1> HIDE DEF first
<1>4. \A i \in first..Len(s) : s[i] \in W
  BY <1>1, <1>2, ElementOfSeq
<1>5. /\ SubSeq(s, first, Len(s)) \in Seq(W)
      /\ Len(SubSeq(s, first, Len(s))) = IF first <= Len(s) THEN Len(s) - first + 1 ELSE 0
  BY <1>1, <1>2, <1>4, SubSeqProperties
<1> QED BY <1>1, <1>2, <1>3, <1>5 DEF LogAssumption

\* The records of a chunk are a sequence of them.
LEMMA RecordsInSeq ==
  ASSUME LogAssumption, NEW c \in Chunk, NEW W, ToSet(RecordsIn(c)) \subseteq W
  PROVE  RecordsIn(c) \in Seq(W)
<1> DEFINE within == {k \in 1..MaxUnits \div 2 : c.lo <= 2 * k - 2 /\ 2 * k <= c.hi}
           n == Cardinality(within)
<1>1. IsFiniteSet(1..MaxUnits \div 2)
  BY 1 \in Int, MaxUnits \div 2 \in Int, FS_Interval DEF LogAssumption
<1>2. n \in Nat
  BY <1>1, FS_Subset, FS_CardinalityType
<1>3. RecordsIn(c) = [i \in 1..n |-> <<c.log, i + (c.lo + 1) \div 2>>]
  BY DEF RecordsIn
<1> HIDE DEF n
<1>4. DOMAIN RecordsIn(c) = 1..n /\ \A i \in 1..n : RecordsIn(c)[i] \in W
  BY <1>3 DEF ToSet
<1>5. RecordsIn(c) \in [1..n -> W]
  BY <1>3, <1>4
<1> QED BY <1>2, <1>5, SeqDef

\* Records are never taken back, and only a driver writes them.
LEMMA WrittenGrows ==
  ASSUME LogAssumption, ReadsTyped, [Next]_vars
  PROVE  Written \subseteq Written' /\ (~DriverWrites => Written' = Written)
<1>1. Len(sizes) \in Nat /\ \A l \in 1..Len(sizes) : sizes[l] \in 0..MaxUnits
  BY LenProperties, ElementOfSeq DEF ReadsTyped
<1>2. CASE NewLog
  <2>1. /\ Len(sizes') = Len(sizes) + 1 /\ sizes'[Len(sizes) + 1] = 0
        /\ \A l \in 1..Len(sizes) : sizes'[l] = sizes[l]
    BY <1>2, 0 \in 0..MaxUnits, AppendProperties DEF NewLog, ReadsTyped, LogAssumption
  <2>2. ASSUME NEW rec \in Records
        PROVE  rec \in Written' <=> rec \in Written
    <3>1. rec[1] \in 1..MaxLogs /\ rec[2] \in 1..MaxUnits \div 2
      BY DEF Records
    <3>2. CASE rec[1] = Len(sizes) + 1
      BY <1>1, <2>1, <3>1, <3>2 DEF Written, LogAssumption
    <3>3. CASE rec[1] # Len(sizes) + 1
      BY <1>1, <2>1, <3>1, <3>3 DEF Written, LogAssumption
    <3> QED BY <3>2, <3>3
  <2> QED BY <2>2 DEF Written
<1>3. CASE Len(sizes') = Len(sizes)
  <2>1. \A l \in 1..Len(sizes) : sizes[l] <= sizes'[l] /\ sizes'[l] \in Int
    <3>1. ReadsTyped' => \A l \in 1..Len(sizes') : sizes'[l] \in 0..MaxUnits
      BY ElementOfSeq DEF ReadsTyped
    <3>2. CASE sizes' = sizes
      BY <1>1, <3>2 DEF LogAssumption
    <3>3. CASE DriverWrites
      <4>1. \A l \in 1..Len(sizes) : sizes'[l] \in Int
        BY <1>1, <3>3 DEF DriverWrites, ReadsTyped, LogAssumption
      <4> QED BY <1>3, <4>1, LogsGrow
    <3>4. CASE NewLog
      BY <1>1, <1>3, <3>4, AppendProperties DEF NewLog, ReadsTyped
    <3> QED BY <3>2, <3>3, <3>4 DEF Next, Tick, GetStatistics, OpenLog, ReadLines, KeepPosition,
                                    Parse, Answer, logs, vars
  <2>2. ASSUME NEW rec \in Written
        PROVE  rec \in Written'
    <3>1. rec \in Records /\ rec[1] \in 1..Len(sizes) /\ rec[2] \in Int /\ 2 * rec[2] <= sizes[rec[1]]
      BY <1>1 DEF Written, Records, LogAssumption
    <3>2. 2 * rec[2] <= sizes'[rec[1]]
      BY <1>1, <2>1, <3>1 DEF LogAssumption
    <3> QED BY <1>3, <3>1, <3>2 DEF Written, Records
  <2>3. ~DriverWrites => sizes' = sizes
    <3>1. ~NewLog
      BY <1>1, <1>3, AppendProperties DEF NewLog, ReadsTyped
    <3> QED BY <3>1 DEF Next, Tick, GetStatistics, OpenLog, ReadLines, KeepPosition, Parse, Answer,
                        logs, vars
  <2>4. sizes' = sizes => Written' = Written
    BY DEF Written
  <2> QED BY <2>2, <2>3, <2>4
<1> QED BY <1>2, <1>3, LogsGrow

\* What is in a reader's hands was written.
LEMMA HeldIsWritten ==
  ASSUME LogAssumption, ReadsTyped, ReadIsWritten, NEW r \in Readers, pc[r] = "told"
  PROVE  ToSet(RecordsIn(chunk[r])) \subseteq Written
<1>1. PICK c \in Chunk : c = chunk[r]
  BY DEF ReadsTyped
<1>2. Len(sizes) \in Nat /\ Len(sizes) <= MaxLogs /\ \A l \in 1..Len(sizes) : sizes[l] \in 0..MaxUnits
  BY LenProperties, ElementOfSeq DEF ReadsTyped
<1>3. ASSUME NEW rec \in ToSet(RecordsIn(c))
      PROVE  rec \in Written
  <2>1. PICK k \in 1..MaxUnits \div 2 : rec = <<c.log, k>> /\ c.lo <= 2 * k - 2 /\ 2 * k <= c.hi
    BY <1>3, RecordsInChunk
  <2>2. c.lo \in Int /\ c.hi \in Int /\ k \in Int
    BY DEF Chunk, LogAssumption
  <2>3. c.log \in 1..Len(sizes) /\ c.hi <= sizes[c.log]
    BY <1>1, <2>1, <2>2 DEF ReadIsWritten
  <2>4. 2 * k <= sizes[c.log] /\ c.log \in 1..MaxLogs
    BY <1>2, <2>1, <2>2, <2>3 DEF LogAssumption
  <2>5. <<c.log, k>> \in Records
    BY <2>4 DEF Records
  <2> QED BY <1>2, <2>1, <2>3, <2>4, <2>5 DEF Written
<1> QED BY <1>1, <1>3

\* A step keeps what is read within the logs.
LEMMA ReadIsWrittenStep ==
  ASSUME LogAssumption, ReadsTyped, ChunksHeld, ReadIsWritten, [Next]_vars
  PROVE  ReadIsWritten'
<1> USE DEF LogAssumption
<1>1. Len(sizes) \in Nat /\ \A l \in 1..Len(sizes) : sizes[l] \in Int
  BY LenProperties, ElementOfSeq DEF ReadsTyped
<1>2. ReadsTyped'
  BY ReadsStep
<1> DEFINE Fine(q) ==
      pc'[q] \in {"open", "read", "told"} =>
        \/ chunk'[q].hi <= chunk'[q].lo
        \/ chunk'[q].log \in 1..Len(sizes') /\ chunk'[q].hi <= sizes'[chunk'[q].log]
<1>3. Len(sizes) <= Len(sizes') /\ \A l \in 1..Len(sizes) : sizes[l] <= sizes'[l] /\ sizes'[l] \in Int
  <2>1. Len(sizes') \in Nat /\ \A l \in 1..Len(sizes') : sizes'[l] \in Int
    BY <1>2, LenProperties, ElementOfSeq DEF ReadsTyped
  <2>2. CASE NewLog
    <3>1. Len(sizes') = Len(sizes) + 1 /\ \A l \in 1..Len(sizes) : sizes'[l] = sizes[l]
      BY <2>2, 0 \in 0..MaxUnits, AppendProperties DEF NewLog, ReadsTyped
    <3> QED BY <1>1, <3>1
  <2>3. CASE Len(sizes') = Len(sizes)
    BY <1>1, <2>1, <2>3, LogsGrow
  <2> QED BY <2>2, <2>3, LogsGrow
<1>4. ASSUME NEW q \in Readers, chunk'[q] = chunk[q],
             pc'[q] \in {"open", "read", "told"} => pc[q] \in {"open", "read", "told"}
      PROVE  Fine(q)
  <2>1. PICK c \in Chunk : c = chunk[q]
    BY DEF ReadsTyped
  <2>2. c.lo \in Int /\ c.hi \in Int
    BY DEF Chunk
  <2>3. CASE c.log \in 1..Len(sizes) /\ c.hi <= sizes[c.log]
    <3>1. Len(sizes') \in Nat
      BY <1>2, LenProperties DEF ReadsTyped
    <3>2. c.log \in 1..Len(sizes')
      BY <1>1, <1>3, <2>3, <3>1
    <3>3. c.hi <= sizes'[c.log]
      BY <1>1, <1>3, <2>2, <2>3
    <3> QED BY <1>4, <2>1, <3>2, <3>3
  <2>4. CASE ~(c.log \in 1..Len(sizes) /\ c.hi <= sizes[c.log])
    BY <1>4, <2>1, <2>4 DEF ReadIsWritten
  <2> QED BY <2>3, <2>4
<1>5. ASSUME NEW r \in Readers, OpenLog(r)
      PROVE  \A q \in Readers : Fine(q)
  <2>1. \A q \in Readers \ {r} : pc'[q] = pc[q] /\ chunk'[q] = chunk[q]
    BY <1>5 DEF OpenLog, Go, ReadsTyped
  <2>2. chunk'[r].hi = chunk'[r].lo /\ chunk'[r].hi \in Int
    BY <1>5 DEF OpenLog, Go, ReadsTyped, ChunksHeld, NoChunk
  <2>3. Fine(r)
    BY <2>2
  <2> HIDE DEF Fine
  <2> QED BY <1>4, <2>1, <2>3
<1>6. ASSUME NEW r \in Readers, ReadLines(r)
      PROVE  \A q \in Readers : Fine(q)
  <2>1. PICK c \in Chunk : c = chunk[r]
    BY DEF ReadsTyped
  <2>2. c.lo \in Int /\ c.log \in 1..Len(sizes)
    BY <1>6, <2>1 DEF ReadLines, ChunksHeld, Chunk
  <2> DEFINE end == IF sizes[c.log] > c.lo THEN sizes[c.log] ELSE c.lo
  <2>3. chunk' = [chunk EXCEPT ![r].hi = end] /\ sizes' = sizes
    BY <1>6, <2>1 DEF ReadLines, logs
  <2>4. end <= c.lo \/ end <= sizes[c.log]
    BY <1>1, <2>2
  <2> HIDE DEF end
  <2>5. chunk'[r].lo = c.lo /\ chunk'[r].hi = end /\ chunk'[r].log = c.log
    BY <2>1, <2>3 DEF ReadsTyped, Chunk
  <2>6. Fine(r)
    BY <2>2, <2>3, <2>4, <2>5
  <2>7. \A q \in Readers \ {r} : pc'[q] = pc[q] /\ chunk'[q] = chunk[q]
    BY <1>6 DEF ReadLines, Go, ReadsTyped
  <2> HIDE DEF Fine
  <2> QED BY <1>4, <2>6, <2>7
<1>7. ASSUME NEW r \in Readers, KeepPosition(r)
      PROVE  \A q \in Readers : Fine(q)
  <2>1. chunk' = chunk /\ pc[r] = "read" /\ pc'[r] = "told" /\ \A q \in Readers \ {r} : pc'[q] = pc[q]
    BY <1>7 DEF KeepPosition, Go, ReadsTyped
  <2> HIDE DEF Fine
  <2> QED BY <1>4, <2>1
<1>8. ASSUME NEW r \in Readers, Parse(r) \/ Answer(r)
      PROVE  \A q \in Readers : Fine(q)
  <2>1. pc'[r] \in {"parsed", "idle"} /\ \A q \in Readers \ {r} : pc'[q] = pc[q] /\ chunk'[q] = chunk[q]
    BY <1>8 DEF Parse, Answer, Go, ReadsTyped
  <2>2. Fine(r)
    BY <2>1
  <2> HIDE DEF Fine
  <2> QED BY <1>4, <2>1, <2>2
<1>9. ASSUME UNCHANGED <<pc, chunk>>
      PROVE  \A q \in Readers : Fine(q)
  <2> HIDE DEF Fine
  <2> QED BY <1>4, <1>9
<1>10. \A q \in Readers : Fine(q)
  <2> HIDE DEF Fine
  <2> QED BY <1>5, <1>6, <1>7, <1>8, <1>9
          DEF Next, NewLog, DriverWrites, Tick, GetStatistics, vars
<1> QED BY <1>10 DEF ReadIsWritten

\* The ages, answers and times keep their types, and the history its bound.
LEMMA TypeStep ==
  ASSUME LogAssumption, TypeInv, [Next]_vars
  PROVE  TypeInv'
<1> USE DEF LogAssumption
<1>1. ReadsTyped /\ ChunksHeld /\ ReadIsWritten /\ ReadsTyped' /\ ChunksHeld' /\ ReadIsWritten'
  BY ReadsStep, ReadIsWrittenStep DEF TypeInv
<1>2. Written \subseteq Written' /\ (~DriverWrites => Written' = Written)
  BY <1>1, WrittenGrows
<1>3. age' \in [Written' -> 0..Old]
  <2>1. age \in [Written -> 0..Old] /\ StaleAfter \in Nat
    BY DEF TypeInv, TypeOK
  <2>2. CASE DriverWrites
    <3>1. age' = [r \in Written' |-> IF r \in Written THEN age[r] ELSE 0]
      BY <2>2 DEF DriverWrites
    <3>2. \A r \in Written' : (IF r \in Written THEN age[r] ELSE 0) \in 0..Old
      BY <2>1 DEF Old
    <3> HIDE DEF Written
    <3> QED BY <3>1, <3>2
  <2>3. CASE Tick
    <3>1. age' = [r \in Written |-> IF age[r] < Old THEN age[r] + 1 ELSE Old]
      BY <2>3 DEF Tick
    <3>2. \A r \in Written : (IF age[r] < Old THEN age[r] + 1 ELSE Old) \in 0..Old
      BY <2>1 DEF Old
    <3>3. Written' = Written
      BY <2>3 DEF Tick, Written
    <3> QED BY <3>1, <3>2, <3>3
  <2>4. CASE age' = age /\ ~DriverWrites
    BY <1>2, <2>1, <2>4
  <2> QED BY <2>2, <2>3, <2>4
          DEF Next, NewLog, GetStatistics, OpenLog, ReadLines, KeepPosition, Parse, Answer, logs, vars
<1>4. frames' \in Seq(Written') /\ Len(frames') <= MaxHistory
  <2>1. frames \in Seq(Written) /\ Len(frames) <= MaxHistory
    BY DEF TypeInv, TypeOK
  <2>2. CASE frames' = frames
    BY <1>2, <2>1, <2>2, SeqMonotonic
  <2>3. ASSUME NEW r \in Readers, Parse(r)
        PROVE  frames' \in Seq(Written') /\ Len(frames') <= MaxHistory
    <3>1. pc[r] = "told" /\ frames' = Kept(frames \o RecordsIn(chunk[r])) /\ sizes' = sizes
      BY <2>3 DEF Parse, logs
    <3>2. PICK c \in Chunk : c = chunk[r]
      BY <1>1 DEF ReadsTyped
    <3>3. ToSet(RecordsIn(c)) \subseteq Written
      BY <1>1, <3>1, <3>2, HeldIsWritten
    <3>4. RecordsIn(c) \in Seq(Written)
      BY <3>3, RecordsInSeq
    <3>5. frames \o RecordsIn(c) \in Seq(Written)
      BY <2>1, <3>4, ConcatProperties
    <3>6. Kept(frames \o RecordsIn(c)) \in Seq(Written) /\ Len(Kept(frames \o RecordsIn(c))) <= MaxHistory
      BY <3>5, KeptTyped
    <3>7. Written' = Written
      BY <3>1 DEF Written
    <3> QED BY <3>1, <3>2, <3>6, <3>7
  <2> QED BY <2>2, <2>3 DEF Next, NewLog, DriverWrites, Tick, GetStatistics, OpenLog, ReadLines,
                            KeepPosition, Answer, vars
<1>5. /\ cached' \in {"", "fresh", "stale"} /\ sinceCall' \in -1..Old
      /\ answer' \in {"none", "fresh", "stale", "raises"}
  <2>1. /\ cached \in {"", "fresh", "stale"} /\ sinceCall \in -1..Old
        /\ answer \in {"none", "fresh", "stale", "raises"}
    BY DEF TypeInv, TypeOK
  <2>2. CASE Tick
    <3>1. sinceCall' = IF sinceCall \in 0..StaleAfter THEN sinceCall + 1 ELSE sinceCall
      BY <2>2 DEF Tick
    <3>2. sinceCall' \in -1..Old
      <4>1. sinceCall \in Int /\ -1 <= sinceCall /\ sinceCall <= StaleAfter + 1
        <5>1. sinceCall \in -1..Old
          BY DEF TypeInv, TypeOK
        <5> QED BY <5>1 DEF Old
      <4>2. sinceCall' \in Int /\ -1 <= sinceCall' /\ sinceCall' <= StaleAfter + 1
        BY <3>1, <4>1
      <4> QED BY <4>2 DEF Old
    <3> QED BY <2>1, <2>2, <3>2 DEF Tick
  <2>3. ASSUME NEW r \in Readers, Answer(r)
        PROVE  /\ cached' \in {"", "fresh", "stale"} /\ sinceCall' \in -1..Old
               /\ answer' \in {"none", "fresh", "stale", "raises"}
    <3>1. 0 \in -1..Old
      BY DEF Old
    <3>2. Judgement \in {"fresh", "stale"}
      BY DEF Judgement
    <3> QED BY <2>1, <2>3, <3>1, <3>2 DEF Answer, cache
  <2>4. ASSUME NEW r \in Readers, Parse(r)
        PROVE  cached' = "" /\ UNCHANGED <<sinceCall, answer>>
    BY <2>4 DEF Parse
  <2>5. CASE UNCHANGED <<cached, sinceCall, answer>>
    BY <2>1, <2>5
  <2> QED BY <2>1, <2>2, <2>3, <2>4, <2>5
          DEF Next, NewLog, DriverWrites, GetStatistics, OpenLog, ReadLines, KeepPosition, cache, vars
<1>6. TypeOK'
  <2>1. Len(sizes') <= MaxLogs /\ \A l \in DOMAIN sizes' : sizes'[l] \in 0..MaxUnits
    BY <1>1, LenProperties, ElementOfSeq DEF ReadsTyped
  <2>2. \A i \in DOMAIN frames' : frames'[i] \in Written'
    BY <1>4, LenProperties, ElementOfSeq
  <2> QED BY <1>1, <1>3, <1>4, <1>5, <2>1, <2>2 DEF TypeOK, ReadsTyped, Labels
<1> QED BY <1>1, <1>4, <1>6 DEF TypeInv

\* The initial state has no log.
LEMMA TypeInit ==
  ASSUME LogAssumption, Init
  PROVE  TypeInv
<1>1. NoChunk \in Chunk /\ 0 \in 0..MaxUnits
  BY DEF NoChunk, Chunk, LogAssumption
<1>2. sizes = <<>> /\ frames = <<>> /\ age = <<>>
  BY DEF Init
<1>3. Len(sizes) = 0 /\ Len(frames) = 0 /\ sizes \in Seq(0..MaxUnits) /\ frames \in Seq(Written)
  BY <1>2, EmptySeq
<1>4. DOMAIN sizes = {} /\ DOMAIN frames = {} /\ Written = {}
  BY <1>3, LenProperties DEF Written, Records
<1>5. ReadsTyped
  <2>1. pos \in 0..MaxUnits /\ pc \in [Readers -> Labels] /\ chunk \in [Readers -> Chunk]
    BY <1>1 DEF Init, Labels
  <2>2. Len(sizes) <= MaxLogs
    BY <1>3 DEF LogAssumption
  <2> QED BY <1>3, <2>1, <2>2 DEF ReadsTyped
<1>6. ChunksHeld /\ ReadIsWritten
  BY DEF Init, ChunksHeld, ReadIsWritten
<1>7. age \in [Written -> 0..Old]
  <2>1. <<>> \in [{} -> 0..Old]
    OBVIOUS
  <2> QED BY <1>2, <1>4, <2>1
<1>8. sinceCall \in -1..Old /\ cached = "" /\ answer = "none"
  <2>1. -1 \in -1..Old
    BY DEF Old, LogAssumption
  <2> QED BY <2>1 DEF Init
<1>9. Len(frames) <= MaxHistory /\ Len(sizes) <= MaxLogs
  BY <1>3 DEF LogAssumption
<1> QED BY <1>3, <1>4, <1>5, <1>6, <1>7, <1>8, <1>9 DEF TypeInv, TypeOK, ReadsTyped, Labels

\* The state keeps its types: the history of records never exceeds max_history
\* and holds only what a driver wrote, whichever thread read it.
THEOREM TypeCorrect ==
  ASSUME LogAssumption
  PROVE  Spec => []TypeOK
<1>1. Init => TypeInv
  BY TypeInit
<1>2. TypeInv /\ [Next]_vars => TypeInv'
  BY TypeStep
<1>3. TypeInv => TypeOK
  BY DEF TypeInv
<1> QED BY <1>1, <1>2, <1>3, PTL DEF Spec
-----------------------------------------------------------------------------
(* The ROS 2 monitor and the MQTT client *)

\* What may be worse than a status is one.
LEMMA WorseTyped ==
  ASSUME NEW a \in DOMAIN Ros!Severity, NEW b \in DOMAIN Ros!Severity
  PROVE  Ros!Worse(a, b) \in DOMAIN Ros!Severity
BY DEF Ros!Worse

\* The verdicts of the parts of check() are statuses.
LEMMA StatusNames ==
  /\ {"unknown", "ok", "warning", "critical"} = DOMAIN Ros!Severity
  /\ \A found, others : Ros!NodeStatus(found, others) \in DOMAIN Ros!Severity
  /\ \A measured : Ros!RateStatus(measured) \in DOMAIN Ros!Severity
BY DEF Ros!Severity, Ros!NodeStatus, Ros!RateStatus

\* A thread's step through check() keeps the types.
LEMMA CheckKeepsTypes ==
  ASSUME Ros!TypeOK, NEW c \in Checkers, Ros!Check(c)
  PROVE  Ros!TypeOK'
<1> USE StatusNames DEF Ros!TypeOK, Ros!At, Ros!Go
<1> DEFINE D == DOMAIN Ros!Severity
<1>1. ASSUME NEW worst \in D, Ros!Report(c, worst)
      PROVE  /\ last' \in D
             /\ checkPc' \in [Checkers -> {"idle", "nodes", "topics", "rates", "ensure", "all", "one"}]
             /\ status' \in [Checkers -> D]
  BY <1>1, WorseTyped DEF Ros!Report
<1>2. CASE Ros!CheckRunning(c)
  BY <1>2 DEF Ros!CheckRunning, Ros!world, Ros!helperState
<1>3. CASE Ros!CheckNodes(c)
  BY <1>3 DEF Ros!CheckNodes, Ros!world, Ros!helperState
<1>4. CASE Ros!CheckTopics(c)
  <2>1. status' \in [Checkers -> D]
    BY <1>4, WorseTyped DEF Ros!CheckTopics
  <2> QED BY <1>4, <2>1 DEF Ros!CheckTopics, Ros!world, Ros!helperState
<1>5. CASE Ros!CheckRates(c)
  BY <1>1, <1>5 DEF Ros!CheckRates, Ros!world, Ros!helperState
<1>6. CASE Ros!CheckRatesByHelper(c)
  BY <1>6 DEF Ros!CheckRatesByHelper, Ros!world, Ros!helperState
<1>7. CASE Ros!EnsureMonitoring(c)
  BY <1>7 DEF Ros!EnsureMonitoring, Ros!world
<1>8. CASE Ros!TakeLock(c)
  BY <1>1, <1>8 DEF Ros!TakeLock, Ros!world
<1> QED BY <1>2, <1>3, <1>4, <1>5, <1>6, <1>7, <1>8 DEF Ros!Check

\* Every step of the monitor, its helper and the world keeps their types.
LEMMA RosKeepsTypes ==
  ASSUME Rates \subseteq Ros!RateNames, Ros!TypeOK, [Ros!Next]_rosVars
  PROVE  Ros!TypeOK'
<1> USE DEF Ros!TypeOK
<1>1. CASE Ros!RosStartsOrStops \/ Ros!NodesChange \/ Ros!CommandsStallOrRecover
  BY <1>1 DEF Ros!RosStartsOrStops, Ros!NodesChange, Ros!CommandsStallOrRecover,
     Ros!helperState, Ros!checks
<1>2. CASE Ros!RateChanges
  BY <1>2 DEF Ros!RateChanges, Ros!helperState, Ros!checks
<1>3. CASE Ros!WindowPasses \/ Ros!HelperStarts \/ Ros!SpinTakesLock \/ Ros!SpinRecords
           \/ Ros!SpinEnds
  BY <1>3 DEF Ros!WindowPasses, Ros!HelperStarts, Ros!SpinTakesLock, Ros!SpinRecords,
     Ros!SpinEnds, Ros!world, Ros!checks
<1>4. CASE UNCHANGED rosVars
  BY <1>4 DEF rosVars
<1> QED BY <1>1, <1>2, <1>3, <1>4, CheckKeepsTypes DEF Ros!Next

\* Pushes wait in their order, up to the bound.
LEMMA WaitingStep ==
  ASSUME MaxWaiting \in Nat, Feed!WaitingOK, [Feed!Next]_feedVars
  PROVE  Feed!WaitingOK'
<1> DEFINE Fits ==
      older \in 0 .. MaxWaiting /\ newer \in 0 .. MaxWaiting /\ older + newer <= MaxWaiting
<1>0. Fits /\ shown \in BOOLEAN /\ (shown => newer = 0)
  BY DEF Feed!WaitingOK
<1>1. CASE Feed!Schedule
  <2>1. CASE ~shown /\ newer' = newer + 1 /\ UNCHANGED <<shown, older>>
    <3>1. Fits' BY <1>0, <1>1, <2>1 DEF Feed!Schedule
    <3>2. shown' \in BOOLEAN /\ ~shown' BY <1>0, <2>1
    <3> QED BY <3>1, <3>2 DEF Feed!WaitingOK
  <2>2. CASE older' = older + 1 /\ UNCHANGED <<shown, newer>>
    <3>1. Fits' BY <1>0, <1>1, <2>2 DEF Feed!Schedule
    <3>2. shown' \in BOOLEAN /\ (shown' => newer' = 0) BY <1>0, <2>2
    <3> QED BY <3>1, <3>2 DEF Feed!WaitingOK
  <2>3. CASE shown /\ shown' = FALSE /\ newer' = 1 /\ UNCHANGED older
    <3>1. newer = 0 BY <1>0, <2>3
    <3>2. Fits' BY <1>0, <1>1, <2>3, <3>1 DEF Feed!Schedule
    <3> QED BY <3>2, <2>3 DEF Feed!WaitingOK
  <2> QED BY <1>1, <2>1, <2>2, <2>3 DEF Feed!Schedule
<1>2. ASSUME NEW sends \in BOOLEAN, Feed!TakePush(sends)
      PROVE  Feed!WaitingOK'
  <2>1. CASE older > 0 /\ older' = older - 1 /\ UNCHANGED <<shown, newer>>
    <3>1. Fits' BY <1>0, <2>1
    <3>2. shown' \in BOOLEAN /\ (shown' => newer' = 0) BY <1>0, <2>1
    <3> QED BY <3>1, <3>2 DEF Feed!WaitingOK
  <2>2. CASE newer > 0 /\ shown' = TRUE /\ older' = newer - 1 /\ newer' = 0
    <3>1. Fits' BY <1>0, <2>2
    <3> QED BY <3>1, <2>2 DEF Feed!WaitingOK
  <2>3. CASE newer > 0 /\ newer' = newer - 1 /\ UNCHANGED <<shown, older>>
    <3>1. Fits' BY <1>0, <2>3
    <3>2. newer # 0 BY <2>3
    <3>3. shown' \in BOOLEAN /\ ~shown' BY <1>0, <2>3, <3>2
    <3> QED BY <3>1, <3>3 DEF Feed!WaitingOK
  <2> QED BY <1>2, <2>1, <2>2, <2>3 DEF Feed!TakePush
<1>3. CASE UNCHANGED Feed!waiting
  BY <1>3 DEF Feed!waiting, Feed!WaitingOK
<1>4. CASE Feed!Broadcast
  BY <1>2, <1>4 DEF Feed!Broadcast
<1>5. ASSUME NEW u \in BOOLEAN, Feed!OnStatus(u)
      PROVE  Feed!WaitingOK'
  <2>1. Feed!Schedule \/ UNCHANGED Feed!waiting
    BY <1>5 DEF Feed!OnStatus
  <2> QED BY <2>1, <1>1, <1>3
<1>6. CASE UNCHANGED feedVars
  BY <1>3, <1>6 DEF feedVars, Feed!waiting
<1>7. CASE \/ \E m \in Feed!Monitors :
               Feed!Connect(m) \/ Feed!ConnectRaises(m) \/ Feed!AddCallback(m) \/ Feed!Subscribe(m)
           \/ Feed!OnConnect \/ Feed!LinkBreaks \/ Feed!OnDisconnect \/ Feed!BrokerChanges
           \/ Feed!OnSystemOnline("online") \/ Feed!OnSystemOnline("offline")
           \/ Feed!OnDatagram("status") \/ Feed!OnDatagram("heartbeat") \/ Feed!OnPi5
           \/ Feed!RegisterBridge \/ Feed!Tick \/ Feed!HeartbeatTimesOut \/ Feed!DataTimesOut
  <2>1. UNCHANGED Feed!waiting
    BY <1>7 DEF Feed!Connect, Feed!ConnectRaises, Feed!AddCallback, Feed!Subscribe,
       Feed!OnConnect, Feed!LinkBreaks, Feed!OnDisconnect, Feed!BrokerChanges,
       Feed!OnSystemOnline, Feed!OnDatagram, Feed!OnPi5, Feed!RegisterBridge, Feed!Tick,
       Feed!HeartbeatTimesOut, Feed!DataTimesOut, Feed!push
  <2> QED BY <2>1, <1>3
<1> QED BY <1>4, <1>5, <1>6, <1>7 DEF Feed!Next

\* Every step of the MQTT client, its users and the pushes keeps their types.
LEMMA FeedKeepsTypes ==
  ASSUME MinInterval \in Nat, MaxWaiting \in Nat, Feed!TypeOK, [Feed!Next]_feedVars
  PROVE  Feed!TypeOK'
<1> USE DEF Feed!TypeOK, Feed!library, Feed!builders, Feed!data, Feed!push, Feed!waiting
<1>0. Feed!WaitingOK'
  BY WaitingStep
<1>1. /\ \A m \in Feed!Monitors : Feed!TopicsOf[m] \subseteq Feed!AllTopics
      /\ {"status", "system", "pi5"} \subseteq Feed!AllTopics
  BY DEF Feed!AllTopics, Feed!TopicsOf, Feed!Monitors
<1>2. ASSUME NEW m \in Feed!Monitors,
             Feed!Connect(m) \/ Feed!ConnectRaises(m) \/ Feed!AddCallback(m) \/ Feed!Subscribe(m)
      PROVE  Feed!TypeOK'
  <2>1. CASE Feed!Connect(m)
    BY <1>0, <1>1, <2>1 DEF Feed!Connect
  <2>2. CASE Feed!ConnectRaises(m)
    BY <1>0, <2>2 DEF Feed!ConnectRaises
  <2>3. CASE Feed!AddCallback(m)
    BY <1>0, <2>3 DEF Feed!AddCallback
  <2>4. CASE Feed!Subscribe(m)
    BY <1>0, <2>4 DEF Feed!Subscribe
  <2> QED BY <1>2, <2>1, <2>2, <2>3, <2>4
<1>3. CASE Feed!OnConnect \/ Feed!LinkBreaks \/ Feed!OnDisconnect \/ Feed!BrokerChanges
  BY <1>0, <1>3 DEF Feed!OnConnect, Feed!LinkBreaks, Feed!OnDisconnect, Feed!BrokerChanges
<1>4. ASSUME NEW x, Feed!OnStatus(x) \/ Feed!OnSystemOnline(x) \/ Feed!OnDatagram(x) \/ Feed!OnPi5
      PROVE  Feed!TypeOK'
  <2>1. sincePush' = sincePush
    BY <1>4 DEF Feed!OnStatus, Feed!OnSystemOnline, Feed!OnDatagram, Feed!OnPi5
  <2>2. fresh' \subseteq {"status", "pi5"}
    BY <1>4 DEF Feed!OnStatus, Feed!OnSystemOnline, Feed!OnDatagram, Feed!OnPi5
  <2>3. online' \in BOOLEAN
    BY <1>4 DEF Feed!OnStatus, Feed!OnSystemOnline, Feed!OnDatagram, Feed!OnPi5
  <2>4. UNCHANGED <<broker, Feed!library, Feed!builders, bridge>>
    BY <1>4 DEF Feed!OnStatus, Feed!OnSystemOnline, Feed!OnDatagram, Feed!OnPi5
  <2> QED BY <1>0, <2>1, <2>2, <2>3, <2>4
<1>5. CASE Feed!RegisterBridge \/ Feed!HeartbeatTimesOut \/ Feed!DataTimesOut
  BY <1>0, <1>5 DEF Feed!RegisterBridge, Feed!HeartbeatTimesOut, Feed!DataTimesOut
<1>6. CASE Feed!Broadcast \/ Feed!Tick
  <2>1. sincePush' \in 0 .. MinInterval
    BY <1>6 DEF Feed!Broadcast, Feed!Tick
  <2>2. UNCHANGED <<broker, Feed!library, Feed!builders, Feed!data, bridge>>
    BY <1>6 DEF Feed!Broadcast, Feed!Tick
  <2> QED BY <1>0, <2>1, <2>2
<1>7. CASE UNCHANGED feedVars
  BY <1>0, <1>7 DEF feedVars
<1> QED BY <1>2, <1>3, <1>4, <1>5, <1>6, <1>7 DEF Feed!Next

\* Nothing is connected, subscribed or pushed at first.
LEMMA FeedInit ==
  ASSUME MinInterval \in Nat, MaxWaiting \in Nat, Feed!Init
  PROVE  Feed!TypeOK
<1>1. older \in 0 .. MaxWaiting /\ newer \in 0 .. MaxWaiting /\ older + newer <= MaxWaiting
  BY DEF Feed!Init
<1>2. Feed!WaitingOK
  BY <1>1 DEF Feed!Init, Feed!WaitingOK
<1>3. sincePush \in 0 .. MinInterval
  BY DEF Feed!Init
<1> QED BY <1>2, <1>3 DEF Feed!Init, Feed!TypeOK

\* Whichever part a behavior explores, the variables of the log parsers, the
\* ROS 2 monitor with its helper and the MQTT client keep their types.
THEOREM DeviceTypesCorrect == MCSpec => []TypesOK
<1> DEFINE Inv == TypeInv /\ Ros!TypeOK /\ Feed!TypeOK
<1> USE DeviceConstants
<1>1. ASSUME MCInit PROVE Inv
  <2>1. TypeInv
    BY <1>1, TypeInit DEF MCInit
  <2>2. Ros!TypeOK
    <3>1. config \in Ros!Config
      <4>1. Ros!Configs \subseteq Ros!Config
        BY DEF Ros!Configs, Ros!Config
      <4> QED BY <1>1, <4>1 DEF MCInit, Ros!Init
    <3>2. rate \in [Topics -> Ros!RateNames]
      BY <1>1 DEF MCInit, Ros!Init, Ros!RateNames
    <3> QED BY <1>1, <3>1, <3>2, StatusNames DEF MCInit, Ros!Init, Ros!TypeOK
  <2>3. Feed!TypeOK
    BY <1>1, FeedInit DEF MCInit
  <2> QED BY <2>1, <2>2, <2>3
<1>2. ASSUME Inv, [MCNext]_<<part, vars, rosVars, feedVars>> PROVE Inv'
  <2>1. [Next]_vars /\ [Ros!Next]_rosVars /\ [Feed!Next]_feedVars
    BY <1>2 DEF MCNext
  <2> QED BY <1>2, <2>1, TypeStep, RosKeepsTypes, FeedKeepsTypes
<1>3. Inv => TypesOK
  BY DEF TypeInv, TypesOK
<1> QED BY <1>1, <1>2, <1>3, PTL DEF MCSpec
-----------------------------------------------------------------------------
(* The topics of the MQTT client *)

\* What a monitor has subscribed is noted and has a callback; a connection that
\* is up is known to be, and carries every topic noted.
NoTopicLost ==
  /\ up => connected /\ topics \subseteq session
  /\ topics \subseteq callbacks
  /\ \A m \in Feed!Monitors : \A t \in Feed!TopicsOf[m] :
       buildPc[m] \in {"ready", "adding"} => t \in todo[m] \cup topics

\* While the connection is up, every topic that a monitor's constructor is done
\* with is subscribed and handled, in whatever order constructors, connections,
\* interruptions and their late callbacks came.
SubscribedWhileUp ==
  up => \A m \in Feed!Monitors : \A t \in Feed!TopicsOf[m] \ todo[m] :
          buildPc[m] \in {"ready", "adding"} => t \in session \cap callbacks

\* Every step of the client and its users keeps the topics.
LEMMA TopicsStep ==
  ASSUME Feed!TypeOK, NoTopicLost, [Feed!Next]_feedVars
  PROVE  NoTopicLost'
<1> USE DEF Feed!TypeOK, NoTopicLost, Feed!library, Feed!builders
<1>1. ASSUME NEW m \in Feed!Monitors, Feed!Connect(m) \/ Feed!ConnectRaises(m)
      PROVE  NoTopicLost'
  <2>1. /\ UNCHANGED <<up, connected, session, topics, callbacks>>
        /\ \A n \in Feed!Monitors \ {m} : buildPc'[n] = buildPc[n] /\ todo'[n] = todo[n]
        /\ buildPc'[m] \in {"ready", "adding"} => todo'[m] = Feed!TopicsOf[m]
    BY <1>1 DEF Feed!Connect, Feed!ConnectRaises
  <2> QED BY <2>1
<1>2. ASSUME NEW m \in Feed!Monitors, Feed!AddCallback(m)
      PROVE  NoTopicLost'
  BY <1>2 DEF Feed!AddCallback
\* A connection that has broken without the client knowing loses the request,
\* but not the note.
<1>3. ASSUME NEW m \in Feed!Monitors, Feed!Subscribe(m)
      PROVE  NoTopicLost'
  <2>1. PICK t \in callbacks \cap todo[m] :
          /\ todo' = [todo EXCEPT ![m] = todo[m] \ {t}]
          /\ topics' = topics \cup {t}
          /\ session' = IF connected /\ t \notin topics /\ up THEN session \cup {t} ELSE session
    BY <1>3 DEF Feed!Subscribe
  <2>2. /\ UNCHANGED <<up, connected, callbacks>>
        /\ buildPc[m] = "adding" /\ buildPc' = [buildPc EXCEPT ![m] = "ready"]
    BY <1>3 DEF Feed!Subscribe
  <2>3. (up => connected /\ topics \subseteq session)' /\ (topics \subseteq callbacks)'
    BY <2>1, <2>2
  <2>4. ASSUME NEW n \in Feed!Monitors, NEW s \in Feed!TopicsOf[n],
               buildPc'[n] \in {"ready", "adding"}
        PROVE  s \in todo'[n] \cup topics'
    BY <2>1, <2>2, <2>4
  <2> QED BY <2>3, <2>4
<1>4. CASE Feed!OnConnect
  BY <1>4 DEF Feed!OnConnect
<1>5. CASE Feed!LinkBreaks \/ Feed!OnDisconnect
  BY <1>5 DEF Feed!LinkBreaks, Feed!OnDisconnect
<1>6. CASE UNCHANGED <<Feed!library, Feed!builders>>
  BY <1>6
<1> QED BY <1>1, <1>2, <1>3, <1>4, <1>5, <1>6
        DEF Feed!Next, Feed!BrokerChanges, Feed!OnStatus, Feed!OnSystemOnline, Feed!OnDatagram,
            Feed!OnPi5, Feed!RegisterBridge, Feed!Broadcast, Feed!Tick, Feed!HeartbeatTimesOut,
            Feed!DataTimesOut, feedVars

\* No topic is lost over an interruption: the step on which the return of the
\* telemetry (TelemetryComesBack) rests.
THEOREM SubscribedWhileUpAlways == MCSpec => []SubscribedWhileUp
<1> DEFINE Inv == Feed!TypeOK /\ NoTopicLost
<1> USE DeviceConstants
<1>1. ASSUME MCInit PROVE Inv
  <2>1. Feed!TypeOK
    BY <1>1, FeedInit DEF MCInit
  <2> QED BY <1>1, <2>1 DEF MCInit, Feed!Init, NoTopicLost
<1>2. ASSUME Inv, [MCNext]_<<part, vars, rosVars, feedVars>> PROVE Inv'
  <2>1. [Feed!Next]_feedVars
    BY <1>2 DEF MCNext
  <2> QED BY <1>2, <2>1, FeedKeepsTypes, TopicsStep
<1>3. Inv => SubscribedWhileUp
  BY DEF NoTopicLost, SubscribedWhileUp
<1> QED BY <1>1, <1>2, <1>3, PTL DEF MCSpec
-----------------------------------------------------------------------------
(* The recorded status of ROS 2 *)

\* The system is up, so says the last verdict, and so does every check that has
\* come past the nodes, in whatever thread.
KnownHealthy ==
  /\ Ros!Healthy /\ last = "ok"
  /\ config.rclpy => Ros!Ready
  /\ \A c \in Checkers : checkPc[c] \notin {"idle", "nodes"} => status[c] = "ok"

\* The system is down, so says the last verdict, and no check is under way.
KnownDown ==
  ~running /\ last = "critical" /\ \A c \in Checkers : checkPc[c] = "idle"

\* What is known stays known as long as it is true: no check, by whichever
\* thread, by subscription or by shell, brings another verdict.
StatusStays ==
  [][/\ KnownHealthy /\ Ros!Healthy' => KnownHealthy'
     /\ KnownDown /\ ~running' => KnownDown']_<<part, vars, rosVars, feedVars>>

\* Verdicts of a healthy system: full marks for nodes, topics and rates.
LEMMA HealthyVerdicts ==
  ASSUME Ros!TypeOK, KnownHealthy, Expected # {}, Topics # {}
  PROVE  /\ \A others \in BOOLEAN : Ros!NodeStatus(Ros!NodesSeen, others) = "ok"
         /\ Ros!TopicsSeen # {}
         /\ \A measured \in SUBSET Topics : Ros!RateStatus(measured) = "ok"
         /\ Ros!Worse("ok", "ok") = "ok" /\ Ros!Worse("ok", "unknown") = "ok"
<1>1. Ros!NodesSeen = Expected
  BY DEF KnownHealthy, Ros!Healthy, Ros!NodesSeen
<1>2. Ros!TopicsSeen = Topics
  BY DEF KnownHealthy, Ros!Healthy, Ros!TopicsSeen
<1>3. \A measured \in SUBSET Topics : Ros!RateStatus(measured) = "ok"
  BY DEF KnownHealthy, Ros!Healthy, Ros!RateStatus
<1>4. Ros!Worse("ok", "ok") = "ok" /\ Ros!Worse("ok", "unknown") = "ok"
  BY DEF Ros!Worse, Ros!Severity
<1> QED BY <1>1, <1>2, <1>3, <1>4 DEF Ros!NodeStatus

\* A step of a check in a system that is known to be healthy.
LEMMA HealthyCheck ==
  ASSUME Ros!TypeOK, KnownHealthy, Expected # {}, Topics # {},
         NEW c \in Checkers, Ros!Check(c)
  PROVE  KnownHealthy'
<1> USE HealthyVerdicts DEF Ros!TypeOK, Ros!At, Ros!Go, Ros!helperState, Ros!Ready
<1>1. UNCHANGED <<config, running, nodes, rate, answers, helper>>
  BY DEF Ros!Check, Ros!CheckRunning, Ros!CheckNodes, Ros!CheckTopics, Ros!CheckRates,
         Ros!CheckRatesByHelper, Ros!EnsureMonitoring, Ros!TakeLock, Ros!world
<1>2. Ros!Healthy' /\ (config.rclpy => Ros!Ready)'
  BY <1>1 DEF KnownHealthy, Ros!Healthy
<1>3. /\ last = "ok" /\ running
      /\ \A d \in Checkers : checkPc[d] \notin {"idle", "nodes"} => status[d] = "ok"
  BY DEF KnownHealthy, Ros!Healthy
<1> DEFINE StillOk ==
            /\ last' = "ok"
            /\ \A d \in Checkers : checkPc'[d] \notin {"idle", "nodes"} => status'[d] = "ok"
<1>4. ASSUME NEW worst \in {"unknown", "ok"}, Ros!Report(c, worst), status[c] = "ok"
      PROVE  StillOk
  BY <1>3, <1>4 DEF Ros!Report
<1>5. ASSUME Ros!CheckRunning(c) PROVE StillOk
  BY <1>3, <1>5 DEF Ros!CheckRunning
<1>6. ASSUME Ros!CheckNodes(c) PROVE StillOk
  BY <1>3, <1>6 DEF Ros!CheckNodes
<1>7. ASSUME Ros!CheckTopics(c) PROVE StillOk
  <2>1. status' = [status EXCEPT ![c] = "ok"]
    BY <1>3, <1>7 DEF Ros!CheckTopics
  <2> QED BY <1>3, <1>7, <2>1 DEF Ros!CheckTopics
<1>8. ASSUME Ros!CheckRates(c) PROVE StillOk
  <2> DEFINE measured == IF answers THEN {t \in Topics : rate[t] # "silent"} ELSE {}
             worst == IF config.details /\ config.fallback THEN Ros!RateStatus(measured)
                      ELSE "unknown"
  <2>1. worst \in {"unknown", "ok"}
    <3>1. measured \in SUBSET Topics
      OBVIOUS
    <3> HIDE DEF measured
    <3> QED BY <3>1
  <2>2. Ros!Report(c, worst) /\ checkPc[c] = "rates"
    BY <1>8 DEF Ros!CheckRates
  <2> HIDE DEF worst
  <2> QED BY <1>3, <1>4, <2>1, <2>2
<1>9. ASSUME Ros!CheckRatesByHelper(c) PROVE StillOk
  BY <1>3, <1>9 DEF Ros!CheckRatesByHelper
<1>10. ASSUME Ros!EnsureMonitoring(c) PROVE StillOk
  BY <1>3, <1>10 DEF Ros!EnsureMonitoring
<1>11. ASSUME Ros!TakeLock(c) PROVE StillOk
  <2>1. checkPc[c] \in {"all", "one"} /\ status[c] = "ok"
    BY <1>3, <1>11 DEF Ros!TakeLock
  <2>2. CASE checkPc' = [checkPc EXCEPT ![c] = "one"] /\ UNCHANGED <<status, last>>
    BY <1>3, <2>1, <2>2
  <2>3. CASE Ros!Report(c, Ros!RateStatus(heard))
    <3>1. Ros!RateStatus(heard) = "ok"
      OBVIOUS
    <3> QED BY <1>4, <2>1, <2>3, <3>1
  <2> QED BY <1>11, <2>2, <2>3 DEF Ros!TakeLock
<1>12. StillOk
  BY <1>5, <1>6, <1>7, <1>8, <1>9, <1>10, <1>11 DEF Ros!Check
<1> QED BY <1>2, <1>12 DEF KnownHealthy

\* The status of ROS 2 stays what it is while the system does, if there are nodes
\* and topics to expect: StatusSettles without the time it takes, and without its
\* exceptions, since a check that hangs or a helper that is lost stores nothing.
THEOREM StatusStaysAlways ==
  ASSUME Expected # {}, Topics # {}
  PROVE  MCSpec => StatusStays
<1> DEFINE Stays == /\ KnownHealthy /\ Ros!Healthy' => KnownHealthy'
                    /\ KnownDown /\ ~running' => KnownDown'
<1>1. ASSUME Ros!TypeOK, [Ros!Next]_rosVars
      PROVE  Stays
  <2>1. ASSUME KnownHealthy, Ros!Healthy' PROVE KnownHealthy'
    <3>1. CASE \E c \in Checkers : Ros!Check(c)
      BY <1>1, <2>1, <3>1, HealthyCheck
    <3>2. CASE UNCHANGED <<config, checkPc, status, last>> /\ (Ros!Ready => Ros!Ready')
      BY <2>1, <3>2 DEF KnownHealthy
    <3>3. CASE Ros!HelperStarts
      BY <2>1, <3>3 DEF Ros!HelperStarts, Ros!checks, KnownHealthy, Ros!Ready
    <3> QED BY <1>1, <3>1, <3>2, <3>3
            DEF Ros!Next, Ros!RosStartsOrStops, Ros!NodesChange, Ros!RateChanges,
                Ros!CommandsStallOrRecover, Ros!WindowPasses, Ros!SpinTakesLock,
                Ros!SpinRecords, Ros!SpinEnds, Ros!helperState, Ros!checks, Ros!Ready, rosVars
  <2>2. ASSUME KnownDown, ~running' PROVE KnownDown'
    <3>1. ASSUME NEW c \in Checkers, Ros!Check(c)
          PROVE  UNCHANGED checkPc /\ last' = "critical"
      <4>1. checkPc[c] = "idle" /\ ~running
        BY <2>2 DEF KnownDown
      <4> QED BY <3>1, <4>1 DEF Ros!Check, Ros!CheckRunning, Ros!CheckNodes, Ros!CheckTopics,
                Ros!CheckRates, Ros!CheckRatesByHelper, Ros!EnsureMonitoring, Ros!TakeLock, Ros!At
    <3>2. CASE UNCHANGED <<checkPc, last>>
      BY <2>2, <3>2 DEF KnownDown
    <3> QED BY <1>1, <2>2, <3>1, <3>2
            DEF KnownDown, Ros!Next, Ros!RosStartsOrStops, Ros!NodesChange, Ros!RateChanges,
                Ros!CommandsStallOrRecover, Ros!WindowPasses, Ros!HelperStarts,
                Ros!SpinTakesLock, Ros!SpinRecords, Ros!SpinEnds, Ros!checks, rosVars
  <2> QED BY <2>1, <2>2
<1>2. TypesOK /\ [MCNext]_<<part, vars, rosVars, feedVars>>
        => [Stays]_<<part, vars, rosVars, feedVars>>
  BY <1>1 DEF MCNext, TypesOK
<1> QED BY <1>2, DeviceTypesCorrect, PTL DEF MCSpec, StatusStays
=============================================================================
