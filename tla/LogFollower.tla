---------------------------- MODULE LogFollower ----------------------------
(***************************************************************************)
(* LidarLogParser and CameraLogParser (lidar_log_parser.py,                *)
(* camera_log_parser.py): each follows the newest log of its driver, from  *)
(* the position where it stopped reading, and keeps the last records.  The *)
(* collector and the request threads share one parser; its lock protects   *)
(* the records but not the position.                                       *)
(*                                                                         *)
(* A log is a number of units, two to a record (a line, or a report of     *)
(* several lines), so that a read may end inside a record, which then      *)
(* matches the pattern in neither part.  A record is <<log, number>>.      *)
(***************************************************************************)
EXTENDS FiniteSets, Integers, SequencesExt

CONSTANTS
  Readers,     \* threads that ask for statistics
  Kind,        \* "lidar" | "camera": which of the two parsers
  MaxLogs, MaxUnits, \* bounds: logs, units per log
  MaxHistory,  \* max_history
  StaleAfter   \* the threshold of the monitor, in ticks

\* What the constants must satisfy.
LogAssumption ==
  MaxLogs \in Nat /\ MaxUnits \in Nat /\ MaxHistory \in Nat /\ StaleAfter \in Nat

VARIABLES
  sizes,     \* the logs, oldest first: how many units each has
  age,       \* age of each record written
  pos,       \* _last_pos
  frames,    \* _frames, or _reports
  cached,    \* the answer kept in _cached_stats, "" when there is none
  sinceCall, \* age of _cache_time, -1 when it is 0
  pc,        \* pc[r]: the part of get_statistics() thread r is in
  chunk,     \* chunk[r]: what it has read: units lo + 1 .. hi of a log
  answer,    \* the last statistics returned, as the monitor reads them
  cuts,      \* history: <<log, units>> inside a record, where a read ended
  seen       \* history: the records that were parsed

vars == <<sizes, age, pos, frames, cached, sinceCall, pc, chunk, answer, cuts, seen>>
logs == <<sizes, age>>
cache == <<cached, sinceCall>>

Old == StaleAfter + 1
Records == (1 .. MaxLogs) \X (1 .. MaxUnits \div 2)
NoChunk == [log |-> 0, lo |-> 0, hi |-> 0]
Chunk == [log : 0 .. MaxLogs, lo : 0 .. MaxUnits, hi : 0 .. MaxUnits]
Written == {r \in Records : r[1] <= Len(sizes) /\ 2 * r[2] <= sizes[r[1]]}

TypeOK ==
  /\ Len(sizes) <= MaxLogs /\ \A l \in DOMAIN sizes : sizes[l] \in 0 .. MaxUnits
  /\ age \in [Written -> 0 .. Old]
  /\ pos \in 0 .. MaxUnits
  /\ Len(frames) <= MaxHistory /\ \A i \in DOMAIN frames : frames[i] \in Written
  /\ cached \in {"", "fresh", "stale"} /\ sinceCall \in -1 .. Old
  /\ pc \in [Readers -> {"idle", "open", "read", "told", "parsed"}]
  /\ chunk \in [Readers -> Chunk]
  /\ answer \in {"none", "fresh", "stale", "raises"}

Init ==
  /\ sizes = <<>> /\ age = <<>> /\ pos = 0 /\ frames = <<>>
  /\ cached = "" /\ sinceCall = -1
  /\ pc = [r \in Readers |-> "idle"]
  /\ chunk = [r \in Readers |-> NoChunk]
  /\ answer = "none" /\ cuts = {} /\ seen = {}
-----------------------------------------------------------------------------
(* The drivers and the clock *)

\* A launch of the system makes a directory with new, empty logs.
NewLog ==
  /\ Len(sizes) < MaxLogs /\ sizes' = Append(sizes, 0)
  /\ UNCHANGED <<age, pos, frames, cache, pc, chunk, answer, cuts, seen>>

DriverWrites ==
  /\ sizes # <<>> /\ Last(sizes) < MaxUnits
  /\ sizes' = [sizes EXCEPT ![Len(sizes)] = @ + 1]
  /\ age' = [r \in Written' |-> IF r \in Written THEN age[r] ELSE 0]
  /\ UNCHANGED <<pos, frames, cache, pc, chunk, answer, cuts, seen>>

Tick ==
  /\ age' = [r \in Written |-> IF age[r] < Old THEN age[r] + 1 ELSE Old]
  /\ sinceCall' = IF sinceCall \in 0 .. StaleAfter THEN sinceCall + 1 ELSE sinceCall
  /\ UNCHANGED <<sizes, pos, frames, cached, pc, chunk, answer, cuts, seen>>
-----------------------------------------------------------------------------
(* get_statistics() *)

Go(r, label) == pc' = [pc EXCEPT ![r] = label]

\* _find_log_file() and open(): the newest log, at the position reached,
\* whichever log that position belonged to.
OpenLog(r) ==
  /\ pc[r] = "idle"
  /\ IF sizes = <<>>
     THEN Go(r, "told") /\ UNCHANGED chunk
     ELSE Go(r, "open") /\ chunk' = [chunk EXCEPT ![r] = [log |-> Len(sizes), lo |-> pos, hi |-> pos]]
  /\ UNCHANGED <<logs, pos, frames, cache, answer, cuts, seen>>

\* readlines(): to the end, nothing when the position is beyond it.
ReadLines(r) ==
  /\ pc[r] = "open" /\ Go(r, "read")
  /\ LET c == chunk[r]
         end == IF sizes[c.log] > c.lo THEN sizes[c.log] ELSE c.lo
     IN  /\ chunk' = [chunk EXCEPT ![r].hi = end]
         /\ cuts' = cuts \cup {u \in {<<c.log, end>>} : end % 2 = 1}
  /\ UNCHANGED <<logs, pos, frames, cache, answer, seen>>

\* Mutant: the position is the size of the file, asked for after the reading.
Mutant_KeepPosition(r) ==
  /\ pc[r] = "read" /\ Go(r, "told")
  /\ pos' = sizes[chunk[r].log]
  /\ UNCHANGED <<logs, frames, cache, chunk, answer, cuts, seen>>

\* _last_pos = f.tell()
KeepPosition(r) ==
  /\ pc[r] = "read" /\ Go(r, "told")
  /\ pos' = chunk[r].hi
  /\ UNCHANGED <<logs, frames, cache, chunk, answer, cuts, seen>>

\* The records that lie wholly in a chunk, in order.
RecordsIn(c) ==
  LET within == {k \in 1 .. MaxUnits \div 2 : c.lo <= 2 * k - 2 /\ 2 * k <= c.hi}
  IN  [i \in 1 .. Cardinality(within) |-> <<c.log, i + (c.lo + 1) \div 2>>]

\* Mutant: the history is not cut.
Mutant_Kept(all) == all

\* The last max_history of them.
Kept(all) ==
  SubSeq(all, 1 + (IF Len(all) > MaxHistory THEN Len(all) - MaxHistory ELSE 0), Len(all))

\* parse_new_frames(), parse_new_reports(): the part under the lock.
Parse(r) ==
  /\ pc[r] = "told" /\ Go(r, "parsed")
  /\ frames' = Kept(frames \o RecordsIn(chunk[r]))
  /\ cached' = "" /\ chunk' = [chunk EXCEPT ![r] = NoChunk] /\ seen' = seen \cup ToSet(RecordsIn(chunk[r]))
  /\ UNCHANGED <<logs, pos, sinceCall, answer, cuts>>

\* Mutant: both count from the last call.
Mutant_SinceLast == IF sinceCall = -1 THEN 0 ELSE sinceCall

\* The camera's time since the last report comes from the report; the
\* lidar's time since the last frame is the time since the previous call.
SinceLast ==
  IF Kind = "camera" THEN age[Last(frames)]
  ELSE IF sinceCall = -1 THEN 0 ELSE sinceCall

\* The lidar's frequency is unbound when the first and the last time stamp of
\* several frames are not in order: always when a log's frame is in the history
\* again, or behind a later one that another thread was quicker to store; for
\* frames of two logs when the device's clock started again.
MustRaise ==
  /\ Kind = "lidar" /\ Len(frames) >= 2
  /\ Head(frames)[1] = Last(frames)[1] /\ Head(frames)[2] >= Last(frames)[2]
MayRaise ==
  \/ MustRaise
  \/ Kind = "lidar" /\ Len(frames) >= 2 /\ Head(frames)[1] # Last(frames)[1]

Judgement == IF SinceLast > StaleAfter THEN "stale" ELSE "fresh"

\* The rest of get_statistics(): another thread may have left its answer in
\* the cache since this one dropped it (a tick is longer than the 0.5 s that
\* it counts).
Answer(r) ==
  /\ pc[r] = "parsed" /\ Go(r, "idle")
  /\ \/ cached # "" /\ sinceCall = 0 /\ answer' = cached /\ UNCHANGED cache
     \/ ~(cached # "" /\ sinceCall = 0) /\ frames = <<>> /\ answer' = "none" /\ UNCHANGED cache
     \/ ~(cached # "" /\ sinceCall = 0) /\ MayRaise /\ answer' = "raises" /\ UNCHANGED cache
     \/ /\ ~(cached # "" /\ sinceCall = 0) /\ frames # <<>> /\ ~MustRaise
        /\ answer' = Judgement /\ cached' = Judgement /\ sinceCall' = 0
  /\ UNCHANGED <<logs, pos, frames, chunk, cuts, seen>>

GetStatistics(r) ==
  OpenLog(r) \/ ReadLines(r) \/ KeepPosition(r) \/ Parse(r) \/ Answer(r)

Next == NewLog \/ DriverWrites \/ Tick \/ \E r \in Readers : GetStatistics(r)

\* Time passes and the dashboard keeps asking.
Fairness == WF_vars(Tick) /\ \A r \in Readers : WF_vars(GetStatistics(r))

Spec == Init /\ [][Next]_vars /\ Fairness
-----------------------------------------------------------------------------
(* Two threads that read and move the position in any order may read a      *)
(* record twice, but between them they skip none of the first log: a        *)
(* record the position has passed was parsed, is in the hands of a thread,  *)
(* or was torn by the end of a read.  (In a later log everything before the *)
(* old position is skipped.)                                                *)
NothingSkipped ==
  Len(sizes) = 1 =>
    \A rec \in Written :
      2 * rec[2] <= pos =>
        \/ rec \in seen
        \/ \E r \in Readers : pc[r] = "told" /\ rec \in ToSet(RecordsIn(chunk[r]))
        \/ <<rec[1], 2 * rec[2] - 1>> \in cuts

(* A driver that has stopped logging is shown as stale ("Check if data is   *)
(* stale", camera.py:583 and navi_lidar.py:612), if any of its records was  *)
(* ever read.  It holds of the camera.  It fails of the lidar, whose time   *)
(* starts again at every call.                                              *)
SilenceIsNoticed ==
  <>[](\A rec \in DOMAIN age : age[rec] > StaleAfter)
    => []<>(answer = "stale") \/ []<>(frames = <<>>) \/ []<>(answer = "raises")
=============================================================================
