------------------------------ MODULE LoggerProofs ------------------------------
(***************************************************************************)
(* Proofs about Logger for every set of patterns, whatever their paths     *)
(* are, every directory, interval and limit of files.                      *)
(***************************************************************************)
EXTENDS Logger, SequenceProofs, FiniteSetTheorems

\* The next line would be lost.
Losing(s) == s.target = "file" /\ s.good /\ ~s.open

\* An open stream is open on a file; while the rotation is on, on the path that its
\* pattern had at some time since the last rotation.
Current(s, time) ==
  /\ s.open => s.file \in Paths
  /\ s.rotation_enabled =>
       /\ s.pattern \in Patterns
       /\ s.open => /\ s.file = s.current_log_path
                    /\ \E t \in Times : /\ t <= time /\ s.last_rotation_time <= t
                                        /\ s.current_log_path = PathOf[s.pattern][t]

IInv ==
  /\ clock \in Times /\ lost \in 0 .. 2
  /\ logger \in LoggerState
  /\ Current(logger, clock)
  /\ LossBounded /\ LineTimely
  /\ lost = 1 => ~Losing(logger)

\* A stream that open_rotated_file_ opens, or for which it falls back to the console,
\* loses no line; only the shortcut for the path of last time leaves it as it was.
LEMMA OpenResult ==
  ASSUME NEW s \in LoggerState, NEW path \in Paths, NEW r \in OpenRotatedFile(s, path)
  PROVE  \/ path = s.current_log_path /\ s.good /\ r.logger = s
         \/ /\ r.logger \in LoggerState /\ ~Losing(r.logger)
            /\ r.logger.current_log_path = path
            /\ r.logger.pattern = s.pattern
            /\ r.logger.last_rotation_time = s.last_rotation_time
            /\ r.logger.open => r.logger.file = path
            /\ r.logger.rotation_enabled => r.logger.open
<1>1. CASE path = s.current_log_path /\ s.good
  BY <1>1 DEF OpenRotatedFile
<1>2. CASE ~(path = s.current_log_path /\ s.good)
  <2> DEFINE closed == [Close(s) EXCEPT !.current_log_path = path]
  <2>1. /\ closed \in LoggerState /\ closed.current_log_path = path
        /\ closed.pattern = s.pattern /\ closed.last_rotation_time = s.last_rotation_time
        /\ ~closed.open
    <3>1. (s.good /\ s.open) \in BOOLEAN
      BY Zenon
    <3> QED
      BY <3>1 DEF LoggerState, Close
  <2>2. r.logger \in {Opened(closed, path), Fallback(closed)}
    BY <1>2 DEF OpenRotatedFile
  <2> HIDE DEF closed
  <2>3. /\ Opened(closed, path) \in LoggerState
        /\ Opened(closed, path).current_log_path = path
        /\ Opened(closed, path).pattern = s.pattern
        /\ Opened(closed, path).last_rotation_time = s.last_rotation_time
        /\ Opened(closed, path).open /\ Opened(closed, path).file = path
    BY <2>1 DEF LoggerState, Opened
  <2>4. /\ Fallback(closed) \in LoggerState
        /\ Fallback(closed).current_log_path = path
        /\ Fallback(closed).pattern = s.pattern
        /\ Fallback(closed).last_rotation_time = s.last_rotation_time
        /\ ~Fallback(closed).rotation_enabled /\ Fallback(closed).target = "cout"
        /\ ~Fallback(closed).open
    BY <2>1 DEF LoggerState, Fallback
  <2> QED
    BY <2>2, <2>3, <2>4 DEF Losing
<1> QED
  BY <1>1, <1>2

\* The path of a pattern is a path.
LEMMA PathIsPath == ASSUME NEW p \in Patterns, NEW t \in Times PROVE PathOf[p][t] \in Paths
  BY LoggerAssumption

\* Nor does a rotation bring a stream into a state in which it loses a line; after it
\* the log is as current as the clock.
LEMMA RotateResult ==
  ASSUME NEW s \in LoggerState, clock \in Times, Current(s, clock), s.rotation_enabled,
         NEW r \in DoRotate(s)
  PROVE  /\ r.logger \in LoggerState /\ Current(r.logger, clock)
         /\ r.logger.last_rotation_time = clock
         /\ Losing(r.logger) => Losing(s)
<1>1. s.pattern \in Patterns /\ Path(s) \in Paths /\ Path(s) = PathOf[s.pattern][clock]
  BY PathIsPath DEF Current, Path
<1>2. CASE Path(s) = s.current_log_path /\ s.good
  <2>1. r.logger = [s EXCEPT !.last_rotation_time = clock]
    BY <1>2 DEF DoRotate
  <2>2. /\ r.logger \in LoggerState
        /\ r.logger.last_rotation_time = clock
        /\ r.logger.target = s.target /\ r.logger.good = s.good /\ r.logger.open = s.open
        /\ r.logger.file = s.file /\ r.logger.current_log_path = s.current_log_path
        /\ r.logger.pattern = s.pattern
    BY <2>1 DEF LoggerState
  <2>3. clock <= clock
    BY DEF Times
  <2> QED
    BY <1>1, <1>2, <2>2, <2>3 DEF Current, Losing
<1>3. CASE ~(Path(s) = s.current_log_path /\ s.good)
  <2>1. PICK q \in OpenRotatedFile(Close(s), Path(s)) :
          r = [q EXCEPT !.logger.last_rotation_time = clock, !.files = Purged(q.files)]
    BY <1>3 DEF DoRotate
  <2>2. /\ Close(s) \in LoggerState /\ Close(s).pattern = s.pattern
        /\ Close(s).current_log_path = s.current_log_path
        /\ Close(s).good => s.good
    <3>1. (s.good /\ s.open) \in BOOLEAN
      BY Zenon
    <3> QED
      BY <3>1 DEF LoggerState, Close
  <2>3. /\ q.logger \in LoggerState /\ ~Losing(q.logger)
        /\ q.logger.current_log_path = Path(s)
        /\ q.logger.pattern = s.pattern
        /\ q.logger.open => q.logger.file = Path(s)
        /\ q.logger.rotation_enabled => q.logger.open
    BY <1>1, <1>3, <2>2, OpenResult
  <2>4. r.logger = [q.logger EXCEPT !.last_rotation_time = clock]
    <3>1. \E l, f, c : q = [logger |-> l, files |-> f, created |-> c]
      BY DEF OpenRotatedFile
    <3> QED
      BY <2>1, <3>1
  <2>5. /\ r.logger \in LoggerState
        /\ r.logger.last_rotation_time = clock
        /\ r.logger.target = q.logger.target /\ r.logger.good = q.logger.good
        /\ r.logger.open = q.logger.open /\ r.logger.file = q.logger.file
        /\ r.logger.current_log_path = q.logger.current_log_path
        /\ r.logger.pattern = q.logger.pattern
        /\ r.logger.rotation_enabled = q.logger.rotation_enabled
    BY <2>3, <2>4 DEF LoggerState
  <2>6. clock <= clock
    BY DEF Times
  <2> QED
    BY <1>1, <2>3, <2>5, <2>6 DEF Current, Losing
<1> QED
  BY <1>2, <1>3

\* The rotation at the beginning of log as well; without one, the stream is timely.
LEMMA RotatedResult ==
  ASSUME IInv, NEW r \in Rotated
  PROVE  /\ r.logger \in LoggerState /\ Current(r.logger, clock)
         /\ Losing(r.logger) => Losing(logger)
         /\ r.logger.rotation_enabled => clock < r.logger.last_rotation_time + Interval
<1> USE DEF IInv
<1>1. CASE logger.rotation_enabled /\ Due(logger)
  <2>1. r \in DoRotate(logger)
    BY <1>1 DEF Rotated
  <2>2. /\ r.logger \in LoggerState /\ Current(r.logger, clock)
        /\ r.logger.last_rotation_time = clock
        /\ Losing(r.logger) => Losing(logger)
    BY <1>1, <2>1, RotateResult
  <2>3. clock < clock + Interval
    BY LoggerAssumption DEF Times
  <2> QED
    BY <2>2, <2>3
<1>2. CASE ~(logger.rotation_enabled /\ Due(logger))
  <2>1. r.logger = logger
    BY <1>2 DEF Rotated
  <2>2. logger.rotation_enabled => clock < logger.last_rotation_time + Interval
    <3>1. logger.last_rotation_time \in Nat /\ clock \in Nat /\ Interval \in Nat
      BY LoggerAssumption DEF Times, LoggerState
    <3> QED
      BY <1>2, <3>1 DEF Due
  <2> QED
    BY <2>1, <2>2
<1> QED
  BY <1>1, <1>2

\* Each step that writes no line keeps the stream as it is, or configures it anew.
LEMMA QuietStep ==
  ASSUME IInv, Tick \/ Outconsole \/ Rotate
               \/ (\E name \in Names : Outfile(name)) \/ (\E p \in Patterns : SetRotation(p))
  PROVE  IInv'
<1> USE DEF IInv, LossBounded, LineTimely
<1>1. lastLine' \notin Paths
  BY LoggerAssumption DEF Tick, Outconsole, Rotate, Outfile, SetRotation, Configured
<1>2. CASE Tick
  <2>1. logger' = logger /\ lost' = lost /\ clock' = clock + 1 /\ clock' \in Times
    BY <1>2, LoggerAssumption DEF Tick, Times
  <2>2. Current(logger, clock')
    BY <2>1 DEF Current, Times
  <2> QED
    BY <1>1, <2>1, <2>2
<1>3. CASE Outconsole
  <2>1. /\ logger' = ToConsole(logger) /\ clock' = clock /\ lost' = 0
    BY <1>3 DEF Outconsole, Configured
  <2>2. (logger.good /\ logger.open) \in BOOLEAN
    BY Zenon
  <2>3. logger' \in LoggerState /\ ~logger'.rotation_enabled /\ ~logger'.open
    BY <2>1, <2>2 DEF ToConsole, Close, LoggerState
  <2> QED
    BY <1>1, <2>1, <2>3 DEF Current
<1>4. CASE Rotate
  <2>1. PICK r \in DoRotate(logger) : logger' = r.logger
    BY <1>4 DEF Rotate, Becomes
  <2>2. clock' = clock /\ lost' = lost /\ logger.rotation_enabled
    BY <1>4 DEF Rotate
  <2>3. /\ r.logger \in LoggerState /\ Current(r.logger, clock)
        /\ Losing(r.logger) => Losing(logger)
    BY <2>2, RotateResult
  <2> QED
    BY <1>1, <2>1, <2>2, <2>3
<1>5. ASSUME NEW name \in Names, Outfile(name) PROVE IInv'
  <2>1. /\ logger' = [Opened(logger, name) EXCEPT !.rotation_enabled = FALSE, !.target = "file"]
        /\ clock' = clock /\ lost' = 0
    BY <1>5 DEF Outfile, Configured
  <2>2. logger' \in LoggerState /\ ~logger'.rotation_enabled /\ logger'.file \in Paths
    <3>1. name \in Paths
      BY DEF Paths
    <3> QED
      BY <2>1, <3>1 DEF Opened, LoggerState
  <2> QED
    BY <1>1, <2>1, <2>2 DEF Current
<1>6. ASSUME NEW p \in Patterns, SetRotation(p) PROVE IInv'
  <2> DEFINE s == [Close(logger) EXCEPT !.pattern = p, !.last_rotation_time = clock,
                                        !.target = "file", !.rotation_enabled = TRUE]
  <2>1. /\ clock' \in {clock, clock + 1} \cap Times /\ lost' = 0
        /\ \E r \in OpenRotatedFile(s, PathOf[p][clock']) : logger' = r.logger
    BY <1>6 DEF SetRotation, Configured, Becomes
  <2>2. s \in LoggerState /\ ~s.open /\ s.pattern = p /\ s.last_rotation_time = clock
    <3>1. (logger.good /\ logger.open) \in BOOLEAN
      BY Zenon
    <3> QED
      BY <3>1 DEF LoggerState, Close
  <2> HIDE DEF s
  <2>3. PICK r \in OpenRotatedFile(s, PathOf[p][clock']) : logger' = r.logger
    BY <2>1
  <2>4. PathOf[p][clock'] \in Paths /\ clock' \in Times /\ clock <= clock'
    BY <2>1, PathIsPath DEF Times
  <2>5. \/ logger' = s
        \/ /\ logger' \in LoggerState
           /\ logger'.current_log_path = PathOf[p][clock']
           /\ logger'.pattern = p /\ logger'.last_rotation_time = clock
           /\ logger'.open => logger'.file = PathOf[p][clock']
           /\ logger'.rotation_enabled => logger'.open
    BY <2>2, <2>3, <2>4, OpenResult
  <2>6. logger' \in LoggerState
    BY <2>2, <2>5
  <2>7. Current(logger', clock')
    <3>1. clock' <= clock'
      BY <2>4 DEF Times
    <3> QED
      BY <2>2, <2>4, <2>5, <3>1 DEF Current
  <2> QED
    BY <1>1, <2>1, <2>4, <2>6, <2>7
<1> QED
  BY <1>2, <1>3, <1>4, <1>5, <1>6

\* A line shows a stream that loses lines; a line that is not lost goes to the file the
\* stream is open on.
LEMMA LogStep == ASSUME IInv, Log PROVE IInv'
<1> USE DEF IInv, LossBounded, LineTimely
<1>1. PICK r \in Rotated :
        /\ lastLine' = Line(r.logger, r.files)
        /\ lost' = IF lastLine' = "lost" /\ lost < 2 THEN lost + 1 ELSE lost
        /\ logger' = Written(r.logger) /\ clock' = clock
  BY DEF Log, Becomes
<1>2. /\ r.logger \in LoggerState /\ Current(r.logger, clock)
      /\ Losing(r.logger) => Losing(logger)
      /\ r.logger.rotation_enabled => clock < r.logger.last_rotation_time + Interval
  BY RotatedResult
<1> DEFINE s == r.logger
<1> HIDE DEF s
<1>3. s \in LoggerState /\ logger' = Written(s) /\ Current(s, clock)
  BY <1>1, <1>2 DEF s
<1>4. (s.good /\ s.open) \in BOOLEAN
  BY Zenon
<1>5. /\ logger' \in LoggerState
      /\ logger'.rotation_enabled = s.rotation_enabled /\ logger'.pattern = s.pattern
      /\ logger'.open = s.open /\ logger'.file = s.file
      /\ logger'.current_log_path = s.current_log_path
      /\ logger'.last_rotation_time = s.last_rotation_time
  BY <1>3, <1>4 DEF Written, LoggerState
<1>6. Current(logger', clock')
  BY <1>1, <1>3, <1>5 DEF Current
<1>7. ~Losing(logger')
  BY <1>3, <1>4 DEF Losing, Written, LoggerState
<1>8. lastLine' = "lost" => Losing(s)
  BY <1>1, <1>3, LoggerAssumption DEF Line, Losing, LoggerState, Current, s
<1>9. lost' \in 0 .. 2 /\ lost' <= 1
  BY <1>1, <1>2, <1>8 DEF s
<1>10. LineTimely'
  <2> SUFFICES ASSUME logger'.rotation_enabled, lastLine' \in Paths
               PROVE  \E t \in Times : /\ t <= clock /\ clock < t + Interval
                                       /\ lastLine' = PathOf[logger'.pattern][t]
    BY <1>1
  <2>1. s.open /\ lastLine' = s.file
    BY <1>1, LoggerAssumption DEF Line, s
  <2>2. PICK t \in Times : /\ t <= clock /\ s.last_rotation_time <= t
                           /\ s.file = PathOf[s.pattern][t]
    BY <1>3, <1>5, <2>1 DEF Current
  <2>3. clock < t + Interval
    <3>1. clock < s.last_rotation_time + Interval
      BY <1>2, <1>5 DEF s
    <3>2. s.last_rotation_time \in Nat /\ clock \in Nat /\ Interval \in Nat /\ t \in Nat
      BY <1>3, LoggerAssumption DEF Times, LoggerState
    <3> QED
      BY <2>2, <3>1, <3>2
  <2> QED
    BY <1>5, <2>1, <2>2, <2>3
<1> QED
  BY <1>1, <1>5, <1>6, <1>7, <1>9, <1>10

--------------------------------------------------------------------------------
\* The inductive invariant holds in every reachable state of every logger.
THEOREM Invariance == Spec => []IInv
<1>1. Init => IInv
  <2> SUFFICES ASSUME Init PROVE IInv
    OBVIOUS
  <2>1. logger \in LoggerState /\ clock \in Times /\ lost = 0 /\ lastLine = "none"
    BY LoggerAssumption DEF Init, LoggerState, Times
  <2>2. ~logger.rotation_enabled /\ ~logger.open
    BY DEF Init
  <2> QED
    BY <2>1, <2>2, LoggerAssumption DEF IInv, Current, LossBounded, LineTimely
<1>2. IInv /\ [Next]_vars => IInv'
  <2> SUFFICES ASSUME IInv, [Next]_vars PROVE IInv'
    OBVIOUS
  <2>1. CASE UNCHANGED vars
    BY <2>1 DEF vars, IInv, LossBounded, LineTimely
  <2>2. CASE Log
    BY <2>2, LogStep
  <2>3. CASE Next /\ ~Log
    BY <2>3, QuietStep DEF Next
  <2> QED
    BY <2>1, <2>2, <2>3
<1> QED
  BY <1>1, <1>2, PTL DEF Spec

\* At most one line is written to a closed stream after each configuration, however
\* often the log is rotated, whatever fails and whatever the paths of a pattern are.
THEOREM OneLineLost == Spec => []LossBounded
<1>1. IInv => LossBounded
  BY DEF IInv
<1> QED
  BY Invariance, <1>1, PTL

\* A line that goes to a rotated file is never late by an interval.
THEOREM LinesInTime == Spec => []LineTimely
<1>1. IInv => LineTimely
  BY DEF IInv
<1> QED
  BY Invariance, <1>1, PTL

--------------------------------------------------------------------------------
(* The directory *)

Directory(dir) == dir \in Seq(Paths) /\ IsInjective(dir)

\* A file that was created for the stream is there for as long as the stream is open.
Sound(s, dir, new) ==
  /\ Directory(dir) /\ new \in BOOLEAN
  /\ s.rotation_enabled => s.target = "file"
  /\ MaxFiles # 0 /\ new /\ s.open => s.file \in Range(dir)

FilesInv ==
  /\ Sound(logger, files, created)
  /\ lastLine \in Paths \cup {"none", "console", "lost", "removed"}
  /\ WrittenFileKept

\* What is left of the oldest files are those that cannot be removed.
LEMMA PurgeResult ==
  ASSUME NEW dir, Directory(dir)
  PROVE  /\ Directory(Purged(dir))
         /\ MaxFiles # 0 /\ dir # <<>> => dir[Len(dir)] \in Range(Purged(dir))
         /\ Cardinality(Range(Purged(dir)) \ Undeletable) <= MaxFiles
<1> USE LoggerAssumption
<1>1. /\ dir \in Seq(Paths) /\ IsInjective(dir) /\ Len(dir) \in Nat
      /\ DOMAIN dir = 1 .. Len(dir) /\ Range(dir) \subseteq Paths
  BY RangeIsElements DEF Directory
<1> DEFINE most == Len(dir) - MaxFiles
           young == {dir[i] : i \in most + 1 .. Len(dir)}
<1>2. ASSUME NEW S, NEW a \in Nat, S \subseteq {dir[i] : i \in a + 1 .. Len(dir)},
             Len(dir) - a <= MaxFiles, a <= Len(dir)
      PROVE  Cardinality(S) <= MaxFiles
  <2> DEFINE I == a + 1 .. Len(dir)
             V == {dir[i] : i \in I}
             f == [i \in I |-> dir[i]]
  <2>1. IsFiniteSet(I) /\ Cardinality(I) <= MaxFiles /\ Cardinality(I) \in Nat
    <3> DEFINE lo == a + 1
               hi == Len(dir)
    <3>1. lo \in Int /\ hi \in Int
      BY <1>1
    <3> HIDE DEF lo, hi
    <3>2. IsFiniteSet(lo .. hi)
          /\ Cardinality(lo .. hi) = IF lo > hi THEN 0 ELSE hi - lo + 1
      BY <3>1, FS_Interval
    <3> QED
      BY <1>1, <1>2, <3>2 DEF lo, hi
  <2>2. f \in Surjection(I, V)
    BY DEF Surjection
  <2>3. IsFiniteSet(V) /\ Cardinality(V) <= Cardinality(I)
    <3> HIDE DEF I, V, f
    <3> QED
      BY <2>1, <2>2, FS_Surjection
  <2>4. S \in SUBSET V
    BY <1>2
  <2> HIDE DEF I, V
  <2>5. /\ Cardinality(S) <= Cardinality(V)
        /\ Cardinality(S) \in Nat /\ Cardinality(V) \in Nat
    BY <2>3, <2>4, FS_Subset, FS_CardinalityType
  <2> QED
    BY <2>1, <2>3, <2>5
<1>3. CASE Len(dir) <= MaxFiles
  <2>1. Purged(dir) = dir
    BY <1>3 DEF Purged
  <2>2. MaxFiles # 0 /\ dir # <<>> => dir[Len(dir)] \in Range(dir)
    BY <1>1 DEF Range
  <2>3. Range(dir) \ Undeletable \subseteq {dir[i] : i \in 0 + 1 .. Len(dir)}
    BY <1>1 DEF Range
  <2>4. Cardinality(Range(dir) \ Undeletable) <= MaxFiles
    BY <1>1, <1>2, <1>3, <2>3
  <2> QED
    BY <2>1, <2>2, <2>4
<1>4. CASE ~(Len(dir) <= MaxFiles)
  <2> DEFINE S == Undeletable \cup (Paths \ Range(Oldest(dir)))
  <2>1. Purged(dir) = Filtered(dir, S)
    BY <1>4 DEF Purged
  <2>2. most \in 1 .. Len(dir)
    BY <1>1, <1>4
  <2>3. /\ DOMAIN Oldest(dir) = 1 .. most
        /\ \A i \in 1 .. most : Oldest(dir)[i] = dir[i]
    BY <1>1, <2>2 DEF Oldest
  <2>4. Range(Oldest(dir)) = {dir[i] : i \in 1 .. most}
    BY <2>3 DEF Range
  <2>5. Directory(Purged(dir)) /\ Range(Purged(dir)) = Range(dir) \cap S
    BY <1>1, <2>1, FilteredInjective DEF Directory
  <2>6. MaxFiles # 0 => dir[Len(dir)] \in Range(Purged(dir))
    <3> SUFFICES ASSUME MaxFiles # 0 PROVE dir[Len(dir)] \in Range(dir) \cap S
      BY <2>5
    <3>1. Len(dir) \in 1 .. Len(dir) /\ Len(dir) > most
      BY <1>1, <2>2
    <3>2. dir[Len(dir)] \in Range(dir) /\ dir[Len(dir)] \in Paths
      BY <1>1, <3>1 DEF Range
    <3>3. ASSUME NEW i \in 1 .. most PROVE i \in 1 .. Len(dir) /\ i # Len(dir)
      <4>1. MaxFiles \in Nat \ {0} /\ Len(dir) \in Nat
        BY <1>1
      <4>2. i \in Int /\ 1 <= i /\ i <= Len(dir) - MaxFiles
        BY <4>1
      <4> QED
        BY <4>1, <4>2
    <3>4. \A i \in 1 .. most : dir[i] # dir[Len(dir)]
      BY <1>1, <3>1, <3>3 DEF IsInjective
    <3> QED
      BY <2>4, <3>2, <3>4
  <2>7. Range(Purged(dir)) \ Undeletable \subseteq young
    <3> SUFFICES ASSUME NEW i \in 1 .. Len(dir), dir[i] \notin Range(Oldest(dir))
                 PROVE  dir[i] \in young
      BY <1>1, <2>5 DEF Range
    <3>1. i \notin 1 .. most
      BY <2>4
    <3>2. i \in most + 1 .. Len(dir)
      BY <1>1, <2>2, <3>1
    <3> QED
      BY <3>2
  <2>8. most \in Nat /\ Len(dir) - most <= MaxFiles /\ most <= Len(dir)
    BY <1>1, <2>2
  <2>9. Cardinality(Range(Purged(dir)) \ Undeletable) <= MaxFiles
    <3> HIDE DEF most
    <3> QED
      BY <1>2, <2>7, <2>8
  <2> QED
    BY <2>5, <2>6, <2>9
<1> QED
  BY <1>3, <1>4

\* A line makes its file the youngest.
LEMMA TouchResult ==
  ASSUME NEW dir, Directory(dir), NEW line
  PROVE  Directory(Touched(dir, line)) /\ Range(Touched(dir, line)) = Range(dir)
<1>1. dir \in Seq(Paths) /\ IsInjective(dir) /\ Range(dir) \subseteq Paths
  BY RangeIsElements DEF Directory
<1>2. CASE line \in Range(dir)
  <2> DEFINE rest == Filtered(dir, Paths \ {line})
  <2>1. /\ rest \in Seq(Paths) /\ IsInjective(rest)
        /\ Range(rest) = Range(dir) \cap (Paths \ {line})
    BY <1>1, FilteredInjective
  <2>2. line \in Paths /\ line \notin Range(rest)
    BY <1>1, <1>2, <2>1
  <2> HIDE DEF rest
  <2>3. /\ Append(rest, line) \in Seq(Paths) /\ IsInjective(Append(rest, line))
        /\ Range(Append(rest, line)) = Range(rest) \cup {line}
    BY <2>1, <2>2, AppendNew
  <2>4. Touched(dir, line) = Append(rest, line)
    BY <1>2 DEF Touched, rest
  <2> QED
    BY <1>1, <1>2, <2>1, <2>3, <2>4 DEF Directory
<1>3. CASE line \notin Range(dir)
  BY <1>3 DEF Touched
<1> QED
  BY <1>2, <1>3

\* A file that is opened is there, at the end if it has been created.
LEMMA CreatedResult ==
  ASSUME Directory(files), NEW path \in Paths
  PROVE  /\ Directory(Created(path)) /\ path \in Range(Created(path))
         /\ path \notin Range(files) =>
              Created(path) # <<>> /\ Created(path)[Len(Created(path))] = path
<1>1. CASE path \in Range(files)
  BY <1>1 DEF Created
<1>2. CASE path \notin Range(files)
  <2>1. Created(path) = Append(files, path) /\ files \in Seq(Paths) /\ IsInjective(files)
    BY <1>2 DEF Created, Directory
  <2>2. Directory(Append(files, path)) /\ path \in Range(Append(files, path))
    BY <1>2, <2>1, AppendNew DEF Directory
  <2>3. Append(files, path) # <<>> /\ Append(files, path)[Len(Append(files, path))] = path
    BY <2>1
  <2> QED
    BY <2>1, <2>2, <2>3
<1> QED
  BY <1>1, <1>2

\* open_rotated_file_ on a closed stream.
LEMMA OpenSound ==
  ASSUME NEW s \in LoggerState, ~s.open, s.rotation_enabled => s.target = "file",
         Directory(files), created \in BOOLEAN,
         NEW path \in Paths, NEW r \in OpenRotatedFile(s, path)
  PROVE  /\ r.logger \in LoggerState
         /\ Sound(r.logger, r.files, r.created)
         /\ r.created /\ r.logger.open =>
              r.files # <<>> /\ r.files[Len(r.files)] = r.logger.file
<1>1. CASE path = s.current_log_path /\ s.good
  <2>1. r = [logger |-> s, files |-> files, created |-> created]
    BY <1>1 DEF OpenRotatedFile
  <2> QED
    BY <2>1 DEF Sound
<1>2. CASE ~(path = s.current_log_path /\ s.good)
  <2> DEFINE closed == [Close(s) EXCEPT !.current_log_path = path]
  <2>1. closed \in LoggerState /\ closed.target = s.target
        /\ closed.rotation_enabled = s.rotation_enabled
    <3>1. (s.good /\ s.open) \in BOOLEAN
      BY Zenon
    <3> QED
      BY <3>1 DEF LoggerState, Close
  <2>2. r \in {[logger |-> Opened(closed, path), files |-> Created(path),
                created |-> path \notin Range(files)],
               [logger |-> Fallback(closed), files |-> files, created |-> FALSE]}
    BY <1>2 DEF OpenRotatedFile
  <2> HIDE DEF closed
  <2>3. CASE r = [logger |-> Opened(closed, path), files |-> Created(path),
                  created |-> path \notin Range(files)]
    <3>1. /\ Opened(closed, path) \in LoggerState
          /\ Opened(closed, path).target = s.target
          /\ Opened(closed, path).rotation_enabled = s.rotation_enabled
          /\ Opened(closed, path).file = path
      BY <2>1 DEF Opened, LoggerState
    <3>2. (path \notin Range(files)) \in BOOLEAN
      BY Zenon
    <3>3. /\ Directory(Created(path)) /\ path \in Range(Created(path))
          /\ path \notin Range(files) =>
               Created(path) # <<>> /\ Created(path)[Len(Created(path))] = path
      BY CreatedResult
    <3>4. /\ r.logger = Opened(closed, path) /\ r.files = Created(path)
          /\ r.created = (path \notin Range(files))
      BY <2>3
    <3>5. r.created \in BOOLEAN
      BY <3>2, <3>4
    <3>6. r.created => path \notin Range(files)
      BY <3>4
    <3> QED
      BY <3>1, <3>3, <3>4, <3>5, <3>6 DEF Sound
  <2>4. CASE r = [logger |-> Fallback(closed), files |-> files, created |-> FALSE]
    <3>1. Fallback(closed) \in LoggerState /\ ~Fallback(closed).rotation_enabled
      BY <2>1 DEF Fallback, LoggerState
    <3> QED
      BY <2>4, <3>1 DEF Sound
  <2> QED
    BY <2>2, <2>3, <2>4
<1> QED
  BY <1>1, <1>2

\* A rotation: what it opens survives its own purge, and if it has opened anything, no
\* more files than max_files do, but for those that cannot be removed.
LEMMA RotateSound ==
  ASSUME NEW s \in LoggerState, clock \in Times, Current(s, clock), s.rotation_enabled,
         Sound(s, files, created), NEW r \in DoRotate(s)
  PROVE  /\ Sound(r.logger, r.files, r.created)
         /\ \/ r.logger.current_log_path = s.current_log_path
            \/ Cardinality(Range(r.files) \ Undeletable) <= MaxFiles
<1>1. Path(s) \in Paths
  BY PathIsPath DEF Current, Path
<1>2. CASE Path(s) = s.current_log_path /\ s.good
  <2>1. r = [logger |-> [s EXCEPT !.last_rotation_time = clock],
             files |-> files, created |-> created]
    BY <1>2 DEF DoRotate
  <2>2. /\ r.logger.target = s.target /\ r.logger.open = s.open /\ r.logger.file = s.file
        /\ r.logger.current_log_path = s.current_log_path
        /\ r.files = files /\ r.created = created
    BY <2>1 DEF LoggerState
  <2> QED
    BY <2>2 DEF Sound
<1>3. CASE ~(Path(s) = s.current_log_path /\ s.good)
  <2>1. PICK q \in OpenRotatedFile(Close(s), Path(s)) :
          r = [q EXCEPT !.logger.last_rotation_time = clock, !.files = Purged(q.files)]
    BY <1>3 DEF DoRotate
  <2>2. /\ Close(s) \in LoggerState /\ ~Close(s).open
        /\ Close(s).rotation_enabled => Close(s).target = "file"
    <3>1. (s.good /\ s.open) \in BOOLEAN
      BY Zenon
    <3> QED
      BY <3>1 DEF LoggerState, Close, Sound
  <2>3. /\ q.logger \in LoggerState
        /\ Sound(q.logger, q.files, q.created)
        /\ q.created /\ q.logger.open =>
             q.files # <<>> /\ q.files[Len(q.files)] = q.logger.file
    BY <1>1, <2>2, OpenSound DEF Sound
  <2>4. /\ r.logger = [q.logger EXCEPT !.last_rotation_time = clock]
        /\ r.files = Purged(q.files) /\ r.created = q.created
    <3>1. \E l, f, c : q = [logger |-> l, files |-> f, created |-> c]
      BY DEF OpenRotatedFile
    <3> QED
      BY <2>1, <3>1
  <2>5. /\ r.logger.target = q.logger.target /\ r.logger.open = q.logger.open
        /\ r.logger.file = q.logger.file
        /\ r.logger.rotation_enabled = q.logger.rotation_enabled
    BY <2>3, <2>4 DEF LoggerState
  <2>6. Directory(q.files)
    BY <2>3 DEF Sound
  <2>7. /\ Directory(Purged(q.files))
        /\ MaxFiles # 0 /\ q.files # <<>> =>
             q.files[Len(q.files)] \in Range(Purged(q.files))
        /\ Cardinality(Range(Purged(q.files)) \ Undeletable) <= MaxFiles
    BY <2>6, PurgeResult
  <2> QED
    BY <2>3, <2>4, <2>5, <2>7 DEF Sound
<1> QED
  BY <1>2, <1>3

\* A line: the rotation before it, the line, and the file it makes the youngest.
LEMMA LogSound ==
  ASSUME IInv, FilesInv, Log
  PROVE  /\ FilesInv'
         /\ lastLine' \in Paths /\ logger'.current_log_path # logger.current_log_path =>
              Cardinality(Range(files') \ Undeletable) <= MaxFiles
<1>1. PICK r \in Rotated :
        /\ lastLine' = Line(r.logger, r.files)
        /\ Becomes([r EXCEPT !.logger = Written(r.logger), !.files = Touched(r.files, lastLine')])
  BY DEF Log
<1>2. /\ Sound(r.logger, r.files, r.created)
      /\ \/ r.logger.current_log_path = logger.current_log_path
         \/ Cardinality(Range(r.files) \ Undeletable) <= MaxFiles
  <2>1. CASE logger.rotation_enabled /\ Due(logger)
    <3>1. r \in DoRotate(logger)
      BY <2>1 DEF Rotated
    <3> QED
      BY <2>1, <3>1, RotateSound DEF IInv, FilesInv
  <2>2. CASE ~(logger.rotation_enabled /\ Due(logger))
    BY <2>2 DEF Rotated, FilesInv
  <2> QED
    BY <2>1, <2>2
<1>3. /\ logger' = Written(r.logger) /\ files' = Touched(r.files, lastLine')
      /\ created' = r.created
  <2>1. \E l, f, c : r = [logger |-> l, files |-> f, created |-> c]
    <3>1. CASE r = [logger |-> logger, files |-> files, created |-> created]
      BY <3>1
    <3>2. CASE r \in DoRotate(logger)
      <4>1. \A q \in OpenRotatedFile(Close(logger), Path(logger)) :
              \E l, f, c : q = [logger |-> l, files |-> f, created |-> c]
        BY DEF OpenRotatedFile
      <4> QED
        BY <3>2, <4>1 DEF DoRotate
    <3> QED
      BY <3>1, <3>2 DEF Rotated
  <2> QED
    BY <1>1, <2>1 DEF Becomes
<1>4. r.logger \in LoggerState
  BY RotatedResult
<1>5. /\ logger'.target = r.logger.target /\ logger'.open = r.logger.open
      /\ logger'.file = r.logger.file
      /\ logger'.rotation_enabled = r.logger.rotation_enabled
      /\ logger'.current_log_path = r.logger.current_log_path
  <2>1. (r.logger.good /\ r.logger.open) \in BOOLEAN
    BY Zenon
  <2> QED
    BY <1>3, <1>4, <2>1 DEF Written, LoggerState
<1>6. Directory(r.files)
  BY <1>2 DEF Sound
<1>7. Directory(files') /\ Range(files') = Range(r.files)
  BY <1>3, <1>6, TouchResult
<1>8. Sound(logger, files, created)'
  BY <1>2, <1>3, <1>5, <1>7 DEF Sound
<1>9. lastLine' \in Paths \cup {"none", "console", "lost", "removed"}
  BY <1>1, <1>6, RangeIsElements DEF Line, Directory
<1>10. WrittenFileKept'
  <2>1. lastLine' = "removed" => r.logger.open /\ r.logger.file \notin Range(r.files)
    <3>1. Range(r.files) \subseteq Paths
      BY <1>6, RangeIsElements DEF Directory
    <3> QED
      BY <1>1, <3>1, LoggerAssumption DEF Line
  <2> QED
    BY <1>2, <1>3, <2>1 DEF Sound, WrittenFileKept
<1> QED
  BY <1>2, <1>5, <1>7, <1>8, <1>9, <1>10 DEF FilesInv

\* The other steps: a file is there when it is opened, and no purge follows an opening
\* but the one of the rotation itself.
LEMMA QuietSound ==
  ASSUME IInv, FilesInv,
         Tick \/ Outconsole \/ Rotate
           \/ (\E name \in Names : Outfile(name)) \/ (\E p \in Patterns : SetRotation(p))
  PROVE  FilesInv' /\ lastLine' = "none"
<1>1. lastLine' = "none"
  BY DEF Tick, Outconsole, Rotate, Outfile, SetRotation, Configured
<1> SUFFICES Sound(logger, files, created)'
  BY <1>1 DEF FilesInv, WrittenFileKept
<1> USE DEF IInv, FilesInv
<1>2. CASE Tick
  BY <1>2 DEF Tick, Sound, Directory
<1>3. CASE Outconsole
  <2>1. (logger.good /\ logger.open) \in BOOLEAN
    BY Zenon
  <2>2. ~logger'.rotation_enabled /\ ~logger'.open /\ UNCHANGED <<files, created>>
    BY <1>3, <2>1 DEF Outconsole, ToConsole, Close, LoggerState
  <2> QED
    BY <2>2 DEF Sound, Directory
<1>4. CASE Rotate
  BY <1>4, RotateSound DEF Rotate, Becomes, Sound, Directory
<1>5. ASSUME NEW name \in Names, Outfile(name) PROVE Sound(logger, files, created)'
  <2>1. name \in Paths
    BY DEF Paths
  <2>2. /\ logger' = [Opened(logger, name) EXCEPT !.rotation_enabled = FALSE, !.target = "file"]
        /\ files' = Created(name) /\ created' = (name \notin Range(files))
    BY <1>5 DEF Outfile
  <2>3. (name \notin Range(files)) \in BOOLEAN
    BY Zenon
  <2>4. created' \in BOOLEAN
    BY <2>2, <2>3
  <2>5. ~logger'.rotation_enabled /\ logger'.file = name
    BY <2>2 DEF Opened, LoggerState
  <2>6. Directory(files') /\ name \in Range(files')
    BY <2>1, <2>2, CreatedResult DEF Sound
  <2> QED
    BY <2>4, <2>5, <2>6 DEF Sound, Directory
<1>6. ASSUME NEW p \in Patterns, SetRotation(p) PROVE Sound(logger, files, created)'
  <2> DEFINE s == [Close(logger) EXCEPT !.pattern = p, !.last_rotation_time = clock,
                                        !.target = "file", !.rotation_enabled = TRUE]
  <2>1. /\ clock' \in Times
        /\ \E r \in OpenRotatedFile(s, PathOf[p][clock']) :
             logger' = r.logger /\ files' = r.files /\ created' = r.created
    BY <1>6 DEF SetRotation, Becomes
  <2>2. s \in LoggerState /\ ~s.open /\ s.target = "file"
    <3>1. (logger.good /\ logger.open) \in BOOLEAN
      BY Zenon
    <3> QED
      BY <3>1 DEF LoggerState, Close
  <2> HIDE DEF s
  <2>3. PathOf[p][clock'] \in Paths
    BY <2>1, PathIsPath
  <2>4. PICK r \in OpenRotatedFile(s, PathOf[p][clock']) :
          logger' = r.logger /\ files' = r.files /\ created' = r.created
    BY <2>1
  <2>5. Sound(r.logger, r.files, r.created)
    BY <2>2, <2>3, OpenSound DEF Sound
  <2> QED
    BY <2>4, <2>5 DEF Sound, Directory
<1> QED
  BY <1>2, <1>3, <1>4, <1>5, <1>6

\* The directory stays a directory and the created file in it.
THEOREM FilesInvariance == Spec => []FilesInv
<1>1. Init => FilesInv
  <2> SUFFICES ASSUME Init PROVE FilesInv
    OBVIOUS
  <2>1. Directory(SetToSeq(Foreign))
    <3> DEFINE n == Cardinality(Foreign)
    <3>1. n \in Nat /\ ExistsBijection(1 .. n, Foreign)
      BY LoggerAssumption, FS_CardinalityType
    <3>2. \E f \in [1 .. n -> Foreign] : IsInjective(f)
      BY <3>1 DEF ExistsBijection, Bijection, Injection, IsInjective
    <3>3. SetToSeq(Foreign) \in [1 .. n -> Foreign] /\ IsInjective(SetToSeq(Foreign))
      BY <3>2 DEF SetToSeq
    <3> HIDE DEF n
    <3>4. SetToSeq(Foreign) \in Seq(Foreign) /\ Foreign \subseteq Paths
      BY <3>1, <3>3 DEF Paths
    <3>5. \A q \in Seq(Foreign) : q \in Seq(Paths)
      BY <3>4
    <3> QED
      BY <3>3, <3>4, <3>5 DEF Directory
  <2>2. ~logger.rotation_enabled /\ ~logger.open /\ lastLine = "none" /\ created = FALSE
    BY DEF Init
  <2> QED
    BY <2>1, <2>2 DEF Init, FilesInv, Sound, WrittenFileKept
<1>2. IInv /\ FilesInv /\ [Next]_vars => FilesInv'
  <2> SUFFICES ASSUME IInv, FilesInv, [Next]_vars PROVE FilesInv'
    OBVIOUS
  <2>1. CASE UNCHANGED vars
    BY <2>1 DEF vars, FilesInv, Sound, Directory, WrittenFileKept
  <2>2. CASE Log
    BY <2>2, LogSound
  <2>3. CASE Next /\ ~Log
    BY <2>3, QuietSound DEF Next
  <2> QED
    BY <2>1, <2>2, <2>3
<1> QED
  BY Invariance, <1>1, <1>2, PTL DEF Spec

\* The variables keep their types, no file is in the directory twice, and the rotation
\* is on only for a file target with a pattern.
THEOREM TypeCorrect == Spec => []TypeOK
<1>1. IInv /\ FilesInv => TypeOK
  BY LoggerAssumption DEF IInv, FilesInv, TypeOK, Sound, Directory, Current
<1> QED
  BY Invariance, FilesInvariance, <1>1, PTL

\* A file created for the stream is not removed while it is written to, unless
\* max_files is 0: it is the youngest when the purge of its rotation comes.
THEOREM CreatedFileStays == Spec => []WrittenFileKept
<1>1. FilesInv => WrittenFileKept
  BY DEF FilesInv
<1> QED
  BY FilesInvariance, <1>1, PTL

\* A line that makes the log change its file leaves no more files than max_files, but
\* for those that cannot be removed, whatever was in the directory before.
THEOREM FilesBounded == Spec => Retained
<1>1. IInv /\ FilesInv /\ [Next]_vars =>
        [lastLine' \in Paths /\ logger'.current_log_path # logger.current_log_path
           => Cardinality(Range(files') \ Undeletable) <= MaxFiles]_vars
  <2> SUFFICES ASSUME IInv, FilesInv, Next, lastLine' \in Paths,
                      logger'.current_log_path # logger.current_log_path
               PROVE  Cardinality(Range(files') \ Undeletable) <= MaxFiles
    BY DEF vars
  <2>1. CASE Log
    BY <2>1, LogSound
  <2>2. CASE ~Log
    <3>1. lastLine' = "none"
      BY <2>2, QuietSound DEF Next
    <3> QED
      BY <3>1, LoggerAssumption
  <2> QED
    BY <2>1, <2>2
<1> QED
  BY Invariance, FilesInvariance, <1>1, PTL DEF Spec, Retained
================================================================================
