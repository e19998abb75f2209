---------------------------------- MODULE Logger ----------------------------------
(***************************************************************************)
(* tangbase::Logger (src/logger.hpp): where the lines of the log go, with  *)
(* the file stream, the rotation by time and the removal of old files.     *)
(*                                                                         *)
(* Each operation holds mutex_ from its beginning to its end and is one    *)
(* action; which thread calls it does not matter.  All files are in one    *)
(* directory, whose files are kept in the order of their last writes; the  *)
(* clock goes forward.  Opening a file may fail, and so may the removal of *)
(* some; writing to an open file succeeds.  No two files have the same     *)
(* time of their last write: which of two the sort would have in front is  *)
(* left open by the code.                                                  *)
(***************************************************************************)
EXTENDS Naturals, SequencesExt, Subsequence

CONSTANTS
  Patterns,      \* the patterns given to set_rotation
  PathOf,        \* make_rotated_path_: the path of a pattern at a time
  Names,         \* the files given to outfile
  Foreign,       \* the regular files in the directory that are not logs
  Undeletable,   \* the files whose removal fails
  Interval,      \* rotation_interval_ms, in ticks of the clock
  MaxFiles,      \* max_files
  MaxTime,       \* bound: the last tick
  None           \* there is no file

Times == 0 .. MaxTime

Paths == {PathOf[p][t] : p \in Patterns, t \in Times} \cup Names \cup Foreign

ASSUME LoggerAssumption ==
  /\ MaxTime \in Nat /\ Interval \in Nat \ {0} /\ MaxFiles \in Nat
  /\ PathOf \in [Patterns -> [Times -> Paths]]
  /\ IsFiniteSet(Foreign)
  /\ None \notin Paths /\ None \notin Patterns
  /\ Paths \cap {"none", "console", "lost", "removed"} = {}

VARIABLES
  clock,      \* system_clock
  logger,     \* the static members of Logger
  files,      \* the files in the directory, the one written last at the end
  lastLine,   \* history: where the last action's line went, or "none"
  lost,       \* history: lines written to a closed stream since the logger was
              \* last configured
  created     \* history: the file of the stream was created when it was opened

vars == <<clock, logger, files, lastLine, lost, created>>

\* ofs_ is its flags and the file it was opened on: a stream that is closed may
\* well be good().
LoggerState ==
  [target : {"cout", "file"},
   open : BOOLEAN, good : BOOLEAN, file : Paths \cup {None},
   rotation_enabled : BOOLEAN, pattern : Patterns \cup {None},
   last_rotation_time : Times, current_log_path : Paths \cup {None}]

--------------------------------------------------------------------------------
(* Mutants: the definitions below as a plausible slip would write them.  No *)
(* definition uses them; PROJECT.json says which property rejects which.    *)

\* outconsole() leaves the rotation on.
ConsoleOnly(s) == [s EXCEPT !.target = "cout"]

\* A strict comparison with the interval.
DueLate(s) == clock - s.last_rotation_time > Interval

\* The files are sorted the other way round: the newest are removed.
OldestNewestFirst(dir) == SubSeq(dir, MaxFiles + 1, Len(dir))

\* log() tests the target and not the stream.
LineUntested(s, dir) ==
  IF s.target = "cout" THEN "console"
  ELSE IF ~s.open THEN "lost"
  ELSE IF s.file \in Range(dir) THEN s.file
  ELSE "removed"

\* The loop of the removal runs one file short.
OldestButOne(dir) == SubSeq(dir, 1, Len(dir) - MaxFiles - 1)
--------------------------------------------------------------------------------
(* The stream and the files *)

\* ofstream::close(): failbit when there is nothing to close.
Close(s) == [s EXCEPT !.open = FALSE, !.good = s.good /\ s.open]

\* ofstream::open() in append mode: a file that exists keeps its time.
Opened(s, path) == [s EXCEPT !.open = TRUE, !.good = TRUE, !.file = path]
Created(path) == IF path \in Range(files) THEN files ELSE Append(files, path)

\* What purge_rotated_files_ removes: the oldest, down to max_files.
Oldest(dir) == SubSeq(dir, 1, Len(dir) - MaxFiles)

Purged(dir) ==
  IF Len(dir) <= MaxFiles THEN dir
  ELSE Filtered(dir, Undeletable \cup (Paths \ Range(Oldest(dir))))

\* The fallback of open_rotated_file_: to the console, and no more rotation.  The
\* stream was closed twice or never open, which has set failbit, whether it is the
\* directory or the file that could not be created.
Fallback(s) == [s EXCEPT !.good = FALSE, !.rotation_enabled = FALSE, !.target = "cout"]

\* open_rotated_file_: what the logger and the directory may be after it.
OpenRotatedFile(s, path) ==
  IF path = s.current_log_path /\ s.good THEN {[logger |-> s, files |-> files, created |-> created]}
  ELSE LET closed == [Close(s) EXCEPT !.current_log_path = path]
       IN {[logger |-> Opened(closed, path), files |-> Created(path),
            created |-> path \notin Range(files)],
           [logger |-> Fallback(closed), files |-> files, created |-> FALSE]}

Path(s) == PathOf[s.pattern][clock]

\* do_rotate_: the path may not have changed; otherwise, the old files are removed,
\* also when the new one could not be opened.
DoRotate(s) ==
  IF Path(s) = s.current_log_path /\ s.good
  THEN {[logger |-> [s EXCEPT !.last_rotation_time = clock],
         files |-> files, created |-> created]}
  ELSE {[r EXCEPT !.logger.last_rotation_time = clock, !.files = Purged(r.files)] :
          r \in OpenRotatedFile(Close(s), Path(s))}
--------------------------------------------------------------------------------
(* The operations *)

Init ==
  /\ clock = 0
  /\ logger = [target |-> "cout", open |-> FALSE, good |-> TRUE, file |-> None,
               rotation_enabled |-> FALSE, pattern |-> None,
               last_rotation_time |-> 0, current_log_path |-> None]
  /\ files = SetToSeq(Foreign)
  /\ lastLine = "none" /\ lost = 0 /\ created = FALSE

Tick ==
  /\ clock < MaxTime
  /\ clock' = clock + 1
  /\ lastLine' = "none"
  /\ UNCHANGED <<logger, files, lost, created>>

Becomes(r) == logger' = r.logger /\ files' = r.files /\ created' = r.created

Configured == lastLine' = "none" /\ lost' = 0

\* outfile: a file that cannot be opened changes nothing.
Outfile(name) ==
  /\ logger' = [Opened(logger, name) EXCEPT !.rotation_enabled = FALSE, !.target = "file"]
  /\ files' = Created(name)
  /\ created' = (name \notin Range(files))
  /\ Configured
  /\ UNCHANGED clock

ToConsole(s) == [Close(s) EXCEPT !.rotation_enabled = FALSE, !.target = "cout"]

Outconsole ==
  /\ logger' = ToConsole(logger)
  /\ Configured
  /\ UNCHANGED <<clock, files, created>>

\* set_rotation reads the clock twice, for last_rotation_time_ and for the path.
SetRotation(p) ==
  LET s == [Close(logger) EXCEPT !.pattern = p, !.last_rotation_time = clock,
                                 !.target = "file", !.rotation_enabled = TRUE]
  IN /\ clock' \in {clock, clock + 1} \cap Times
     /\ \E r \in OpenRotatedFile(s, PathOf[p][clock']) : Becomes(r)
     /\ Configured

Rotate ==
  /\ logger.rotation_enabled
  /\ \E r \in DoRotate(logger) : Becomes(r)
  /\ lastLine' = "none"
  /\ UNCHANGED <<clock, lost>>

Due(s) == clock - s.last_rotation_time >= Interval

\* The rotation at the beginning of log.
Rotated ==
  IF logger.rotation_enabled /\ Due(logger) THEN DoRotate(logger)
  ELSE {[logger |-> logger, files |-> files, created |-> created]}

\* A stream that is closed loses the line and is not good any more; one that is
\* open on a file that has been removed loses it as well, and stays good.
Line(s, dir) ==
  IF s.target = "cout" \/ ~s.good THEN "console"
  ELSE IF ~s.open THEN "lost"
  ELSE IF s.file \in Range(dir) THEN s.file
  ELSE "removed"

Written(s) == IF s.target = "file" THEN [s EXCEPT !.good = s.good /\ s.open] ELSE s

Touched(dir, line) ==
  IF line \in Range(dir) THEN Append(Filtered(dir, Paths \ {line}), line) ELSE dir

Log ==
  \E r \in Rotated :
    /\ lastLine' = Line(r.logger, r.files)
    /\ lost' = IF lastLine' = "lost" /\ lost < 2 THEN lost + 1 ELSE lost
    /\ Becomes([r EXCEPT !.logger = Written(r.logger), !.files = Touched(r.files, lastLine')])
    /\ UNCHANGED clock

Next ==
  \/ Tick \/ Outconsole \/ Rotate \/ Log
  \/ \E name \in Names : Outfile(name)
  \/ \E p \in Patterns : SetRotation(p)

Spec == Init /\ [][Next]_vars
--------------------------------------------------------------------------------
(* Properties *)

\* Every file of the directory is there once, and the rotation is on only for a
\* file target with a pattern.
TypeOK ==
  /\ clock \in Times
  /\ logger \in LoggerState
  /\ files \in Seq(Paths) /\ IsInjective(files)
  /\ lastLine \in Paths \cup {"none", "console", "lost", "removed"} /\ lost \in 0 .. 2
  /\ created \in BOOLEAN
  /\ logger.rotation_enabled => logger.target = "file" /\ logger.pattern # None

\* However often the log is rotated, at most one line is written to a closed stream
\* after each configuration: set_rotation can leave the stream closed and good(),
\* the first line shows it, and what follows goes to the console or to a file.
LossBounded == lost <= 1

\* A file that was created when it was opened is not removed while it is written to,
\* neither by the purge of that rotation nor later.  (A file that was there before
\* and is reopened keeps its old time, and the purge that follows may remove it; and
\* with max_files 0 each purge removes the file it has been opened for.)
WrittenFileKept == MaxFiles # 0 /\ lastLine = "removed" => ~created

\* A line that goes to a rotated file is not late by an interval: the file is that
\* of a time less than one interval ago.
LineTimely ==
  logger.rotation_enabled /\ lastLine \in Paths =>
    \E t \in Times : /\ t <= clock /\ clock < t + Interval
                     /\ lastLine = PathOf[logger.pattern][t]

\* After a line that has made the log change its file, no more files are left than
\* max_files, but for those that could not be removed.
Retained ==
  [][lastLine' \in Paths /\ logger'.current_log_path # logger.current_log_path
       => Cardinality(Range(files') \ Undeletable) <= MaxFiles]_vars

\* logger.hpp 66: set_rotation returns true when the rotation has been enabled
\* (and false when the file cannot be created): its file is then open.
EnabledIsOpen == logger.rotation_enabled => logger.open
================================================================================
