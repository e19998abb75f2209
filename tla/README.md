# TLA+ specifications of tangbase

tangbase is a header-only C++17 library of threading, event, logging and
configuration components. This directory holds TLA+ modules that model its
components from the source under `src/src`, TLC configurations that check them
on small instances, and TLAPS proofs about the pool, the semaphores, the latch, the
event loop, the bus, the logger, the parser's tree and its lookup for all instances.

`PROJECT.json` lists components, runs, mutants, the lines each definition stands
for, findings, hazards and theorems. Every property of a passing run has a
*mutant*: a definition written the way a plausible slip would write it (section
"Mutants" of each module), under which TLC finds the property violated.

## 1. The components

| Component | State | Operations | What makes it correct |
|---|---|---|---|
| `ThreadPool` (`thread_pool.hpp`) | `workers_`, `tasks_`, `queue_mutex_`, `condition_`, `stop_` | constructor, `enqueue`, `shutdown`, `join`, destructor, `worker_loop` | no accepted task is lost or run twice, no wakeup is missed, `join` returns and leaves nothing undone |
| `Latch` (`sync.hpp`) | atomic `count_`, `done_`, mutex, condition variable | `arrive(n)`, `wait` | nobody passes early, nobody is left behind, it may be destroyed by who has waited |
| `BinarySemaphore`, `CountingSemaphore` (`sync.hpp`) | `available_` / `count_` and `max_`, mutex, condition variable | `acquire`, `try_acquire`, `release` | permits are conserved, no free permit lies beside a thread nobody will wake |
| `EventLoop` and `Handle`s (`event_loop.hpp`) | lists of timers, repeating copies, idles, asyncs; `running_`, `stopped_`, `now_`, mutex, condition variable, an optional pool | `add_*`, `run`, `stop`, `close`, `send` | callbacks run once, in the end, and not when they were closed in time; `stop` ends `run` |
| `EventBus` (`event_bus.hpp`) | subscriptions per type, `next_id_`, mutex | `subscribe`, `unsubscribe`, `publish`, `clear` | one publish calls what was subscribed when it began, in order, once |
| `Logger` (`logger.hpp`) | target, stream, rotation pattern, time and path, mutex; the log directory | `outfile`, `outconsole`, `set_rotation`, `rotate`, `log` | lines arrive, in the file of their time; the purge keeps the files in use and removes the old |
| `TomlParser` (`util/toml.hpp`) | the tree being built, a plain pointer into it | `parse` | the document says what the statements say; a number or string is read as it is written |
| `Config` (`config.hpp`) | the parsed tree | `lookup`, `get_*`, `get_*_or` | a path reads what it denotes |
| string utilities (`util/string.hpp`) | none | `trim*`, `split*`, `replace_*`, `to_lower`, `to_upper`, `starts_with`, `ends_with`, `is_blank` | nothing of a text is lost, doubled or looked at twice |
| `format` (`util/format.hpp`) | none | `format` | placeholders take the arguments in their order, doubled braces do not count, the rest throws |
| `Result`, file, datetime, assert | none that outlives a call | templates, file system wrappers, macros | not modelled, see section 8 |

How they interact: `EventLoop` hands timer callbacks to a `ThreadPool`, whose
fairness its model takes from `ThreadPool`'s `AcceptedTasksComplete`; `Config`
reads what `TomlParser` has built; all blocking components wait on
`std::condition_variable`; callbacks, handlers and tasks are client code that
calls back into the component that runs them. `Logger` is a set of static
members shared by all threads.

What is hard here: critical sections are short and everything of interest
happens between them. Notifications come after the mutex has been released
(`enqueue`, `shutdown`, `release`, `stop`), flags are written without it (the
pool's constructor, `EventLoop::stop`, the latch's counter), callbacks run on
copies taken earlier (`publish`, `to_fire`), `now_` is as old as a pass, tasks
wait for futures of other tasks, and handlers throw. `PROJECT.json` lists
each hazard at its line, with the properties that would catch it or the reason
why there is none.

## 2. The modules

| Module | Role |
|---|---|
| `CondVar` | `std::condition_variable`: who sleeps, `notify_one` as a choice of one sleeper or nobody, `notify_all` |
| `TaskService` | the abstract specification of the pool: a closable first-in first-out service |
| `ThreadPool`, `MCThreadPool` | the pool with its workers, mutex and wakeups |
| `ThreadPoolProofs` | theorems about `ThreadPool`, and that it implements `TaskService` |
| `CountingSemaphore`, `BinarySemaphore` | the semaphores; the second one refines the first with `Max = 1` |
| `SemaphoreProofs` | theorems about both, that refinement among them |
| `Latch`, `MCLatch`, `LatchProofs` | the latch, and theorems about it |
| `Subsequence`, `SequenceProofs` | what `std::remove_if` and `erase` leave of a vector; facts about it, by induction over its length, and theorems about `Strings` |
| `EventLoop`, `MCEventLoop`, `EventLoopProofs` | the loop, its clients, the clock, the pool as the loop sees it, and theorems about it |
| `EventBus`, `EventBusProofs` | the bus with nested calls of publish, and theorems about it |
| `Logger`, `MCLogger`, `LoggerProofs` | the logger, its stream and the log directory, and theorems about it |
| `TomlParser` | the tree that the statements of a text build |
| `Text` | texts as sequences of characters |
| `TomlNumber`, `TomlString` | how the parser reads a number, a string, a key; pure operators |
| `Format`, `Strings` | `format` and the string utilities; pure operators |
| `Config`, `MCConfig` | reading the tree by paths; extends `TomlParser`. `MCConfig` also applies the pure operators to all short texts |
| `TomlProofs` | theorems about `TomlParser` and `Config` |

### How state and actions correspond to the code

A critical section is one action, because no other thread sees the inside of it;
what a thread does outside of the mutex is an action of its own. A thread that
waits for the mutex is one that has not taken its next action. There are two
exceptions, where code writes *without* the mutex what a wait predicate reads:
`ThreadPool` and `EventLoop` separate a waiter's test of the predicate (which
takes the mutex, state `block`) from its falling asleep (which releases it).

* **ThreadPool.** `worker[w]` is the place of a worker in `worker_loop`: `lock`
  (contends for the mutex), `block`, `asleep`, `run`, `exited`. `call[c]` is the
  place of a thread in `enqueue` or `shutdown`: between the critical section and
  the notification it is `notifyOne` or `notifyAll`. `owner` is the life cycle:
  constructing, open, `closing` (the destructor, or `shutdown(); join();`),
  joined. `future[t]` is what the submitter of a task holds. Tasks that run may
  call the pool themselves, and `Needs[t]` are the futures that a task body
  waits for; a closure can only hold futures that exist when it is submitted.
* **Latch.** `FetchSub` is the atomic decrement with the test of the value it
  returned, `Open` the critical section that may come much later.
* **Semaphores.** `Take` is the end of `acquire`, `TryAcquire` barges in at any
  moment, `Release` and `ReleaseNotify` are the two halves of `release`.
  Producers release without acquiring, as a semaphore that signals is used.
* **EventLoop.** `pc` goes through one pass of `run`: `Scan` (the first critical
  section), the loop over `to_fire`, `AsyncScan`, `IdleScan`, the loop over
  `idles_to_fire`, `IdlePurge`, `Decide`, `Plan`, and `cond_.wait_for` as `WaitFor`,
  `WaitTest`, `WaitSleep`, `WaitTimeout`, `WaitEnds`. Clients act between any
  two of them, from other threads or from a running callback. The two loops hold no
  mutex: `FireTest` and `IdleTest` test a handle (lines 278, 307) and pick it, `Enqueue`
  and `Call` come later. A `close()` in between leaves the callback either to be called
  all the same or found dropped: nothing happens (`FindDropped`), or the call of an
  empty function leaves `run` with an exception (`CallDropped`). `FireCopy` needs no
  such window, because only the loop knows the handle of a copy. `silenced` is a history
  variable: the handles closed while nothing of them was under way. No step reads it.
* **EventBus.** `calling[th]` is the stack of a thread's publish calls, each with
  the handlers still to be called. A handler that runs may do all a client may.
* **Logger.** `logger` is the record of static members, `files` the directory in
  the order of last writes. A closed stream can be `good()`; that distinction
  decides where lines go. `PathOf` is `make_rotated_path_` as a table.
* **TomlParser.** Objects behind a `shared_ptr` are indices, so that aliasing can
  be expressed; `cur` is the plain pointer. One action is one statement. `Assign` is
  `key = value`, which a text and an inline table have in common. `Reading` is the body
  of `parse_value`, with what it calls itself for (`ReadElements`, `Entries`) reading
  through a parameter; `ParseValue` ties the knot, as a function over the depth of what
  is still to be read. `Values` are the literals and all that is in them, `Depth` how deep
  each is nested, so that no recursive operator is needed. A table is total, with `NoNode`
  under the keys that its map does not have. `AssignedRead` compares what a path then
  reads with `Denoted`, which reads the literal and knows no objects; it goes down the
  literal by `Depth` as well, with `DenotedBy` for one level.
* **Config.** `Round` is one round of the loop in `lookup`, on a path cut into
  segments (a key and the indices behind it).
* **TomlNumber.** `ReadNumber` is `parse_value` from `inf` and `nan` on: it returns
  the type, the value and the position behind it, or `Thrown`. `Prefixed` sums the
  digits of a hexadecimal, octal or binary integer up in a word of `Bits` bits, with
  the code's test before each step; `Decimal` cuts the text out, as the code does,
  and gives it to `stoll` or, without computing a value, to `sscanf`. The reference
  definition (`Numeral`, `Denotes`) weighs digits by powers of the base and knows
  neither words nor cursors.
* **TomlString.** `Content` is the four loops over a string's characters in one
  recursive function, with the differences between them as guards; `Utf8` is
  `append_utf8` on bytes. The reference goes the other way: `Writings` are the ways
  to write a text as a string, and each must be read back.
* **Format.** An argument is the text `write_arg` makes of it, one character of the
  output, so that one which looks like a placeholder can be told from a placeholder.
* **Strings.** Each function, where the code's loop moves a position; the laws say
  which text, cut up or put together, they must give.

## 3. Runs

| Run | Instance | Result |
|---|---|---|
| `pool` | 2 workers, the owner and another caller, 3 tasks, 2 of which wait for the first; thread creation may fail | 8 properties hold |
| `pool_ctor` | the same workers, 1 caller, 1 task | `CtorFailureThrows` is violated (finding) |
| `latch` | 3 arrivers, one for two, 1 waiter, `expected` 0 to 5 | 4 properties hold |
| `counting_semaphore` | 3 users with 2 calls each, a producer with 2, `Max` 2, `Initial` 1 | 3 properties hold |
| `binary_semaphore` | the same threads | 3 properties hold |
| `event_loop_safety` | a one-shot and a repeating timer and an idle, all closable, clock 0 to 1, two calls of `run` | 2 properties hold |
| `event_loop_live` | the two timers, an async that may be closed, clock 0 to 2, one call of `run`, with fairness | 3 properties hold |
| `event_bus` | 2 threads, 2 types, 2 subscriptions, 3 publish calls | 3 properties hold |
| `logger` | 2 patterns, 1 plain file, 2 foreign files (1 undeletable), `max_files` 2, interval 2, clock 0 to 3 | 5 properties hold |
| `logger_rotation` | the same | `EnabledIsOpen` is violated (finding) |
| `config` | 3 statements over 2 keys, 3 headers, 7 literals, all paths of up to 3 segments; all short texts for the pure operators, words of 7 bits | 9 properties hold |
| `config_paths` | the same | `DocumentedPathsRead` is violated (finding) |

### Bounds and why they are enough

* `pool`: two workers are the fewest of which one can steal what another was
  notified of, and both can wait for a third task's future. A second caller is
  needed for a shutdown, or an enqueue, that is half through while the owner
  closes the pool. Three tasks make a queue longer than the idle workers.
* Semaphores: two threads asleep and one that barges in need three users; two
  rounds let a user come back; `Signals` 2 saturates `Max`. The limits `Rounds`
  and `Signals` bound the number of calls only.
* `latch`: `expected` runs to one more than the arrivals add up to, so there are
  runs with fewer, exactly enough and too many arrivals, and several openers.
* `event_loop_*`: the last instant of the clock stands for all later ones, so
  timers added late are due at once. A repeating timer has a first expiry, an
  expiry of its copies, and the saturated rest. The sets of copies and of jobs do
  not count equal members. The safety run has two calls of `run`, one after the
  other, and an instant less; a call beside another one returns at once. With three
  closable handles a close can come before the scan, between scan, test and call of
  each, and after the call. Asyncs have no part in its properties; `add_async`, `send`
  and their part in the automatic exit are in the other run.
* `event_bus`: three publish calls give two levels of nesting beside another
  thread's publish, or three levels.
* `logger`: four ticks let the daily path change once and the hourly one three
  times; two foreign files with `max_files` 2 make every purge remove something.
* `config`: three statements build a table array of two elements with a key in
  its last, replace a table by a value, and extend a static array. The literals have
  an array in an array, a table in an array, and tables whose dotted keys meet, once
  to be replaced and once to be an error. The paths of three segments reach every node
  that they build.
* `NumbersRead`, `StringsRead`, `FormatReads` and `StringsObey` do not depend on the
  state; they are invariants of `config` that TLC evaluates once, in the initial
  state, over whole sets of texts. Numbers: a sign or none and five characters out of
  eight, with words of 7 bits: `0o77` and `-0o100` are the greatest and the least
  number, `0o100`, `-0o101`, `0x70` and `70` are past them, and `0x7ff` is past the
  unsigned word in which the digits are summed up. Strings: four characters out of
  quotes of both kinds, backslash, both line breaks and a letter, so three quotes in
  a row beside something else occur; code points: two on either side of each edge of
  the encoding and of the range of surrogates, written with four and with eight digits
  of either case, and with a digit missing. Format: five tokens or five characters, up to two arguments. Strings:
  up to six characters with words of up to three, long enough for occurrences that
  overlap twice; for the case conversions, codes on either side of the four ends of the
  two ranges of letters.

### Fairness

* `ThreadPool`: runnable threads run (weak fairness); taking a contended mutex
  and finishing a task body are strongly fair, because other threads disable
  them again and again; nobody has to call the pool, to close it, or to wake
  spuriously, and no thread has to fail to start.
* Semaphores: `acquire`'s last step is strongly fair for the same reason. The
  bound on the calls rules out that a thread is overtaken for ever, which the
  code does not rule out: `AcquireReturns` says that no wakeup is lost.
* `Latch`: weak fairness only; its critical sections do not disable each other.
* `EventLoop`: the loop's thread runs, time passes, callbacks return or throw, a
  `stop()` that has set its flag gets to its `notify_all`, and the pool runs what
  it has accepted. Clients owe nothing.
* `EventBus`: a publish goes on, a handler returns or throws.

## 4. What is proved

The proof modules prove, for every value of the constants that satisfies the named
assumption (`PoolAssumption`, `SemaphoreAssumption`, `BinarySemaphoreAssumption`,
`LatchAssumption`, `EventLoopAssumption`, `EventBusAssumption`, `LoggerAssumption`,
`TomlAssumption`, `ConfigAssumption`), that is for every set of threads, tasks, handles,
types, patterns, files, keys, literals however deep, and paths, and for every limit:

| Module | Theorem | Statement |
|---|---|---|
| `ThreadPoolProofs` | `TypeCorrect`, `Agreement`, `NoTaskLost` | `TypeOK`, `Consistent`, `TaskPlace` are invariants |
| | `NotifyOneSuffices`, `NotifyAllSuffices` | `NoLostWakeup`, `StopReachesSleepers` are invariants |
| | `JoinWaitsForTasks` | `JoinedDrained` is an invariant if there is at least one worker |
| | `Refinement` | the pool implements `TaskService` if there is at least one worker |
| `SemaphoreProofs` | `TypeCorrect`, `PermitsBalance`, `NotifyOneSuffices` | `TypeOK`, `PermitsConserved`, `NoPermitUnannounced` are invariants |
| | `Exclusion` | `MutualExclusion` of `BinarySemaphore` is an invariant |
| | `FlagImplementsCount` | `BinarySemaphore` implements `CountingSemaphore` |
| `LatchProofs` | `TypeCorrect`, `BarrierHolds`, `OpenedInTime` | `TypeOK`, `NobodyPassesEarly`, `OpenOrOpening` are invariants |
| | `MayBeDestroyed` | `NoArriverAfterReturn` is an invariant |
| `EventLoopProofs` | `TypeCorrect`, `OnceAndNotLost`, `CloseSilences` | `TypeOK`, `CalledOnce`, `ClosedInTime` are invariants |
| `EventBusProofs` | `TypeCorrect`, `DeliveredExactly` | `TypeOK`, `Delivered` are invariants |
| | `NeverReused` | every step obeys `IdsFresh` |
| `LoggerProofs` | `TypeCorrect`, `OneLineLost`, `LinesInTime`, `CreatedFileStays` | `TypeOK`, `LossBounded`, `LineTimely`, `WrittenFileKept` are invariants |
| | `FilesBounded` | every step obeys `Retained` |
| `TomlProofs` | `TypeCorrect`, `PointerIsHere` | `TypeOK` (the document is a tree) and `CurIsHere` are invariants |
| | `StatementsKept` | every step obeys `StatementsKeep` |
| | `LastAssignmentRead` | `AssignedRead` is an invariant |
| | `SupportedRead` | `SupportedPathsRead` is an invariant |
| `SequenceProofs` | `Induction` and the lemmas after it | what `Filtered` keeps, and that it keeps the order |
| | `TrimObeys`, `EndsObey`, `CaseObeys` | `TrimRight`, `EndsRight`, `CaseRight`, three of the laws in `StringsObey`, for all texts |

Each module on a component proves an inductive invariant, `IInv`, and derives the rest
from it.

**The pool.** `TypeOK` and `TaskPlace` are not inductive by themselves: that a
worker which takes a task from the queue takes one that nobody else holds needs
`TaskPlace`'s uniqueness clauses, and that nobody submits or takes anything while
the constructor unwinds needs `Consistent`, which relates each thread's place to
the mutex, `stop_` and the queue. `NoLostWakeup` is the heart: a thread that
sleeps while tasks are queued is harmless as long as there are at least as many
contending workers and pending notifications as tasks. Each action keeps the
inequality: accepting a task adds a notification, notifying turns it into a
contending worker unless nobody sleeps, taking a task removes one of each side,
and a worker falls asleep only after it saw the queue empty under the mutex (the
clause on `block` in `Consistent`). `StopReachesSleepers` is the same for
`stop_`. `IInv` is the conjunction of the five; `JoinedDrained` and the
refinement follow from it: when all workers have exited, and there is one, the
queue was empty on a stopped pool and nothing can be appended afterwards. With
no worker at all, `join` returns with tasks queued, which is why both theorems
assume one.

TLC checks the parts of `IInv` as invariants of the run `pool`.

**The counting semaphore.** `TypeOK`, `PermitsConserved` and `NoPermitUnannounced`
are inductive together. Both compare `count_` with numbers of threads in some
state, and every action moves one thread, which changes such a number by one at
most: the lemmas on cardinalities at the head of the module say so once. The
heart is `Take`: a thread that wakes and takes a permit gives up a contender for
one permit less, and falls asleep only where it saw none.

**The binary semaphore.** `MutualExclusion` is inductive together with the types.
The refinement maps `available_` to `count_` 0 or 1, and each action to the action of
the same name.

**The latch.** `NobodyPassesEarly` and `OpenOrOpening` need `Ordered`: who opens has
found the counter expired, and who has returned has found `done_`, which only an
opener sets. The counter is written without the mutex, and the proof does not need
any order of decrements and openings. `MayBeDestroyed` rests on `Counted`: the counter is
what the constructor put in, less one unit for each unit of those that have arrived. An
amount is a set of units (`Units`), so that sums are cardinalities of finite sets. If the
amounts add up to the expected count, the counter expires with the last arrival,
so whoever has found `done_` has seen everybody leave `arrive`.

**Loops that drop elements.** Where the code calls `std::remove_if` or copies what passes
a test, the models use `Filtered`, a recursive function over the positions of a sequence.
`SequenceProofs` proves what it keeps (`FilteredRange`), and that two elements which stay
keep their order (`FilteredLined`, and from it `FilteredInjective`: nothing is doubled).
The induction theorems of the library take an operator, which the provers cannot
instantiate; the module derives induction for a *set* of numbers from the library's
theorem that every such set has a least element.

**Trimming and ends of texts.** Every text can be cut in three, blanks, what is left and
blanks (`CutExists`; a text of blanks only is cut at its end). The loops of `trim_start`,
`trim_end` and `trim` stop where it is cut (`TrimsIs`), and the cut of what one of them
leaves is the cut of the text, so that their order does not matter (`TrimEnds`). The
theorems hold for texts of any length over any set of characters.

**Case.** `to_lower` and `to_upper` test two ranges of codes that have nothing to do with
each other in the code. `CaseRight` says that they fit, and `CaseObeys` proves it for
texts of any length and any codes, letters or not, character by character (`CaseOf`).

**The event loop.** `CalledOnce` alone is far from inductive. `FiredGuards` says how
`fired_` does its work: what has been called, is collected by the pass, or waits for the
pool, has `fired_` set, and what is collected or waits, in one place only, has not been
called. That needs `NoRepetition` (no list has a handle twice, and taking the head of
one takes the handle out of it), and `OnlyRepeating` (the copies, which `fired_` does
not guard, are of repeating timers). The other half of `CalledOnce`, that what has been
collected is not lost, needs `Placed`: at which `pc` the loop has something in its hands,
so that it leaves a pass with nothing collected and not called, and that a loop outside
of `run` which is still marked as running was left by an exception. No run lists these
conjuncts, which only the proof needs; they were tried with TLC on the configuration of
`event_loop_safety` before they were proved.

`ClosedInTime` is about three steps of two threads: the loop collects a handle, tests it,
and calls it or hands it to the pool. `Silent` adds to the property that what has been
silenced does not get under way any more: it is not picked, not in the pool's queue and
has no copy. The only ways to get under way are `FireTest` and `IdleTest`, which find it
closed, and `Scan`, which passes over a closed timer. A close that comes later than the
test comes too late, and the theorem says nothing of it: the callback may still run, on
the loop's thread or, from a copy of the function, on the pool.

**The bus.** The stack of publish calls is a sequence of `GoodCall`s: the handlers called
and those still to be called make up what was due, in ascending order, with the called
ones in front. A step touches the innermost call of one thread only. `Listed` has the
subscriptions of a type in ascending order of ids, which `Filtered` keeps and which a new
id, the highest ever given (`Fresh`), extends; a publish that begins therefore is good,
and later steps on the bus leave the copy alone. `NeverReused` is `Fresh` again.

**The logger.** `LossBounded` rests on `Losing`: a line is lost exactly when the
target is the file, the stream is `good()` and not open. The lost line ends that
(the write sets `badbit`), and no rotation brings it back: `OpenResult` shows that a
stream comes out of `open_rotated_file_` open, or with the console as its target,
unless the shortcut for the path of last time leaves it as it was. `LineTimely` rests
on `Current`: an open stream is open on a path that its pattern had since the last
rotation, and `log` rotates before it writes when that is an interval ago.
`LoggerAssumption` has the names of files differ from the words of `lastLine`.
`FilesInv` adds the directory: no name is listed twice, and a file created for the
stream is listed for as long as the stream is open. `PurgeResult` says what a purge
leaves: of what can be removed at most `max_files`, and always the youngest file, so
`CreatedFileStays` and `FilesBounded` follow for every content of the directory. With
`max_files` 0 the purge does remove the file it has just made (section 5);
`CreatedFileStays` excludes that case by name.

**The parser.** A document is seen as its *places*, a key of a table or an index of an
array, and the nodes at them; each operation on the tree (`Put`, `NewTable`, a new array,
`push_back`) has a lemma that says which places it makes and what is then at each
(`PutDoes` to `PushDoes`). That the document stays a tree follows place by place: what is
put somewhere is new, or was in no place (`Usable`), which a parsed value is, because
nothing that reading it builds is hung up anywhere but in the value itself (`Good`,
`ParseValueGood`).

`CurIsHere` is not inductive. The walk of the next header or assignment changes the tree,
and `Resolve` of `here` could come to another table afterwards although nothing on the
way was touched, if the model did not also know that what is above `cur` is out of reach
of whoever writes at or below it. A set of objects is `Guarded` if nobody outside of it
holds one of its members: it is closed upwards. `Leaves(d, e, n, M)` says of a step from
`d` to `e` that it leaves every guarded set without `n` and `M` as it is, and that such a
set is guarded afterwards; it composes, so a walk along many keys has it because each
step does. `Found` strengthens `CurIsHere`: the path leads to `cur`, and all that the walk
to `cur` reads is `Safe`, that is in some guarded set without `cur`. `IInv` is `TypeOK`
with `Found`; it was tried with TLC on the instance of `config` with two statements
before it was proved. A header establishes `Found`, since it walks along the keys whose
path `here` becomes (`HeaderFinds`), and an assignment keeps it, since it leaves what is
above `cur` alone (`AssignmentKeepsFound`). A value may be replaced by one that is
deeper, an array may grow, and the pointer still is where the header says.

`StatementsKept` is about paths from the root. In a tree the way to an object is unique
(`FromUnique`), so what is put in one place can only show on paths that pass through
it (`FromPut`), and those are the ones under the assigned path (`PassesUnder`); what
has not changed on a path denotes what it denoted (`FromKeeps`). These lemmas are stated
for paths from any table that nobody holds (`Top`), because an inline table is filled
before it is hung up: it is the root of its own entries.

`LastAssignmentRead` says that a value reads as it was written, at any depth. The
invariant is `ReadAsWritten`: every path, not only those of `Paths`, that leads under the
last assignment reads what `Denoted` has for the rest of the path. Two lemmas about one
assignment carry it, in a text as in an inline table. `AssignmentUnder`: a path under the
keys reads in the value. `AssignmentBeside`: any other path reads what it read before.
That a value reads as its literal does (`ParseValueFinds`) goes by depth, like the
reading itself. If a reader of all that is less deep is `Faithful`, then so is one that
makes an array of what it has read (`ArrayFinds`) or an inline table (`TableFinds`). For
an array, what its first elements hold must still be there when the last one has been
read, since it is out of reach of what is made later (`RegionReads`). For an inline table
the entries are compared one by one: `OfEntries` says that after j entries a path reads in
the last of these whose keys lead to it, which is how `Denoted` resolves
`{a.b = 1, a.a = 2, a.b = 2}`.

**Lookup.** `SupportedRead` follows the rounds of the loop in `lookup`. As long as a path
is supported, its brackets have no gap, so the first bracket of the rest is in the segment
at hand, or there is none any more: one round does what one segment denotes
(`RoundReads`), and `Rounds` is enough for all of them (`RoundsSuffice`). The theorem is
about every document that satisfies `TypeOK`, hence about every text.

Recursive functions (`Along`, `Entries`, `Resolve`, `ParseValue` and others) are reached by
two lemmas. `Recursion` says that a function defined by recursion on a bounded range of
numbers exists and satisfies its equations, and `BoundedInduction` is induction for a
*set* of numbers; `SequenceInduction` is the same for the sequences in a set.

Only model-checked:

* all liveness properties (the provers have no rule for fairness), among them
  `RepeatGoesOn` and `PublishEnds`, and the constructor's failure of `ThreadPool`;
* the loops of the pure operators (`TomlNumber`, `TomlString`, `Format`, and `split`,
  `split_any` and the replacements of `Strings`): `NumbersRead`, `StringsRead`,
  `FormatReads`, and `SplitRight` and `ReplaceRight` in `StringsObey` hold over all short
  texts. For texts of any length each of them is an induction of its own over loops and
  reference definitions.

## 5. Findings

* `pool_ctor`: `thread_pool.hpp:44` sets `stop_` without the mutex. A worker that
  has found the predicate false and is not asleep yet misses the notification;
  the constructor then joins it for ever instead of throwing (comment at line 36).
* `logger_rotation`: `set_rotation` called for the path of last time closes the
  stream and does not open it again, and returns true (comment at line 66). The
  next line is lost; `LossBounded` shows that no more than one is.
* `config_paths`: `config.hpp:86` searches for a bracket in all of the rest of a
  path, so `a.b.c[0].d` of `docs/README.md:224` is not found. `SupportedPathsRead`
  states which paths do work.

Divergences that need no run, because they can be read off the code: `shutdown`
returns at once although its comment (`thread_pool.hpp:90`) says it waits;
`Latch(0)` is not open (`sync.hpp:39`); `ThreadPool(0)` never runs what it
accepts; a path that begins with an array (`config.hpp:63`) is never found;
`docs/README.md:166` shows a constructor of `Logger` that does not exist;
`AsyncHandle::consume` has no caller, so async callbacks never run; copies of
repeating timers are never removed, so their number grows with every period;
`src/tests/test_event_loop.cpp:33` counts callbacks on the pool right after `run()`;
a decimal integer may have leading zeros behind a sign, as in `-07`, which the comment at
`toml.hpp:706` excludes (`NumberRead` states the rule of the comment for numbers without
a sign, and leaves the others out); a key given twice in a table silently has its last
value, although `toml.hpp:2` speaks of TOML v1.0.0, which forbids it;
`docs/README.md:266` shows `format("{{literal}} {}")` without the argument that the
placeholder needs, for which lines 273 and the code throw; the letter `i` of a signed `inf` is
not looked at (`toml.hpp:548`), so `-xnf` is a float; a multi-line string loses its
line breaks, and a string without its closing quote is accepted to the end of the text,
both against TOML 1.0.0; `Result::and_then` and `or_else` wrap the `Result` that their
function returns once more (`result.hpp:77`, 87), so they do not compile as their comment
uses them; what follows a value on its line is skipped unread (`toml.hpp:859`); with
`max_files` 0 a rotation removes the file it has just opened.

## 6. Abstractions that matter

* Client code that would be undefined is not modelled: calls on a destroyed
  pool, `join` called twice at the same time.
* `close()` on another thread writes a `std::function` that the loop may be reading. The
  model has each outcome in which the read comes as a whole before or after the write.
  What a torn read does, and what becomes of a callback whose own closure is destroyed
  while it runs, is undefined and left out. A `close()` during one of the loop's
  critical sections, which does not take the mutex, counts as one before or after it.
* The automatic exit of `EventLoop::run` (line 324) reads three lists without the
  mutex; the model reads them in one step. Other threads only make the lists
  longer, so reading them one after the other decides as some instant does.
* Times below a millisecond: `sleep_ms` is cut down to whole milliseconds, so the
  loop may spin for less than one. In the model an instant is indivisible.
* The logger's clock goes forward, and writing to an open file succeeds. Any two files
  differ in the time of their last write; of two with the same time, `std::sort` may put
  either in front, and `WrittenFileKept` could then fail for a file system with coarse
  times.
* The latch is given amounts of at least one. `arrive` takes any number: a negative one
  raises the counter, and `arrive(0)` on an expired latch may still be about to lock when
  a wait has returned, so that `NoArriverAfterReturn` would not hold.
* `set_rotation` may read two different times for the interval and the path; the
  model lets a tick pass between them.

* A text is a sequence of characters of a small alphabet, in which each character that
  the code treats differently has a representative. Letters of numbers are in lower
  case; the value of a float is `sscanf`'s business.
* The text of a document reaches `TomlParser` as statements and values reach it as
  literals: that a value's text gives that literal is what `TomlNumber` and
  `TomlString` are about. White space and comments between them are left out.

## 7. Plan

Done: the thread pool, the synchronisation primitives, the event loop, the bus, the
logger, the parser with its values, lookup, the string utilities and `format`; proofs
about all of them but the values, the strings that are split or replaced, and `format`.
What could still be added:

1. Event loop: compose `EventLoop` with `TaskService` in the place of the pool it
   carries, and count the copies of a repeating timer up to a bound.
2. TOML: how a text is cut into statements, with its white space and comments.
3. Proofs: `SplitRight` and `ReplaceRight` for all texts, by `Induction`.
4. Abstract specifications: a one-shot gate for `Latch`, and a log device (a line
   goes to one place, at most one is lost) for `Logger`.

## 8. Not modelled

* `result.hpp`: a value or an error behind a template. Each operation returns one of its
  two cases by a single test; a model would repeat it word by word.
* `file.hpp`, `datetime.hpp`, `assert.hpp`: thin wrappers around the file system, the C
  library's calendar and `abort`, without state. The calendar appears in `Logger` as
  the table `PathOf`.
* `example`: a client of the library.
* Of modelled components: the level and the text of a log line; `AsyncHandle::consume`,
  which nothing calls; moving a `Handle`; reading the configuration file; the conversions
  between scalar types in `Config`; positions in error messages.
