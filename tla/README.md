# Verification of picologging

TLA+ models of picologging, the model-checking runs that exercise them and the
theorems TLAPS proves about them. Paths are relative to the repository; source
files without a directory are in `src/picologging/`.

picologging reimplements Python's `logging`. Loggers, records, filters,
formatters, `Handler` and `StreamHandler` are C++ types; the manager of logger
names, the file handlers and everything in `handlers.py` and `config.py` is
Python. Nearly all that is hard in it comes from a few sources:

* a level that is **cached** in each logger and pushed through links that change;
* **no locks** where `logging` has them: `getLogger` is not protected, lists of
  handlers are read by index while they change;
* a **recursive mutex** per handler that is waited for **with the GIL held**;
* handlers that **keep state over failures**: queues, buffers, files that are
  renamed, sockets that are made again.

A fifth is the **one record** that all handlers share: every formatter leaves
texts on it that the next one finds.

## 1. Inventory

| Component | State | Operations | Interacts with | Hard behaviour |
|---|---|---|---|---|
| Manager and logger hierarchy (`__init__.py:69-188`, `logger.cxx`) | `loggerDict`, `_Placeholder.loggerMap`, each logger's `level`, `effective_level`, flags, `parent`, `children` | `getLogger`, `_fixupParents`, `_fixupChildren`, `setLevel`, setter of `parent`, `isEnabledFor` | handlers via the logger; every log call reads the flags | cached levels going stale; order of creation; integer width |
| the same, called concurrently | also the locals of each `getLogger` | each dictionary and attribute operation by itself | threads share the dictionary and the links | interleaving; a climb over parents that holds the GIL |
| Dispatch (`logger.cxx:270-382`) | `handlers`, `propagate`, the loop's logger and index | `log`, `logAndHandle`, `addHandler`, `removeHandler` | asks the logger's filters; calls each handler's `handle`, whose code can change the lists | a list that changes under a loop; an exception of one handler |
| Filterer (`filterer.cxx`) | `filters` of each logger and handler, the walk's index, a pending exception | `addFilter`, `removeFilter`, `filter` | base of loggers and handlers; filters are user code | a list that changes under a loop; a callable that raises |
| LogRecord and FilepathCache (`logrecord.cxx`, `filepathcache.cxx`) | the record's slots and dictionary; pairs of a path's hash and its last component | `LogRecord()`, `getMessage`, `lookup` | made by loggers, read and written by formatters and filters | one record shared by all handlers; a cache that asks hashes only |
| Formatter and FormatStyle (`formatter.cxx`, `formatstyle.cxx`) | the fragments of a format, `usesTime`, `defaults` | `format`, `setFormatter` | `Handler.format`; `QueueHandler.prepare` | counting fragments and filling them in; texts cached on the record |
| Handler and StreamHandler (`handler.cxx`, `streamhandler.cxx`) | recursive mutex, `stream`, `formatter` | `handle`, `acquire`, `release`, `emit`, `flush`, `setStream` | all threads; the GIL | mutual exclusion, unlocking on every path, deadlock with the GIL |
| QueueHandler, QueueListener (`handlers.py:510-695`) | the queue, `unfinished_tasks`, `_thread` | `emit`, `prepare`, `enqueue`; `start`, `stop`, `_monitor`, `handle` | application threads and the listener's thread | bounded queue, sentinel, a thread that dies, legal calls in odd orders |
| BufferingHandler, MemoryHandler (`handlers.py:698-819`) | `buffer`, `target` | `emit`, `flush`, `setTarget`, `close` | its target handler | a target that raises, or logs to the same handler |
| FileHandler, RotatingFileHandler (`__init__.py`, `handlers.py:77-237`) | the files on disk, the open stream and its buffer | `emit`, `shouldRollover`, `doRollover`, `flush`, `close` | the file system | failures and crashes between system calls |
| TimedRotatingFileHandler (`handlers.py:240-507`) | `rollover_at`, the files and their names | `computeRollover`, `doRollover`, `getFilesToDelete`, restart | clock, time zone, file system | changes of summer time, boundaries, names given twice |
| SocketHandler (`handlers.py:822-979`) | `sock`, `retryTime`, `retryPeriod` | `emit`, `send`, `createSocket`, `handleError`, `close` | peer, clock | a frame cut off, back-off, a clock that is set |
| WatchedFileHandler (`handlers.py:26-75`) | `dev`, `ino`, the open stream | `emit`, `reopenIfNeeded`, `close` | other programs move and remove the file | their steps between any two system calls |
| Configuration (`config.py`) | the lists of loggers still to be configured and still to be reset | `dictConfig` | `getLogger`, `setLevel` and attributes of loggers | a failure half way; loggers made meanwhile; placeholders |
| DatagramHandler, `basicConfig`, level names, module set-up | see section 9 | | | |

What makes each correct is said by the properties in section 4.

## 2. Plan

In order of importance. Done:

1. `LoggerNames`, `LoggerHierarchy`, `LoggerTree`: the hierarchy, its abstract
   specification, refinement; `LoggerTreeProofs`.
2. `QueueLogging`, `QueueLoggingProofs`.
3. `HandlerLocking`, the mutex of a handler.
4. `MemoryHandler`, what it protects; `HandlerProofs` for both.
5. `LoggerRace`, which implements `LoggerTree` while calls do not overlap;
   `LoggerRaceProofs`, and in it that refinement.
6. `Dispatch` with the filters of loggers and handlers; `DispatchProofs`.
7. `RotatingFile`, `RotatingFileProofs`.
8. `TimedRotatingFile`.
9. `SocketHandler`.
10. `FormatStyle`, `RecordText`: records shared by formatters, filters and the
    queue; `OutputProofs` for these and `SocketHandler`.
11. `WatchedFile`; `FileHandlerProofs` for it and `TimedRotatingFile`.
12. `DictConfig`, composed with `LoggerTree`, proved about in `LoggerTreeProofs`.

Left:

13. A composition of `Dispatch` with the locked handlers of `HandlerLocking`, and
    of `QueueLogging` as a handler of `Dispatch`.

## 3. Modules

Each module names in its comments the code that a definition stands for;
`PROJECT.json` gives the lines. `MC*` modules hold the values of a run's
constants and nothing else. A definition under a comment "Mutant:" is a
plausible bug: no specification uses it, it exists to be put in the place of
the definition below it, where the property it is listed with must then fail.

**LoggerNames** — dotted names are an abstract set with the relation
`Above[n]`, the proper dotted prefixes of `n`. `TextExt[n]` holds the loggers
whose name string starts with `n`, because `_fixupChildren` compares strings and
`"root".startswith("ro")` holds. Levels are cast to an unsigned short (`UShort`).

**LoggerHierarchy** — the abstract specification: loggers appear, levels are
assigned, an effective level is looked up. No links, no cache.

**LoggerTree** — one `getLogger` or `setLevel` call is one step with all it
calls. `GetLogger` covers a new name, a placeholder that is replaced and a
logger that exists; `Create` is the whole of `_fixupParents` and
`_fixupChildren` including the setter of `parent`, which enters the logger in the
new parent's `children`, leaves it in the old one's, and recomputes the
effective level by a scan upwards. The scan and the push downwards are given as
least sets closed under one step of the loop, so that no definition is
recursive. `careful` is a history variable: it becomes false when a
level is pushed through the `children` of a logger that has handed one of them
on to a later parent, or when a level is set back to NOTSET — the two uses
whose caches go stale (section 6).

**LoggerRace** — `getLogger` one dictionary or attribute operation at a time in
several threads: look up, store, iterate over the remembered loggers (which
raises when the dictionary changes size), test, two setter calls, climb, plant or
append to a placeholder, link. A logger is known by its name and the call that
made it, so that there can be two of one name. It instantiates `LoggerTree` with the hierarchy as it was when
no call was in progress.

**Dispatch** — one call of `Logger_logAndHandle` as three walks by index: over
the filters of the logger it is called on, over the lists of handlers of that
logger and those above, and over the filters of each handler that wants the
record. Between two steps handlers and filters are added or removed: by the code
of a filter or handler, or by another thread that gets the GIL from it. A filter
with a method `filter` that raises ends its walk; one that is called itself does
not (`filterer.cxx:45`): its exception stays `pending`, is dropped by the look
for the next filter's method if there is none, and otherwise makes the next call
fail. The two loops of the C++ code (loggers of exact type, and others) do the
same and are one here. The record's making is in `RecordText`.

**HandlerLocking** — threads in `handle()` and `flush()`: a thread takes a step
of this code only with the GIL, waits for a mutex with it, and may lose it in
Python, or under a mutex whose handler runs Python code or waits for a file
(`Yielding`). An exception of `emit` goes on at the unlock.

**QueueLogging** — `EmitQueued`/`EmitLost` are `prepare` and one `put_nowait`;
the monitor's loop is `TakeRecord`, one `Offer` per handler, `TaskDone`, or
`HandlerRaises`, which ends the thread as the loop catches only `queue.Empty`.
`stop()` is three steps: entered, sentinel put (or `queue.Full` raised), joined.

**FormatStyle** — how a format string becomes fragments. A format is a sequence
of pieces of one of the two styles (`$` is refused): literals, fields with their
conversion (`s`, `r`, `d` for integers, `f` for one that writes numbers
otherwise), and what the regular expression leaves to the literals though Python
reads more in it (padded fields, `%%`, a field without its end). `size` is what `FormatStyle_new` allocates by a first search and
`fragments` what `FormatStyle_init` fills in by a second one, a walk over the
pieces with a cursor behind the last match (`Past`). `FormatFragments` is the C++
path, which writes a value as `str` does whatever the conversion, and what it has
not matched as it stands. `FormatByPython` is the path with defaults, which is also
the reference: what Python's own `%` or `{}` formatting of the pieces gives. It
converts (`Converted`: `d` and `f` are for numbers, and `r` of a text is another
text), unescapes, and raises for a malformed piece. What raises has the text
`Py_None`.

**RecordText** — texts are sequences of tokens ("the level 30", "the traceback of
e1"), so that two are equal when the program's are. `LogRecord_create` makes a
record from a log call, from `LogRecord()` or in `prepare`; `Formatter_format`
writes `message`, `asctime` and `exc_text` on it in the order of the code, and
leaves them there when a later part raises; `FormatStyle_format` with defaults
puts them in the record's dictionary. Fragments read the slots of the record
(`Attributes`), Python its `__dict__` (`LogRecord_getDict`), in which `funcname`
has the name `funcName` only and `msecs` is whole. Filters rewrite the record between two
handlers (`Rewrite`). The file name comes from the `FilepathCache`, which is a
state of its own.

**MemoryHandler** — `flush()` is a stack of loops in progress, because the
target may log to the same handler and come back through the recursive mutex.

**RotatingFile** — the calls of `emit`, `doRollover`, `flush` and `close` on
files are steps. Each may be the last (`Crash`, `Restart`) or fail: opening,
removing and renaming (`Fail`), seek and write (`UseFails`), the flush behind
the write, which leaves the text in the file's buffer for the next
(`FlushOfEmitFails`), and the close of a rollover, which leaves a closed file in
`self.stream` (`CloseStreamFails`, the variable `closed`); in `emit` the
exception goes to `handleError`, which swallows it. From `flush()` and `close()`
it comes out (`FlushFails`, `FlushOfCloseFails`, `CloseFails`). A call that fails
has written nothing. With `delay`, `StreamHandler.__init__` is not called, and
`stream_has_flush` stays false.

**TimedRotatingFile** — arithmetic on a clock with days of `Day` ticks and
summer time as a set of times. One emit is one step, with `shouldRollover`,
`doRollover`, `getFilesToDelete` and `computeRollover` in it. `atTime = Day`
stands for no `atTime`, as `_MIDNIGHT` does in the code. Names of files are the
numbers of the hour or day in the suffix, which sort as the strings do. The
definitions `computeRollover`, `Destination` and `NextRollover` give, for
several hundred thousand random times over two years of Europe/London and UTC,
the values the Python methods give. Times are whole seconds, as `int(time.time())`
is, but the time of change of a file that `__init__` reads is not: with it
`rollover_at` gets a fraction of a second, and `shouldRollover` says yes a second
later. All that a fraction changes is on which side of a whole second it falls,
so `fraction` says whether there is one.

**SocketHandler** — connections are numbered and remember what has been sent on
them. Time passes while a connection is attempted; the peer comes and goes.

**WatchedFile** — files are inodes; the name, the other names and the stream each
hold one, and an inode nothing holds may be given to the next file. `Stat`,
`Reopen`, `OpenLate` and `Write` are the system calls of one `emit`; `Move`,
`Unlink` and `Make` are what other programs do between them. With `delay` the
stream is never flushed (as in `RotatingFile`), and `ino` stays None until the
first reopening, so that the second record reopens the file it has just opened.

**DictConfig** — EXTENDS `LoggerTree` and adds `handlers`, `disabled` and
`propagate` of each logger. `configure` is one step per call on the hierarchy:
`Take` (an entry, and the names below it), `Get`, `Level`, `Handlers`; then
`Reset`, `ResetRaises` or `Disable` for each logger that was there before, in any
order; then the root (`NoRoot`, or `RootLevel` and `RootHandlers`). Between all of
them other threads call `getLogger`, and `setLevel` with one of `OtherLevels`; the
loggers they do so with are remembered in `theirs`, whose levels `dictConfig`
promises nothing about. An entry, the root's too, may raise in `setLevel` or, after
the old handlers are gone, at a handler that does not exist (`LevelRaises`,
`RootRaises`, `Handlers`, `RootHandlers`). The filters of an entry are treated as its handlers are and
are left out.

How they fit together: `LoggerRace` refines `LoggerTree`, which refines
`LoggerHierarchy`; `DictConfig` is a client of `LoggerTree`. `Dispatch` takes a
hierarchy that no longer changes and calls `handle`, atomic for one handler by
`HandlerLocking`'s `OneWriter`. The modules of handlers take each call to
`emit`, `flush` or `close` as undivided by others for the same reason.
`RecordText` is what happens to the record of one such call inside the handlers'
`emit`, and gives `QueueLogging` its items.

## 4. Runs and what they show

| Run | Properties | What they say |
|---|---|---|
| LoggerTree | `ParentIsNearest` | a logger's parent is its nearest existing ancestor, in whatever order they were made |
| | `PlaceholdersComplete` | a name without a logger remembers every logger below it up to the next logger |
| | `LinksDescend` | parents are above, children below: no climb or push goes round; every child is in its parent's list |
| | `FlagsAgree` | flags and number agree for every standard level |
| | `ImplementsHierarchy` | while uses are careful, every step has the abstract hierarchy's effect on effective levels |
| LoggerRace | `RestingLinksDescend` | however calls overlap, when all have returned every logger returned to a caller has a parent above it that knows it |
| | `ImplementsTree` | as long as calls do not overlap, this is `LoggerTree` |
| Dispatch | `EveryHandlerServed` | if nothing is removed meanwhile, no handler gets the record more often than it is attached, and one whose level and filters, and whose logger's filters, let it through gets it once for each logger on the way it was attached to all along — a handler with a method filter only if no handler's filter raises |
| | `RefusedStaysOut` | a refused record reaches no handler, or not that handler, whatever raises before or is added meanwhile |
| | `FallbackIsLast` | the record goes to stderr only if no handler was attached all along to a logger on the way, and then to nothing else |
| HandlerLocking | `OneWriter` | one thread at a time in a handler's stream |
| | `NoGilDeadlock`, `ApartCallsReturn` | applications in which no two threads share a handler that lets go of the GIL: nobody waits for a mutex with the GIL, every call returns |
| QueueLogging | `EveryTakenRecordDelivered` | what is taken from the queue reaches exactly the handlers that want it |
| | `UnfinishedCounts` | `task_done` is called right; what `queue.join()` would wait for |
| | `DeliveredInOrder`, `StopDrains`, `StopReturns` | with start and stop in pairs: order; `stop()` returns, and when it does everything before it is handled |
| MemoryHandler | `NothingLost` | a record accepted is buffered or handed over, also when targets raise |
| | `Fifo` | until a target raises, the handler is a queue |
| RotatingFile | `UnbrokenHistory` | at every moment of every rollover, failed, repeated or cut by a crash, the files read in order, then the buffer, are an unbroken run of what was written, up to the last record; while nothing fails (in mode "a") that record is among them |
| | `SizesBounded` | with backups, a file that holds more than one record is smaller than `maxBytes` |
| | `ReturnedIsOnFile` | what a call that has returned wrote does not depend on the process |
| TimedRotatingFile | `OnSchedule` | after a rollover the next is at a scheduled time, and the base file stays open over none, unless the program was restarted on a file changed in the second of a rollover |
| | `FiledByPeriod` | each record is in the file named for its period, but for those of one second after it in one file for each start of the program |
| | `BackupsSurviveInUtc` | a backup is lost only as the oldest of more than `backupCount` |
| SocketHandler | `StreamsSound` | nothing follows a frame that was cut off; only the connection in use is open |
| | `AttemptsBackOff` | two attempts are never closer than the back-off asks, and records are dropped without an attempt no longer than that |
| RecordText | `TextIsOwn` | the text of a Formatter whose format the fragments write as Python does, or that leaves it to Python, is that of the record as it is now, whatever formatters and filters before it left there |
| | `QueuedArrivesOnce` | what a QueueHandler formatted is what the listener's handlers write, the exception in it once |
| WatchedFile | `FollowsFile` | every record goes to a file that had the handler's name during its emit, and is not lost to a reopened or closed stream |
| DictConfig | `ConfiguredOrSpared` | what `dictConfig` returns from is configured as the dictionary says, whatever loggers are made and levels set meanwhile; what it raises from leaves the loggers it does not name alone, and a root that makes it raise spoils none |

`TypeOK` of a module (`ConfigTypeOK` of DictConfig, `TimedTypeOK` of
TimedRotatingFile, `TextTypeOK` of RecordText) also bounds what the code should bound: levels to 16 bits,
`retryPeriod` to `retryMax`, the number of backups to `backupCount`, the
fragments filled in to the room made for them, one entry of the cache for a
hash. Of QueueLogging, HandlerLocking (`LockTypeOK`), MemoryHandler and Dispatch
it is proved (section 8) and not run.

Deadlock is checked in LoggerTree, MemoryHandler, Dispatch, SocketHandler,
RecordText, WatchedFile and DictConfig. The other specifications stop when a
bound is reached (calls, records, time), or when everything was done, and say
CHECK_DEADLOCK FALSE; what must not stop in them is said by liveness properties.

Some properties have a condition, always one the code makes necessary; section 6
drops each of them and shows why.

## 5. Bounds and fairness

* LoggerTree: names `a`, `a.b`, `a.b.c`, `a.d`: a chain with a placeholder in the
  middle, and a sibling; every bug about nearest ancestors needs no more than
  three names on a path and one beside it. Levels 0, 10, 40 and 65546, which
  wraps to 10. Nothing else is bounded.
* LoggerRace: the same names, two threads, two calls each. Three objects of one
  name cannot arise with fewer calls, but pairs of overlapping calls show every
  order of two operations on one entry. 455 thousand states.
* Dispatch: a logger below the root, three handlers, two filters with a method and
  one that is called itself; a method and the callable each raise for one of two
  records. `MaxChanges` = 3 changes of lists: enough to move a handler below the
  loop's index and back, or to put a filter before one that refuses. The third
  handler stands behind one that raises and one whose filter does. 5.3 million
  states, a minute or two.
* HandlerLocking: three threads, so that two can wait while one writes; one
  handler they share, one that yields, one without flush. Unbounded otherwise.
* QueueLogging: three records, a queue of two (so it can be full), two listener
  threads (so `start()` can be called twice or again after `stop()`), two
  handlers, one of which raises for one record.
* MemoryHandler: four records, capacity two, `MaxFailures` = 2.
* RotatingFile: `backupCount` 2, records of one, two and four bytes for
  `maxBytes` 3, five records, and two system calls that fail or crashes
  (228 thousand states).
* TimedRotatingFile: days of four hours, 30 ticks (a week and more), summer time
  from tick 6 to 13, three records, one restart.
* SocketHandler: back-off 1, 2, 3 (the limit cuts the third), nine ticks, four
  records, the clock set back once to any earlier time.
* RecordText: one handler of the logger with five formatters (a time, defaults, an
  attribute only a filter sets with an integer as `%d`, and, with and without
  defaults, conversions, `%%` and `funcname`, which the fragments write otherwise
  than Python), a QueueHandler with the other style of placeholders and another
  time, and a listener's handler; seven calls (messages that fit their
  arguments and do not, each form of `exc_info` and of `stack_info`, two paths).
  Nothing is bounded: the states are finite because a record is replaced by the
  next. Two formatters of one record show every pair of "left there" and "found
  there". Half a million states.
* WatchedFile: three inodes, so that a new file can be given the number of an
  old one while a third is in use; four records; two opens that fail or calls of
  `close()`. 56 thousand states, with the inodes symmetric.
* DictConfig: a chain of three names; six configurations (a logger before its
  parent, and a root with a handler that is missing; a logger between two others,
  and a root; the same with a handler that is missing; an entry whose level is bad;
  a root whose level is; an empty dictionary), one after the other as often as one
  likes, and one level that other threads set, of one logger during each
  `dictConfig` (`MaxOthers`). 1.1 million states.

Fairness. `QueueLogging`: weak fairness of each listener thread and of a call of
`stop()` in progress — threads that can run are scheduled by CPython; nothing is
assumed of the application. `HandlerLocking`: strong fairness of a thread's steps with
the GIL, of handing over the GIL and of getting it: a running thread is made to
drop the GIL after the switch interval, so these steps are enabled again and
again but not all the time; CPython makes the dropping thread wait until another
has taken the GIL. No fairness is assumed where only safety is checked.

## 6. Where the code does less than one would ask

Some properties have a condition, always one the code makes necessary. Each row
drops a condition; TLC finds the property violated by what the code does, and
the counterexample shows why the condition is there. None of them is among the
runs of section 4. Where a configuration is named it is in this directory; the
others are the run's own configuration with the property in place of its
INVARIANTs and PROPERTYs.

| Configuration | Property | What it shows |
|---|---|---|
| LoggerTreeLateParent.cfg (MCLoggerTree) | `EffectiveLevelInherited` | `logger.cxx:541`: the setter of `parent` leaves a logger in its old parent's `children`, so a later `root.setLevel` overwrites the level it inherits from a parent created later. With `LevelArgs = {0}`, `logger.cxx:156-158`: `setLevel(NOTSET)` caches and pushes 0 instead of the inherited level |
| LoggerTreeFlags.cfg (MCLoggerTree) | `FlagsAgreeAlways` | `logger.cxx:25-43`: with effective level NOTSET all flags are false though `isEnabledFor` (`553-562`) says yes |
| LoggerTreeShadow.cfg (MCLoggerTree) | `ParentIsNearest` | `__init__.py:172`: a logger named `r`, `ro` or `roo` takes the root for one of its descendants |
| LoggerRace.cfg (MCLoggerRace) | `ClimbEnds` | `__init__.py:172`: two overlapping `getLogger` calls can make two loggers each other's parent, and the next setter of `parent` climbs for ever with the GIL |
| LoggerRace.cfg (MCLoggerRace) | `OneLoggerAlways` | `__init__.py:123-135`: overlapping calls return two loggers for one name |
| HandlerDeadlock.cfg (MCHandlerLocking) | `CallsReturn` | `handler.cxx:57`: two threads that share a handler which lets go of the GIL: one waits for the mutex with the GIL, the other for the GIL with the mutex |
| QueueFaulty.cfg (MCQueueLogging) | `StopAlwaysDrains` | `handlers.py:669`: a handler that raises ends the listener, and `stop()` returns with the queue full of records |
| QueueFullStop.cfg (MCQueueLogging) | `StopEndsListener` | `handlers.py:693`: with a full queue `stop()` raises and the listener goes on |
| MemoryChatty.cfg (MCMemoryHandler) | `NothingLost` | `handlers.py:790`: a target that logs to the handler changes the list under the loop |
| MemoryHandler.cfg with `FlushOnClose = FALSE` (MCMemoryHandler) | `CloseLosesBuffer` | `handlers.py:806`: the buffer outlives `close()`, whose comment says it is lost |
| Dispatch.cfg (MCDispatch) | `OthersServed` | `logger.cxx:336-339`: a handler that raises keeps the record from the handlers after it |
| Dispatch.cfg (MCDispatch) | `PoliteServed` | `filterer.cxx:45`: a callable filter of one handler that raises leaves its exception pending; the method of the next handler's filter is then called with it set, fails, and that handler does not get the record |
| RotatingFile.cfg (MCRotatingFile) | `FlushFlushes` | `__init__.py:457-461`: with `delay`, `flush()` does nothing |
| RotatingFile.cfg (MCRotatingFile) | `RefusedForFaults` | `handlers.py:204`: when `stream.close()` raises in a rollover, `self.stream` keeps a closed file; every later record is refused at the seek (line 234), without a word, until `close()` is called |
| RotatingFile.cfg (MCRotatingFile) | `BackupsHoldRecords` | `handlers.py:235`: an oversized first record rolls over an empty file |
| RotatingWide.cfg (MCRotatingFile) | `SizesBounded` | `handlers.py:235`: characters are added to bytes |
| TimedClockChange.cfg (MCTimedRotatingFile) | `BackupsSurvive` | `handlers.py:476`: hourly rollovers in local time across a change of the clocks give a name twice; the file of the hour before is removed. (For rollovers at midnight the correction is right.) |
| TimedRestart.cfg (MCTimedRotatingFile) | `BackupsSurvive` | `handlers.py:317,353`: a restart on a file last changed at the very `atTime` rolls over at once, onto the backup just made |
| TimedRotatingFile.cfg (MCTimedRotatingFile) | `FiledExactly` | `handlers.py:317,406`: after a start `rollover_at` has the fraction of a second of the file's time of change, and `int(time.time())` reaches it a second late: what is logged in the first second of a period goes to the file of the one before, though `computeRollover` is "to trigger the first rollover at the right time" (`handlers.py:331`) |
| TimedRotatingFile.cfg (MCTimedRotatingFile) | `NonePassedOver` | `handlers.py:317`: when the file was changed in that second and the program is then restarted, the rollover that was due is computed anew and put off by a whole day or week |
| SocketHandler.cfg (SocketHandler) | `SilenceBounded` | `handlers.py:878`: `time.time()` set back makes the handler drop records for longer than `retryMax` |
| RecordCleared.cfg (MCRecordText) | `TextIsOwn` | `logrecord.cxx:245`: a record whose `args` are set to None after its creation keeps `hasArgs`, and its message is formatted with None |
| RecordText.cfg (MCRecordText) | `QueuedStackOnce` | `handlers.py:571`: `prepare` drops the exception once it is in the text, but passes the stack on, and the listener's handlers write it a second time |
| RecordText.cfg (MCRecordText) | `WrittenAsPython` | `formatstyle.cxx:7,112`: without defaults the conversion of a field is dropped and `str` written (`TODO: #7`, line 194), what is escaped or malformed is written as it stands where Python unescapes or raises, and `%(funcname)s` is a field. `test_percentstyle.py:43,59` and `test_formatter.py:238` expect just that, so it is how this library's formats are meant; with defaults (line 329) the same format gives Python's text. `msecs`, a long, is written by `%d` of an int (lines 52, 239) and loses its upper half, which `test_formatter.py:134` does not look at |
| WatchedFile.cfg (MCWatchedFile) | `WrittenAtName` | `__init__.py:495`: after `close()`, or after an `open` that failed, `emit` opens the file without taking its inode; the handler then trusts an inode it no longer writes to |
| WatchedTruncates.cfg (MCWatchedFile) | `Kept` | `handlers.py:63`: with mode "w" reopening truncates a file that is there already |
| DictConfig.cfg (MCDictConfig) | `RaisesForEntries` | `config.py:46`: below a configured logger a placeholder is asked for `setLevel`, which it has not, and `dictConfig` raises half way over a dictionary without a fault |
| DictConfig.cfg (MCDictConfig) | `ResetLevelsInherited` | `config.py:46`: a logger reset with `setLevel(NOTSET)` accepts everything, instead of inheriting a level |

## 7. Also seen

Without a property of their own: the first rollover at midnight after `__init__` is
not corrected for a change of the clocks; a weekly rollover in local time is
corrected twice (in `computeRollover` and again in `doRollover`), so `OnSchedule`
leaves it out; with `interval` above 1 "midnight" rolls over daily but names
files for `interval` days before; a restart puts off hourly and daily rollovers
by a whole interval; `disable()` stores a level nothing reads and then calls
`Manager._clear_cache`, which does not exist. Formats: a padded field or `{x!r}` is
written as it stands unless the formatter has defaults, and so are `%%` and a
malformed field; a field without defaults finds what `getattr` finds, the methods
of the record too (the model has only its slots and what was set on it); `Formatter`
with style `{` and no format writes `%(message)s` as it stands; defaults go over the
record's own attributes and stay in its dictionary, where later formatters find
them; a formatter's own `formatException` is not called; `exc_info=False` is
taken as a request for the current exception. Whether a message is formatted is
decided when the record is made (`logrecord.cxx:245`): a filter that gives a record
with arguments a finished text and no arguments has that text formatted again,
which raises if it holds a `%`. Two paths of one hash get one file name
(`filepathcache.cxx:6`). A record that comes out of a
`QueueHandler` has the time at which it was prepared. `basicConfig` takes no
lock, so two threads can each add a handler (`__init__.py:266`).

## 8. What is proved

Eight modules of proofs, for all values of the constants that satisfy the named
assumptions (no bound on names, threads, records, handlers, filters, files or
levels). `LoggerTreeProofs` is about LoggerTree and DictConfig, `HandlerProofs`
about HandlerLocking and MemoryHandler, `FileHandlerProofs` about WatchedFile and
TimedRotatingFile, `OutputProofs` about FormatStyle, RecordText and
SocketHandler, each of the others about the module it is named for.

**LoggerTree.** From `NamesAssumption` (prefixes of a name form a finite chain;
no infinite descent), `TextAssumption`, `LevelAssumption`. `TreeInv` is the
inductive invariant: types, `PlaceholdersComplete`, `LinksDescend`, and
`OwnLevelWins` (a logger with a level of its own has that effective level).
`LinksDescend` alone is not inductive: creating a logger moves exactly the
loggers its placeholder remembers, so the placeholders must be known to remember
only what is below. It also makes the scan for a level stop (`ScanStops`: a
descending set of names has a last one), without which the level that the setter
stores would be unknown. From it: `TypesHold`, `LinksHold`, `PlaceholdersHold`,
`OwnLevelHolds`, `SetLevelIsLocal`, `FlagsHold` (with the invariant that flags
belong to the cached level), and `NearestHolds`, which needs that no name is
textually a beginning of the root's. For levels, `CarefulInv` adds that the cache
equals the own level or the parent's cache (`LevelsLocal`); it holds while
`careful`, and with `ParentIsNearest` gives `EffectiveLevelHolds` and the
refinement `RefinesHierarchy`.

**DictConfig.** `DictConfigUsesTheTree` (`DSpec => Spec`): whatever dictConfig
does, and wherever it raises, to the hierarchy it is `LoggerTree`, so all of the
above holds under it. `ConfigInv` is `TreeInv`, `ConfigTypes`, `WalkFits` (the
names taken, the one in hand and those still to be reset or disabled share the
loggers that were there before) and `LoggersFit` (a logger that has been dealt
with is as its entry or the reset says, one that has not is as it was, where the level
of a logger in `theirs` may be any, and the root is as it was until its entry). Without
`WalkFits` an entry could be configured and then reset. It gives
`ConfigTypesHold` and `DictConfigDelivers`.

**LoggerRace.** `RaceInv`: types; `CallFits`, what a call's locals can hold at
each of its steps — the logger it makes is its own, the placeholder it read is
that of the name it is at, the child it moves is below; that a parent knows its
children; and `Sound`: a logger's parent is above it, or the call that made it is
not over. The second case is needed, as `_fixupChildren` may give the new logger a
parent that is not above it when another call has moved the child meanwhile; that
it is gone at the end rests on `_fixupParents` being called last. When no call is
in progress `Sound` is `RacingLinksDescend`.

`RefinesTree`: until calls overlap, `LoggerRace` implements `LoggerTree`. A step
within a call must leave what is seen between calls as it was, and the last one
show the call's whole effect, so the invariant `SoloInv` says, at every step, what
a lone call has made of the hierarchy it found (`before`): which prefixes it has
passed (`EnteredBy`: the placeholders there are new, or remember one logger more),
and which loggers it has put the new one above and which below (`LinkedBy`, which
differ while a child is moved, between the two setter calls). The hierarchy found
is at rest (`Rests`: loggers that have entries are linked upwards to others that
have, and nothing else leads anywhere); hence the new logger was nobody's parent
or child before, the loop over the children reads parents that the call has not
changed yet, and the result is at rest again (`MadeRests`). The `View` lemmas read
this by names: the prefixes passed are `Passed`, the logger the climb stops at is
`NearestLogger`, the children moved are `Moved`, and every logger's inherited
level is the root's, as the links end there. `RestingLinksDescend` would not do as the
invariant: it is of loggers that have been returned, not of where links lead.

**QueueLogging.** `QueueTypesHold`; `QueueInv`: the queue is the part of the
history `puts` after `taken`; every item taken is with exactly one thread until it
is done; what is pending there is what `EveryTakenRecordDelivered` excuses.
`DeliveryHolds`, `NeverTwiceHolds` and `UnfinishedHolds` are conjuncts;
`OrderHolds` needs `PairedInv`: with paired calls at most one listener is alive,
and what it has delivered lies before what it is at. `StopDrainsQueue` adds
`StopFits`: at most one sentinel is in the queue, only while `stop()` waits, and
then the thread is alive; otherwise the thread has ended by that sentinel, the
last that was put.

**HandlerLocking.** `LockInv`: depth and owner of each mutex are what the calls in
progress say, and a thread without the GIL is at a place that lets go of it.
`LocksHold`, `OneWriterHolds`; `NoGilDeadlockHolds` for applications that share no
yielding handler.

**MemoryHandler.** With `Chatty = {}` at most one loop is in progress; `KeepInv`
says that what it has handed over is delivered, `FifoInv` that accepted is
delivered followed by the rest of the buffer. `MemoryTypesHold`,
`NothingLostHolds`, `FifoHolds`.

**Dispatch.** From `DispatchAssumption` (the parents of loggers have no cycle).
`DispatchTypeCorrect`; and `RefusedRecordsStayOut`, by `DispatchInv`. That a
record which reached a handler was not refused is not inductive, as it speaks of
a walk that is over. `ScreensKept` says that filters keep their places while
none is removed, `TurnFits` and `NoRefusalYet` that those before the walk's index
are still in the list and did not refuse, `LoggerFirst` that no handler comes
before the logger's walk is over, `StartPassed` and `HandlersPassed` what
follows once a walk is over.

`FallbackComesLast`, by `WayInv`: as long as `found` is false, the index is at the
beginning of a list, the record has gone nowhere, and no handler has been attached
all along to a logger that the climb has left (`NoneFound`).
`EveryHandlerIsServed`, by `CountInv`, which counts for each handler: it has had
the record once for every logger the climb has left and it was attached to
(`ServedSoFar`), plus one if the index has passed it where the climb is now; the
handler being asked is the one at the index (`AskedHere`); and no exception is
pending if no handler's filter raises (`CalmFits`). A logger is visited once,
as parents have no cycle, and lists hold a handler once (`HandlersOnce`), so each
step of the climb adds at most one attachment to the count.

**RotatingFile.** `StepsFit` says how each step of a rollover finds the stream
and the loop's counter, and that a file left closed is met in no step but the
test for a rollover, and gives `RotatingTypesHold`; `BufferFits`, that only a
handler made with delay buffers, or a flush that fails, gives `ReturnedIsWritten`.
`HistoryIsUnbroken`: `Unbroken` says that the history can be cut so that each file
is one piece and the buffer the last, and a rename moves the cuts of two files. It
is inductive
with `RolloverFits` (from the highest backup down, the loop moves a file away before
another takes its name; mode "w" has no backups) and
`LastKept` (where the last record is, while nothing fails). `FilesStayBounded`,
by `SizesFit`: between the test and the write the file and the record are still
those of the test. It assumes that no text has more bytes than the length the
handler counts for it; `RotatingWide.cfg` shows that it must. The sums of bytes
over a file are a recursive function of its length; where a fact about them needs
induction, it is by the smallest counterexample.

**WatchedFile.** `WatchedTypesHold`; `FileIsFollowed`, in mode "a". `FollowsFile`
speaks of records that were written; its invariant `WatchedInv` adds that `ino`
belongs to the stream unless one was opened past it (`InoFollows`), that the
stream has had the name since the emit began (`AboutToWrite`), and that a file
nothing names holds only records whose file others removed (`NamelessGone`),
without which the reuse of an inode could lose a record.

**TimedRotatingFile.** For any positive `Hour` and `Day` and any set of summer
times. `TimedTypesHold`: the files that `getFilesToDelete` keeps have different
numbers of newer ones, all below `backupCount` (`FewStay`). In universal time:
`ComputesFirst` says that `computeRollover` gives the first scheduled time from
its argument on, without an `atTime` a later one, by lemmas on quotients and
remainders; `NextIs` the same of a rollover. `UtcInv` is inductive:
`ScheduleFits` (a daily handler waits for the first scheduled time after the
last change of the file, or for that of the change), `NamesFit` (the names given
lie before the period that gets the next), `PeriodFits` (the base file holds
records of that period, and of the second that ends it only if `rollover_at` has a
fraction), `FiledByPeriod` and `LateFits` (each start of the program gives a
fraction once, and a rollover takes it away). Scheduled times are at least a day
or week apart (`WeekApart`), so none is between a record of the base file and
`rollover_at`. `NamesFit` needs that a handler did
not start again on a file last changed at the very time of a rollover: then the
name of the backup just made is given again (section 6). From it
`UtcStaysOnSchedule`, `FilesHoldTheirPeriod` and `UtcBackupsSurvive`. For
midnights in local time (`LocalFits`) `OnSchedule` is not true for every set of summer times: on
a day that skips `atTime` the next rollover is at no scheduled time, and where
`atTime` comes twice one is passed over. `StaysOnSchedule` proves it from
`AtTimesSpared`: the clocks do not change between the times at which `atTime` is
shown in summer and in winter time, and by a day at most. The run's constants are
such (it changes them at 6 and after 13, days are 4 long and `atTime` is 0, 1 or a
whole day), and so are clocks that change at two or three in the morning, for
rollovers at midnight. `LocalNextIs` is its heart: the correction of `doRollover`
lands on the first scheduled time after the rollover, in every season.

**SocketHandler.** `SocketTypesHold`, with the arithmetic of the back-off; and
`StreamsStaySound`, whose invariant also says that emit sends over a socket it
has and connects for want of one (`PlacesFit`). `AttemptsKeepBackingOff`, by
`BackOffFits`: `retryPeriod` is the wait that the number of failed attempts asks
for, which is a power cut off at the limit, and an attempt in progress began no
earlier than that after the last one. `SilenceIsBounded`, by `ClockFits`: as long
as the clock is not set back, `SilenceBounded` holds, which section 6 shows to
fail otherwise.

**FormatStyle.** For every format, style and record. `FragmentsFill`: the walk of
`FormatStyle_init` finds as many fragments as `FormatStyle_new` counted, as behind
each piece there are as many as matches and texts before matches (`WalkFits`).
`FormatsAgree`: the fragments write what Python's formatting writes, and raise
where it raises, if the pieces of the style are plain fields and Python's
conversion of each value is the value that the fragments write (`Alikes`); behind
each piece, what has been found writes the pieces before the cursor (`WalkWrites`),
and joining texts is
associative (`JoinConcat`). Both walks are recursive functions of the place; where
a fact about them needs induction, it is by the smallest counterexample.

**RecordText.** For all formatters, calls, filters and paths of the kinds that
`RecordTextAssumption` lists. `TextInv`: formatters are as `FormatStyle_init`
leaves them (`FormattersFit`), the traceback that a record keeps is that of its
exception (`RecordsFit`), and a hash is in the cache once, with the name of a path
that has it (`CacheFits`); it gives `TextTypeCorrect`. `TextOwn`, by `OwnInv`,
which adds that `hasArgs` still agrees with the arguments and the message, and the
file name with the path (`PartsOwn`). What other formatters left in `message` is
written over before it is read, and so is `asctime` by a format that has it; what
they left in `exc_text` is the traceback that is wanted. Formats whose pieces are
not all `Alike` are left out unless the formatter has defaults; so are names that
speak of other formatters (`Borrowed`). It has two hypotheses, and is false without either: `HashesApart`, that two paths of
one hash have the same last component, as the cache asks for hashes only; and
`FiltersKeepMessages`, that no filter sets `args` to None or a message that wants
arguments, as `hasArgs` is set once and for all; `RecordCleared.cfg` shows the
first half of that. `TextArrivesOnce`, by `ArrivalInv`, needs neither: what was
queued has the finished text for a message, no arguments and no exception
(`QueuedFits`), so the listener's formatters have nothing to add.

**Only model-checked:** the liveness properties (`StopReturns`,
`ApartCallsReturn`), which rest on fairness and ENABLED.

## 9. What is not modelled

* `DatagramHandler`: all but `makeSocket` and `send` is SocketHandler's code; its
  `makeSocket` does not connect and so hardly fails, and a datagram is sent whole
  or not at all, so nothing is left of what `SocketHandler`'s properties say.
* `basicConfig`: reads the root's handlers once and adds its own; nothing happens
  between but that another thread does the same (section 7).
* What `dictConfig` does before its first logger: it makes formatters, filters
  and handlers and resolves names, and touches no logger. Filters of loggers are
  handled as their handlers are.
* The swap of the stream in `StreamHandler.setStream`, one step with the GIL held
  that takes no mutex; its flush is in `HandlerLocking`. Names and levels of
  handlers.
* Of `LogRecord` and `Formatter`: `strftime` and the other formatting of values,
  `__repr__`, pickling, and `formatException`, `formatStack` and `formatTime`
  when the application calls them. Level names and module set-up have no
  behaviour over time.
* `Manager.disable`, an assignment of `Logger.parent` by the application (it can
  make a cycle by itself). `Logger.disabled` is in `DictConfig`; in `Dispatch` the
  pairs in `Enabled` stand for it.
* `namer` and `rotator` of the rotating handlers; several processes on one file;
  `TimedRotatingFile`'s system calls fail nowhere (in `RotatingFile` they do, but
  none fails half way, as a large write may).
* Reference counts and memory.

## 10. Running

    tlc -config LoggerTree.cfg MCLoggerTree
    tlapm LoggerTreeProofs.tla

Each `X.cfg` belongs to the module named in `PROJECT.json` or in section 6.
