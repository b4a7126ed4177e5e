--------------------------- MODULE TimedRotatingFile ---------------------------
(***************************************************************************)
(* handlers.py, TimedRotatingFileHandler: when it rolls over, the names it  *)
(* gives the files, and which of them it deletes, through changes between   *)
(* winter and summer time and restarts of the program.                      *)
(*                                                                         *)
(* emit runs under the handler's lock and is one step; system calls that    *)
(* fail are the subject of RotatingFile.  The date in the name of a file is *)
(* the number of its hour or day: the suffixes sort as these numbers do.    *)
(* Times are whole seconds, as int(time.time()) and localtime() take them.  *)
(* The time of change of a file is not: a rollover computed from it is due  *)
(* in the course of a second, and `fraction' says whether it is.            *)
(***************************************************************************)
EXTENDS Integers, FiniteSets, Functions

CONSTANTS
    Configs,     \* what the application may pass to __init__
    Starts,      \* the times at which the program may first start
    Summer,      \* the times at which localtime() says tm_isdst
    Hour, Day,   \* 3600 and _MIDNIGHT: without an atTime, rotate_ts is
                 \* _MIDNIGHT
    Horizon,     \* bound: the last time
    MaxEmits,    \* bound: records logged
    MaxRestarts, \* bound: restarts of the program
    NoFile       \* no file

ASSUME TimedAssumption ==
    /\ Hour \in Nat \ {0} /\ Day \in Nat \ {0}
    /\ Horizon \in Nat /\ MaxEmits \in Nat /\ MaxRestarts \in Nat
    /\ Starts \subseteq 0 .. Horizon
    /\ Configs \subseteq
          [when : {"H", "D", "MIDNIGHT", "W"}, interval : Nat \ {0},
           atTime : 0 .. Day, dayOfWeek : 0 .. 6, utc : BOOLEAN,
           delay : BOOLEAN, backupCount : Nat]

VARIABLES
    config,       \* the attributes __init__ takes from its arguments
    now,          \* the clock
    rollover_at,  \* TimedRotatingFileHandler.rollover_at, its whole seconds
    fraction,     \* 1 if rollover_at has a fraction of a second, or else 0
    base,         \* the times of the records in the base file, or NoFile
    mtime,        \* the time of the last change of the base file
    backups,      \* the times of the records in each rolled over file
    exact,        \* history: whether the program has started again on a file
                  \* last changed at the very atTime of a rollover
    missed,       \* history: whether it has on a file last changed in the very
                  \* second in which its rollover was due
    emits,        \* history: how many records have been logged
    restarts      \* history: how often the program has started again

timedVars == <<config, now, rollover_at, fraction, base, mtime, backups,
               exact, missed, emits, restarts>>

when == config.when
utc == config.utc
Daily == when \in {"MIDNIGHT", "W"}

(* The unit of the suffix, and the seconds between rollovers.               *)
Unit == IF when = "H" THEN Hour ELSE Day
interval == config.interval * (IF when = "W" THEN 7 * Day ELSE Unit)

(* time.gmtime or time.localtime; time 0 is the midnight before a Monday.   *)
IsSummer(t) == t \in Summer
Local(t) == IF ~ utc /\ IsSummer(t) THEN t + Hour ELSE t
WeekDay(t) == (Local(t) \div Day) % 7

(* What the code adds to b when the clocks change between a and b.          *)
Correction(a, b) ==
    IF utc \/ (IsSummer(a) <=> IsSummer(b)) THEN 0
    ELSE IF IsSummer(a) THEN Hour ELSE - Hour

-----------------------------------------------------------------------------
(* Mutant: a time that has passed today is looked for today.                *)
computeRolloverToday(t) ==
    LET r      == config.atTime - (Local(t) % Day)
        result == t + (IF r < 0 THEN r + Day ELSE r)
        next   == result + ((config.dayOfWeek - WeekDay(t)) % 7) * Day
    IN  IF ~ Daily THEN t + interval
        ELSE IF when = "MIDNIGHT" \/ WeekDay(t) = config.dayOfWeek THEN result
        ELSE next + Correction(t, next)

computeRollover(t) ==
    LET r      == config.atTime - (Local(t) % Day)
        result == t + (IF r < 0 THEN r + Day ELSE r)
        day    == (WeekDay(t) + (IF r < 0 THEN 1 ELSE 0)) % 7
        next   == result + ((config.dayOfWeek - day) % 7) * Day
    IN  IF ~ Daily THEN t + interval
        ELSE IF when = "MIDNIGHT" \/ day = config.dayOfWeek THEN result
        ELSE next + Correction(t, next)

(* The times to roll over at: atTime, or without one the midnight that ends *)
(* the day; and on the given day of the week.                               *)
Scheduled(t) ==
    /\ Local(t) % Day = config.atTime % Day
    /\ when = "W" =>
          WeekDay(t) = (config.dayOfWeek + config.atTime \div Day) % 7

-----------------------------------------------------------------------------
(* __init__ of a program's first handler, with no file there yet: without   *)
(* delay it opens one, at any moment of the second.                         *)
TimedInit ==
    /\ config \in Configs
    /\ now \in Starts
    /\ base = IF config.delay THEN NoFile ELSE {}
    /\ mtime = now
    /\ rollover_at = computeRollover(mtime)
    /\ fraction \in IF config.delay THEN {0} ELSE {0, 1}
    /\ backups = <<>>
    /\ exact = FALSE
    /\ missed = FALSE
    /\ emits = 0
    /\ restarts = 0

Tick ==
    /\ now < Horizon
    /\ now' = now + 1
    /\ UNCHANGED <<config, rollover_at, fraction, base, mtime, backups, exact,
                   missed, emits, restarts>>

-----------------------------------------------------------------------------
(* int(time.time()) is at least rollover_at one second late if that has a   *)
(* fraction.                                                                *)
shouldRollover == now >= rollover_at + fraction

(* Mutant: the file is named for the time of the rollover.                  *)
DestinationNow == Local(now) \div Unit

(* The file is named for rollover_at less the interval.                     *)
Destination ==
    LET t == rollover_at - interval
    IN  Local(t + Correction(now, t)) \div Unit

(* A file of that name is removed, and the base file renamed if it exists.  *)
Rotated ==
    [f \in (DOMAIN backups \ {Destination})
           \cup (IF base = NoFile THEN {} ELSE {Destination}) |->
        IF f = Destination THEN base ELSE backups[f]]

(* Mutants: one file too many is kept; the newest files are deleted.        *)
FilesToKeepOneMore(files) ==
    {f \in files : Cardinality({g \in files : g > f}) > config.backupCount}

FilesToDeleteNewest(files) ==
    {f \in files : Cardinality({g \in files : g < f}) >= config.backupCount}

(* getFilesToDelete: all but the last backupCount names.                    *)
FilesToDelete(files) ==
    {f \in files : Cardinality({g \in files : g > f}) >= config.backupCount}

NextRollover ==
    LET n    == computeRollover(now)
        next == IF n > now THEN n
                ELSE n + ((now - n) \div interval + 1) * interval
    IN  IF Daily THEN next + Correction(now, next) ELSE next

doRollover ==
    LET files   == DOMAIN Rotated
        deleted == IF config.backupCount > 0 THEN FilesToDelete(files) ELSE {}
    IN  /\ backups' = Restrict(Rotated, files \ deleted)
        /\ rollover_at' = NextRollover
        /\ fraction' = 0

Recorded == IF base = NoFile THEN {} ELSE base

(* emit: the record goes to the base file, a new one after a rollover.      *)
Emit ==
    /\ emits < MaxEmits
    /\ IF shouldRollover
       THEN doRollover /\ base' = {now}
       ELSE /\ base' = Recorded \cup {now}
            /\ UNCHANGED <<backups, rollover_at, fraction>>
    /\ mtime' = now
    /\ emits' = emits + 1
    /\ UNCHANGED <<config, now, exact, missed, restarts>>

-----------------------------------------------------------------------------
(* The program ends and makes the handler again, on the file as it was left *)
(* or, if there is none, as it did first.  With delay the records may have  *)
(* been in the buffer of the file until the program ended.  The file may    *)
(* have been changed at any moment of its second, time.time() is cut off.   *)
Restart ==
    /\ restarts < MaxRestarts
    /\ restarts' = restarts + 1
    /\ mtime' \in IF base = NoFile THEN {now}
                 ELSE IF config.delay THEN {mtime, now} ELSE {mtime}
    /\ rollover_at' = computeRollover(mtime')
    /\ fraction' \in IF base = NoFile THEN {0} ELSE {0, 1}
    /\ exact' = (exact \/ (Daily /\ config.atTime < Day /\ Scheduled(mtime')))
    /\ missed' = (missed \/ (Daily /\ mtime' = rollover_at))
    /\ UNCHANGED <<config, now, base, backups, emits>>

TimedNext == Tick \/ Emit \/ Restart

TimedSpec == TimedInit /\ [][TimedNext]_timedVars

-----------------------------------------------------------------------------
(* With it: "no more than backupCount files are kept".                      *)
TimedTypeOK ==
    /\ config \in Configs
    /\ now \in 0 .. Horizon
    /\ rollover_at \in Int /\ fraction \in {0, 1}
    /\ base = NoFile \/ base \subseteq 0 .. now
    /\ mtime \in 0 .. now
    /\ \A f \in DOMAIN backups : f \in Int /\ backups[f] \subseteq 0 .. now
    /\ config.backupCount > 0 => Cardinality(DOMAIN backups) <= config.backupCount
    /\ exact \in BOOLEAN /\ missed \in BOOLEAN
    /\ emits \in 0 .. MaxEmits /\ restarts \in 0 .. MaxRestarts

(* A handler that has rolled over will do so again at a scheduled time (to  *)
(* the second if it has not been made again), and the base file stays open  *)
(* over none: in universal time, and for rollovers at midnight also across  *)
(* changes of the clocks as long as the program is not restarted.  Restarts *)
(* on a file changed in the very second of a rollover are excluded, and     *)
(* records that delay kept in memory count as of when they were written.    *)
OnSchedule ==
    /\ Daily /\ DOMAIN backups # {} /\ ~ exact /\ ~ missed
    /\ utc \/ (when = "MIDNIGHT" /\ restarts = 0)
    => /\ Scheduled(rollover_at) /\ (restarts = 0 => fraction = 0)
       /\ config.interval = 1 =>
             \A s \in IF config.delay /\ restarts > 0 THEN {mtime} ELSE Recorded :
                \A t \in s + 1 .. rollover_at - 1 : ~ Scheduled(t)

(* The seconds from the start of the period a file is named for to a record *)
(* in it.                                                                   *)
Age(t, f) == Local(t) - (IF Daily THEN config.atTime % Day ELSE 0) - f * Unit

(* A restart puts off rollovers that are not daily.                         *)
Orderly ==
    /\ utc /\ ~ exact /\ ~ missed
    /\ IF Daily THEN config.interval = 1 ELSE restarts = 0
    /\ config.delay => restarts = 0

(* The files with a record of the period after theirs.                      *)
Overdue == {f \in DOMAIN backups : \E t \in backups[f] : Age(t, f) >= interval}

(* A file holds the records of the period it is named for ("you want the    *)
(* file to be named for the start of the interval", doRollover), in         *)
(* universal time, and at most those of the first second of the next: of    *)
(* the files of daily rollovers only one for each start of the program has  *)
(* any of these.                                                            *)
FiledByPeriod ==
    Orderly =>
        /\ \A f \in DOMAIN backups : \A t \in backups[f] :
              Age(t, f) \in 0 .. interval + (IF Daily THEN 0 ELSE Unit - 1)
        /\ Daily => Cardinality(Overdue) <= 1 + restarts

(* No file holds a record of the next period (computeRollover: "to trigger  *)
(* the first rollover at the right time").                                  *)
FiledExactly == Orderly /\ Daily => Overdue = {}

(* The base file stays open over no scheduled time.                         *)
NonePassedOver ==
    utc /\ Daily /\ ~ config.delay /\ config.interval = 1 /\ ~ exact =>
        \A s \in Recorded : \A t \in s + 1 .. rollover_at - 1 : ~ Scheduled(t)

(* A rollover keeps the base file under another name, and a rolled over     *)
(* file keeps its records, until it is the oldest and there are backupCount *)
(* newer ones ("the oldest ones are deleted"), ...                          *)
KeptOrOldest(f) ==
    \/ backups[f] = {}
    \/ f \in DOMAIN backups' /\ backups'[f] = backups[f]
    \/ /\ config.backupCount > 0
       /\ Cardinality({g \in DOMAIN backups' : g > f}) = config.backupCount

BaseKept == base = NoFile \/ base \subseteq base' \/ base \in Range(backups')

BackupsSurvive ==
    [][BaseKept /\ \A f \in DOMAIN backups : KeptOrOldest(f)]_timedVars

(* ... in universal time and with no restart on a file last changed at the  *)
(* very atTime of a rollover.                                               *)
BackupsSurviveInUtc ==
    [][utc /\ ~ exact =>
          BaseKept /\ \A f \in DOMAIN backups : KeptOrOldest(f)]_timedVars
================================================================================
