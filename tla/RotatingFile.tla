----------------------------- MODULE RotatingFile -----------------------------
(***************************************************************************)
(* RotatingFileHandler and the FileHandler and StreamHandler it is made     *)
(* from: emit tests the size of the file, may shift every backup up by one  *)
(* name, and writes.  Each file system call is a step of its own, so that   *)
(* it may fail, or the process may die, between any two.                    *)
(*                                                                         *)
(* The handler's lock is held throughout emit and close (HandlerLocking),   *)
(* so one call is in progress at a time.  File 0 is baseFilename and file k *)
(* its k-th backup; every file is a regular one.                            *)
(***************************************************************************)
EXTENDS Integers, SequencesExt

CONSTANTS
    maxBytes,
    backupCount,
    mode,        \* "a" or "w"; __init__ makes it "a" when maxBytes > 0
    None,        \* no such file
    Texts,       \* formatted records, as <<characters, bytes in the file>>
    MaxEmits,    \* bound: records logged
    MaxFaults    \* bound: system calls that fail, and crashes

Files == 0 .. backupCount
Records == [id : 1 .. MaxEmits, text : Texts]

ASSUME RotatingAssumption ==
    /\ maxBytes \in Nat /\ backupCount \in Nat
    /\ mode \in {"a", "w"} /\ (maxBytes > 0 => mode = "a")
    /\ Texts \subseteq (Nat \ {0}) \X (Nat \ {0})
    /\ MaxEmits \in Nat /\ MaxFaults \in Nat
    /\ None \notin Seq(Records)

VARIABLES
    disk,              \* the records in each file, or None
    stream,            \* is self.stream an open file, rather than None?
    buffer,            \* what that file object has not handed to the system
    delay,             \* open the stream at the first record
    stream_has_flush,  \* set by StreamHandler.__init__ and setStream alone
    closed,            \* was it left, already closed, by a close that failed?
    pc,                \* where emit is; "idle" between calls, "dead" if crashed
    i,                 \* the loop counter of doRollover
    record,            \* the record being emitted
    written,           \* history: the records written, but for those that
                       \* died in the buffer, with the process or the file
    emits, faults,     \* how many so far
    done               \* history: the call that returned last

files == <<disk, stream, buffer>>
handler == <<delay, stream_has_flush, closed>>
vars == <<files, handler, pc, i, record, written, emits, faults, done>>

(* How long a file of these records is: text[2] of each, added up.          *)
Bytes(s) ==
    LET upto[n \in 0 .. Len(s)] == IF n = 0 THEN 0 ELSE upto[n - 1] + s[n].text[2]
    IN  upto[Len(s)]

(* Mutant: every opening truncates the file.                                *)
OpenedEmpty(d) == [d EXCEPT ![0] = <<>>]

(* _open, in mode "a" or "w".                                               *)
Opened(d) == [d EXCEPT ![0] = IF @ = None \/ mode = "w" THEN <<>> ELSE @]
Synced(d) == [d EXCEPT ![0] = @ \o buffer]

Survivors == SubSeq(written, 1, Len(written) - Len(buffer))

(* A new handler: with delay, StreamHandler.__init__ is not called.         *)
Init ==
    LET none == [k \in Files |-> None]
    IN  /\ delay \in BOOLEAN
        /\ disk = IF delay THEN none ELSE Opened(none)
        /\ stream = ~ delay /\ buffer = <<>>
        /\ stream_has_flush = ~ delay /\ closed = FALSE
        /\ pc = "idle" /\ i = 0 /\ record = None
        /\ written = <<>> /\ emits = 0 /\ faults = 0 /\ done = "init"

-----------------------------------------------------------------------------
Goto(label) == pc' = label /\ UNCHANGED <<record, emits, faults, done>>

Return(call) == pc' = "idle" /\ record' = None /\ done' = call

(* BaseRotatingHandler.emit                                                 *)
Emit(text) ==
    /\ pc = "idle" /\ emits < MaxEmits
    /\ emits' = emits + 1
    /\ record' = [id |-> emits + 1, text |-> text]
    /\ pc' = "ask"
    /\ UNCHANGED <<files, handler, i, written, faults, done>>

(* Mutant: the limit is exceeded rather than reached.                       *)
TooLongBeyond(content) ==
    maxBytes > 0 /\ Bytes(content) + record.text[1] > maxBytes

TooLong(content) ==
    maxBytes > 0 /\ Bytes(content) + record.text[1] >= maxBytes

(* shouldRollover opens the file; seek(0, 2) empties the buffer, and        *)
(* self.stream.tell(), in bytes, is added to len(msg), in characters.       *)
ShouldRollover ==
    LET open == IF stream THEN disk ELSE Opened(disk)
        now  == IF maxBytes > 0 THEN Synced(open) ELSE open
    IN  /\ pc = "ask" /\ ~ closed
        /\ disk' = now /\ stream' = TRUE
        /\ buffer' = IF maxBytes > 0 THEN <<>> ELSE buffer
        /\ Goto(IF TooLong(now[0]) THEN "rollover" ELSE "write")
        /\ UNCHANGED <<handler, i, written>>

(* The seek of a file object that is closed raises, and emit hands that to  *)
(* handleError, which prints nothing, and returns.                          *)
SeekClosed ==
    /\ pc = "ask" /\ closed
    /\ Return("handleError")
    /\ UNCHANGED <<files, handler, i, written, emits, faults>>

(* doRollover: self.stream.close(), ...                                     *)
CloseStream ==
    /\ pc = "rollover"
    /\ disk' = Synced(disk) /\ stream' = FALSE /\ buffer' = <<>>
    /\ i' = IF backupCount > 0 THEN backupCount - 1 ELSE i
    /\ Goto(IF backupCount > 0 THEN "shift" ELSE "reopen")
    /\ UNCHANGED <<handler, written>>

(* ... then every file i, the base file last, takes the name of file i + 1. *)
Due == pc = "shift" /\ (i = 0 \/ disk[i] # None)

(* Mutant: the range of the loop runs past its end.                         *)
NextFileBelow ==
    /\ i' = i - 1
    /\ Goto(IF i = 0 THEN "reopen" ELSE "shift")
    /\ UNCHANGED <<stream, buffer, handler, written>>

NextFile ==
    /\ i' = IF i = 0 THEN 0 ELSE i - 1
    /\ Goto(IF i = 0 THEN "reopen" ELSE "shift")
    /\ UNCHANGED <<stream, buffer, handler, written>>

RemoveFile ==
    /\ Due /\ disk[i + 1] # None
    /\ disk' = [disk EXCEPT ![i + 1] = None]
    /\ UNCHANGED <<stream, buffer, handler, pc, i, record, written,
                   emits, faults, done>>

RenameFile ==
    /\ Due /\ disk[i + 1] = None
    /\ disk' = [disk EXCEPT ![i + 1] = disk[i], ![i] = None]
    /\ NextFile

SkipFile == pc = "shift" /\ ~ Due /\ disk' = disk /\ NextFile

(* if not self.delay: self.stream = self._open()                            *)
Reopen ==
    /\ pc = "reopen"
    /\ disk' = IF delay THEN disk ELSE Opened(disk)
    /\ stream' = ~ delay
    /\ Goto("write")
    /\ UNCHANGED <<buffer, handler, i, written>>

(* FileHandler.emit and StreamHandler.emit, whose flush does nothing while  *)
(* stream_has_flush is false.                                               *)
Write ==
    LET open == IF stream THEN disk ELSE Opened(disk)
        text == Append(buffer, record)
    IN  /\ pc = "write"
        /\ disk' = IF stream_has_flush THEN [open EXCEPT ![0] = @ \o text] ELSE open
        /\ buffer' = IF stream_has_flush THEN <<>> ELSE text
        /\ stream' = TRUE
        /\ written' = Append(written, record)
        /\ Return("emit")
        /\ UNCHANGED <<handler, i, emits, faults>>

(* A system call fails, and emit returns by handleError: one that opens,    *)
(* removes or renames a file, ...                                           *)
Fails(outcome) == faults < MaxFaults /\ faults' = faults + 1 /\ Return(outcome)

CanFail ==
    \/ pc \in {"ask", "write"} /\ ~ stream
    \/ Due
    \/ pc = "reopen" /\ ~ delay

Fail ==
    /\ CanFail /\ Fails("handleError")
    /\ UNCHANGED <<files, handler, i, written, emits>>

(* ... the seek or the write, on a file that may just have been opened, ... *)
UseFails ==
    /\ pc = "write" \/ (pc = "ask" /\ maxBytes > 0 /\ ~ closed)
    /\ Fails("handleError")
    /\ disk' = IF stream THEN disk ELSE Opened(disk)
    /\ stream' = TRUE
    /\ UNCHANGED <<buffer, handler, i, written, emits>>

(* ... the close of doRollover, which closes the file all the same but      *)
(* keeps its object in self.stream (the seek has emptied the buffer), ...   *)
CloseStreamFails ==
    /\ pc = "rollover" /\ Fails("handleError")
    /\ closed' = TRUE
    /\ UNCHANGED <<files, delay, stream_has_flush, i, written, emits>>

(* ... or the flush, when the text is in the buffer: flush swallows its     *)
(* result, not the exception, and emit raises SystemError.                  *)
FlushOfEmitFails ==
    /\ pc = "write" /\ stream_has_flush /\ Fails("handleError")
    /\ disk' = IF stream THEN disk ELSE Opened(disk)
    /\ stream' = TRUE
    /\ buffer' = Append(buffer, record) /\ written' = Append(written, record)
    /\ UNCHANGED <<handler, i, emits>>

-----------------------------------------------------------------------------
(* StreamHandler.flush, which raises over a file that is closed.            *)
Raises == closed /\ stream_has_flush

Flush ==
    /\ pc = "idle" /\ stream
    /\ disk' = IF stream_has_flush THEN Synced(disk) ELSE disk
    /\ buffer' = IF stream_has_flush THEN <<>> ELSE buffer
    /\ Return(IF Raises THEN "raised" ELSE "flush")
    /\ UNCHANGED <<stream, handler, i, written, emits, faults>>

FlushFails ==
    /\ pc = "idle" /\ stream /\ stream_has_flush /\ ~ closed /\ Fails("raised")
    /\ UNCHANGED <<files, handler, i, written, emits>>

(* FileHandler.close: the file object writes its buffer when it is closed,  *)
(* though the flush before may have failed, and loses it when that fails    *)
(* too; either way self.stream is None.                                     *)
Close ==
    /\ pc = "idle" /\ stream
    /\ disk' = Synced(disk) /\ stream' = FALSE /\ buffer' = <<>>
    /\ closed' = FALSE
    /\ Return(IF Raises THEN "raised" ELSE "close")
    /\ UNCHANGED <<delay, stream_has_flush, i, written, emits, faults>>

FlushOfCloseFails ==
    /\ pc = "idle" /\ stream /\ stream_has_flush /\ ~ closed /\ Fails("raised")
    /\ disk' = Synced(disk) /\ stream' = FALSE /\ buffer' = <<>>
    /\ UNCHANGED <<handler, i, written, emits>>

CloseFails ==
    /\ pc = "idle" /\ stream /\ ~ closed /\ Fails("raised")
    /\ stream' = FALSE /\ buffer' = <<>> /\ written' = Survivors
    /\ UNCHANGED <<disk, handler, i, emits>>

(* The process dies, and its buffer with it; later it starts again.         *)
Crash ==
    /\ pc # "dead" /\ faults < MaxFaults
    /\ faults' = faults + 1
    /\ stream' = FALSE /\ buffer' = <<>> /\ written' = Survivors
    /\ closed' = FALSE
    /\ pc' = "dead" /\ record' = None /\ i' = 0 /\ done' = "crash"
    /\ UNCHANGED <<disk, delay, stream_has_flush, emits>>

(* Mutant: __init__ leaves stream_has_flush as __new__ set it.              *)
RestartUnflagged ==
    /\ pc = "dead"
    /\ disk' = IF delay THEN disk ELSE Opened(disk)
    /\ stream' = ~ delay /\ stream_has_flush' = FALSE
    /\ Return("init")
    /\ UNCHANGED <<delay, closed, buffer, i, written, emits, faults>>

Restart ==
    /\ pc = "dead"
    /\ disk' = IF delay THEN disk ELSE Opened(disk)
    /\ stream' = ~ delay /\ stream_has_flush' = ~ delay
    /\ Return("init")
    /\ UNCHANGED <<delay, closed, buffer, i, written, emits, faults>>

Next ==
    \/ \E text \in Texts : Emit(text)
    \/ ShouldRollover \/ SeekClosed
    \/ CloseStream \/ RemoveFile \/ RenameFile \/ SkipFile \/ Reopen \/ Write
    \/ Fail \/ UseFails \/ CloseStreamFails \/ FlushOfEmitFails
    \/ Flush \/ FlushFails \/ Close \/ FlushOfCloseFails \/ CloseFails
    \/ Crash \/ Restart

Spec == Init /\ [][Next]_vars

-----------------------------------------------------------------------------
TypeOK ==
    /\ disk \in [Files -> Seq(Records) \cup {None}]
    /\ delay \in BOOLEAN /\ stream \in BOOLEAN /\ stream_has_flush \in BOOLEAN
    /\ closed \in BOOLEAN
    /\ buffer \in Seq(Records) /\ (~ stream \/ closed => buffer = <<>>)
    /\ pc \in {"idle", "ask", "rollover", "shift", "reopen", "write", "dead"}
    /\ i \in Nat
    /\ record \in Records \cup {None}
    /\ written \in Seq(Records)
    /\ emits \in 0 .. MaxEmits /\ faults \in 0 .. MaxFaults
    /\ done \in {"init", "emit", "handleError", "flush", "close", "raised", "crash"}

Held(d, k) == IF d[k] = None THEN <<>> ELSE d[k]
Content(k) == Held(disk, k)

(* File k of d holds what of s comes after cut[k + 1], up to cut[k], and b  *)
(* the rest of s.                                                           *)
Cuts(s) ==
    {cut \in [0 .. backupCount + 1 -> 0 .. Len(s)] :
        \A k \in Files : cut[k + 1] <= cut[k]}

Unbroken(d, b, s) ==
    \E cut \in Cuts(s) :
        /\ b = SubSeq(s, cut[0] + 1, Len(s))
        /\ \A k \in Files : Held(d, k) = SubSeq(s, cut[k + 1] + 1, cut[k])

(* Read from the highest backup down to the base file, the files always     *)
(* hold an unbroken run of the records written, up to the very last one: at *)
(* no point of a rollover, however it fails and is tried again, is a record *)
(* lost, repeated or put out of order but by dropping the oldest.  While    *)
(* nothing fails, the last record written is among them; in mode "w" it is  *)
(* not once close has been called and the file is opened again.             *)
UnbrokenHistory ==
    /\ Unbroken(disk, buffer, written)
    /\ faults = 0 /\ mode = "a" /\ written # <<>> =>
          buffer # <<>> \/ \E k \in Files : Content(k) # <<>>

(* No file that a rollover leaves grows to maxBytes, unless by one record   *)
(* that is as large by itself.                                              *)
SizesBounded ==
    maxBytes > 0 /\ backupCount > 0 =>
        \A k \in Files :
            Len(Content(k)) > 1 => Bytes(Content(k)) < maxBytes

(* When emit, flush or close has returned, what was written is in the file  *)
(* and no longer depends on this process; with delay, when close has.  A    *)
(* flush that fails leaves it to the next that does not.                    *)
ReturnedIsOnFile ==
    done \in (IF delay THEN {"close"} ELSE {"emit", "flush", "close"})
        => buffer = <<>>

(* flush() leaves nothing in the buffer: "Flush the stream."                *)
FlushFlushes == done = "flush" => buffer = <<>>

(* A record is refused for a call of its own that fails, not for one that   *)
(* failed long before (handlers.py:204).                                    *)
RefusedForFaults ==
    [][pc # "idle" /\ done' = "handleError" /\ pc' = "idle" => faults' > faults]_vars

(* "Rollover occurs whenever the current log file is nearly maxBytes in     *)
(* length": a backup holds something.                                       *)
BackupsHoldRecords == \A k \in Files \ {0} : disk[k] # <<>>
==============================================================================
