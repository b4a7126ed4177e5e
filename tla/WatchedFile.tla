----------------------------- MODULE WatchedFile -----------------------------
(***************************************************************************)
(* WatchedFileHandler (handlers.py) over FileHandler (__init__.py), while    *)
(* other programs move, remove and make the file under the handler's name   *)
(* between any two of its system calls.  Files are the inodes of one        *)
(* device; an inode that no name and no stream holds is used again.         *)
(***************************************************************************)
EXTENDS Integers, Sequences, FiniteSets, SequencesExt

CONSTANTS
    Inodes,
    mode,        \* "a" or "w"
    Delays,      \* the values of delay
    MaxRecords,  \* a bound on the records
    MaxFaults,   \* a bound on failed opens and on close() calls
    None

ASSUME WatchedAssumption ==
    /\ None \notin Inodes /\ mode \in {"a", "w"}
    /\ Delays \subseteq BOOLEAN
    /\ MaxRecords \in Nat /\ MaxFaults \in Nat

VARIABLES
    named,    \* the file under baseFilename, or None
    moved,    \* the files under other names
    content,  \* the records in each file
    stream,   \* the file the handler has open, or None
    buffer,   \* what is written to the stream and not flushed
    hasFlush, \* stream_has_flush, which delay leaves false
    ino,      \* self.dev and self.ino; None is -1
    pc,       \* "idle", "open" or "emit"
    faults,   \* failed opens and close() calls so far
    done,     \* history: the records emitted
    removed,  \* history: the records in files that others removed
    names,    \* history: the files under the name since the latest emit began
    target,   \* history: the file the latest record went to, or None
    blind     \* history: whether a stream was opened past _statstream

files == <<named, moved, content>>
handler == <<stream, buffer, hasFlush, ino>>
vars == <<files, handler, pc, faults, done, removed, names, target, blind>>

Free == Inodes \ ({named, stream} \cup moved)

Fresh == IF named = None THEN Free ELSE {named}

(* open(baseFilename, mode): the file of that name, or a new one.           *)
Open(i) ==
    /\ i \in Fresh
    /\ named' = i /\ stream' = i
    /\ content' = [content EXCEPT ![i] = IF named = i /\ mode = "a" THEN @ ELSE <<>>]
    /\ names' = names \cup {i}
    /\ UNCHANGED moved

Init ==
    /\ hasFlush \in {~ delay : delay \in Delays}
    /\ moved = {} /\ content = [i \in Inodes |-> <<>>]
    /\ \E i \in Inodes :
          IF hasFlush THEN named = i /\ stream = i /\ ino = i
          ELSE named = None /\ stream = None /\ ino = None
    /\ buffer = <<>> /\ pc = "idle" /\ faults = 0
    /\ done = 0 /\ removed = {} /\ names = {} /\ target = None /\ blind = FALSE

-----------------------------------------------------------------------------
Flushed == IF stream = None THEN content
           ELSE [content EXCEPT ![stream] = @ \o buffer]

(* Mutant: the stream is dropped without a flush.                           *)
StatWithoutFlush ==
    /\ pc = "idle" /\ done < MaxRecords
    /\ names' = {named} /\ target' = None
    /\ IF stream # None /\ (named = None \/ named # ino)
       THEN buffer' = <<>> /\ stream' = None /\ pc' = "open"
       ELSE pc' = "emit" /\ UNCHANGED <<stream, buffer>>
    /\ UNCHANGED <<files, hasFlush, ino, faults, done, removed, blind>>

(* emit(record) and reopenIfNeeded as far as the close of the old stream.   *)
Stat ==
    /\ pc = "idle" /\ done < MaxRecords
    /\ names' = {named} /\ target' = None
    /\ IF stream # None /\ (named = None \/ named # ino)
       THEN /\ content' = Flushed /\ buffer' = <<>> /\ stream' = None
            /\ pc' = "open"
       ELSE pc' = "emit" /\ UNCHANGED <<content, stream, buffer>>
    /\ UNCHANGED <<named, moved, hasFlush, ino, faults, done, removed, blind>>

Reopen(i) ==
    /\ pc = "open"
    /\ Open(i)
    /\ ino' = i
    /\ pc' = "emit"
    /\ UNCHANGED <<buffer, hasFlush, faults, done, removed, target, blind>>

(* open raises, from reopenIfNeeded or from FileHandler.emit.               *)
OpenFails ==
    /\ pc = "open" \/ (pc = "emit" /\ stream = None)
    /\ faults < MaxFaults
    /\ faults' = faults + 1
    /\ pc' = "idle"
    /\ UNCHANGED <<files, handler, done, removed, names, target, blind>>

(* FileHandler.emit without a stream opens one, and ino stays what it was.  *)
OpenLate(i) ==
    /\ pc = "emit" /\ stream = None
    /\ Open(i)
    /\ blind' = (blind \/ ino # None)
    /\ UNCHANGED <<buffer, hasFlush, ino, pc, faults, done, removed, target>>

(* StreamHandler.emit: write, and flush if stream_has_flush.                *)
Write ==
    /\ pc = "emit" /\ stream # None
    /\ done' = done + 1
    /\ IF hasFlush
       THEN content' = [content EXCEPT ![stream] = Append(@, done')] /\ UNCHANGED buffer
       ELSE buffer' = Append(buffer, done') /\ UNCHANGED content
    /\ removed' = IF stream \in moved \cup {named} THEN removed ELSE removed \cup {done'}
    /\ target' = stream
    /\ pc' = "idle"
    /\ UNCHANGED <<named, moved, stream, hasFlush, ino, faults, names, blind>>

(* Mutant: close() drops the stream with what is still in its buffer.       *)
CloseWithoutFlush ==
    /\ pc = "idle" /\ stream # None /\ faults < MaxFaults
    /\ faults' = faults + 1
    /\ stream' = None /\ target' = None
    /\ UNCHANGED <<files, buffer, hasFlush, ino, pc, done, removed, names, blind>>

(* FileHandler.close; a later emit opens the file again.                    *)
Close ==
    /\ pc = "idle" /\ stream # None /\ faults < MaxFaults
    /\ faults' = faults + 1
    /\ content' = Flushed /\ buffer' = <<>> /\ stream' = None
    /\ target' = None
    /\ UNCHANGED <<named, moved, hasFlush, ino, pc, done, removed, names, blind>>

-----------------------------------------------------------------------------
(* newsyslog, logrotate and the like.                                       *)
Move ==
    /\ named # None
    /\ moved' = moved \cup {named} /\ named' = None
    /\ names' = names \cup {None}
    /\ UNCHANGED <<content, handler, pc, faults, done, removed, target, blind>>

Unlink(i) ==
    /\ i \in moved
    /\ moved' = moved \ {i}
    /\ removed' = removed \cup Range(content[i])
                          \cup (IF i = stream THEN Range(buffer) ELSE {})
    /\ UNCHANGED <<named, content, handler, pc, faults, done, names, target, blind>>

Make(i) ==
    /\ named = None /\ i \in Free
    /\ named' = i
    /\ content' = [content EXCEPT ![i] = <<>>]
    /\ names' = names \cup {i}
    /\ UNCHANGED <<moved, handler, pc, faults, done, removed, target, blind>>

Next ==
    \/ Stat \/ OpenFails \/ Write \/ Close \/ Move
    \/ \E i \in Inodes : Reopen(i) \/ OpenLate(i) \/ Unlink(i) \/ Make(i)

Spec == Init /\ [][Next]_vars

-----------------------------------------------------------------------------
TypeOK ==
    /\ named \in Inodes \cup {None}
    /\ moved \subseteq Inodes \ {named}
    /\ content \in [Inodes -> Seq(1 .. MaxRecords)]
    /\ stream \in Inodes \cup {None}
    /\ buffer \in Seq(1 .. MaxRecords) /\ (stream = None \/ hasFlush => buffer = <<>>)
    /\ hasFlush \in BOOLEAN /\ blind \in BOOLEAN
    /\ ino \in Inodes \cup {None}
    /\ pc \in {"idle", "open", "emit"}
    /\ faults \in 0 .. MaxFaults /\ done \in 0 .. MaxRecords
    /\ removed \subseteq 1 .. MaxRecords
    /\ names \subseteq Inodes \cup {None} /\ target \in Inodes \cup {None}

(* A record goes to a file that had the handler's name at some moment of    *)
(* its emit.                                                                *)
WrittenAtName == target # None => target \in names

(* Every record is in a file or in the buffer of the stream, unless others  *)
(* removed that file.                                                       *)
Kept ==
    \A r \in 1 .. done :
        \/ r \in removed \cup Range(buffer)
        \/ \E i \in Inodes : r \in Range(content[i])

(* As long as no stream was opened past _statstream once an inode was seen  *)
(* (after a close or an open that failed), every record goes to a file that *)
(* had the handler's name while it was emitted; and in mode "a" no record   *)
(* is lost to a reopened or closed stream (handlers.py:46, 63).             *)
FollowsFile == (~ blind => WrittenAtName) /\ Kept
=============================================================================
