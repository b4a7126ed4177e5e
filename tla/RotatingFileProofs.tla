-------------------------- MODULE RotatingFileProofs --------------------------
(***************************************************************************)
(* Proofs about RotatingFile for any limits, texts, faults and crashes: its *)
(* types, when what was written no longer depends on the process, that the  *)
(* files hold an unbroken run of the records written, and how large a file  *)
(* may grow.                                                                *)
(***************************************************************************)
EXTENDS RotatingFile, SequenceTheorems, WellFoundedInduction, TLAPS

(* Where a step of a rollover finds the stream and the loop's counter.      *)
StepsFit ==
    /\ stream => disk[0] \in Seq(Records)
    /\ pc = "idle" => record = None
    /\ pc \in {"ask", "rollover", "shift", "reopen", "write"} => record \in Records
    /\ pc = "rollover" => stream /\ buffer = <<>>
    /\ pc \notin {"idle", "ask"} => ~ closed
    /\ pc \in {"shift", "reopen", "dead"} => ~ stream
    /\ pc = "shift" => i \in 0 .. backupCount - 1

(* Only a handler made with delay leaves records in the buffer, or a flush  *)
(* that fails, and not once close has returned.                             *)
BufferFits ==
    /\ stream_has_flush = ~ delay
    /\ ~ delay /\ done \notin {"handleError", "raised"} => buffer = <<>>
    /\ done = "close" => buffer = <<>>

-----------------------------------------------------------------------------
LEMMA EmptyRecords == <<>> \in Seq(Records)
  BY EmptySeq

LEMMA OpenedTyped ==
    ASSUME NEW d \in [Files -> Seq(Records) \cup {None}]
    PROVE  /\ Opened(d) \in [Files -> Seq(Records) \cup {None}]
           /\ Opened(d)[0] \in Seq(Records)
  <1>1. 0 \in Files
    BY RotatingAssumption DEF RotatingAssumption, Files
  <1> QED
    BY <1>1, EmptyRecords DEF Opened

LEMMA SyncedTyped ==
    ASSUME NEW d \in [Files -> Seq(Records) \cup {None}], d[0] \in Seq(Records),
           NEW s \in Seq(Records)
    PROVE  /\ [d EXCEPT ![0] = @ \o s] \in [Files -> Seq(Records) \cup {None}]
           /\ [d EXCEPT ![0] = @ \o s][0] \in Seq(Records)
  <1>1. 0 \in Files
    BY RotatingAssumption DEF RotatingAssumption, Files
  <1>2. d[0] \o s \in Seq(Records)
    BY ConcatProperties
  <1> QED
    BY <1>1, <1>2

LEMMA RotatingInit == Init => TypeOK /\ StepsFit /\ BufferFits
  <1> SUFFICES ASSUME Init PROVE TypeOK /\ StepsFit /\ BufferFits
    OBVIOUS
  <1> DEFINE none == [k \in Files |-> None]
  <1>1. /\ none \in [Files -> Seq(Records) \cup {None}]
        /\ disk = IF delay THEN none ELSE Opened(none)
    BY DEF Init
  <1>2. disk \in [Files -> Seq(Records) \cup {None}]
    BY <1>1, OpenedTyped
  <1>3. ~ delay => disk[0] \in Seq(Records)
    BY <1>1, OpenedTyped
  <1>4. delay \in BOOLEAN /\ stream \in BOOLEAN /\ stream_has_flush \in BOOLEAN
    BY DEF Init
  <1>5. emits \in 0 .. MaxEmits /\ faults \in 0 .. MaxFaults
    BY RotatingAssumption DEF Init, RotatingAssumption
  <1>6. TypeOK
    BY <1>2, <1>4, <1>5, EmptyRecords DEF Init, TypeOK
  <1>7. StepsFit
    BY <1>3 DEF Init, StepsFit
  <1>8. BufferFits
    BY DEF Init, BufferFits
  <1> QED
    BY <1>6, <1>7, <1>8

(* Every action keeps the variables in their types, and the steps of a call *)
(* find the stream and the files as they need them.                         *)
LEMMA RotatingStep == TypeOK /\ StepsFit /\ [Next]_vars => TypeOK' /\ StepsFit'
  <1> SUFFICES ASSUME TypeOK, StepsFit, [Next]_vars PROVE TypeOK' /\ StepsFit'
    OBVIOUS
  <1> USE RotatingAssumption DEF RotatingAssumption, files, handler
  <1>0. /\ disk \in [Files -> Seq(Records) \cup {None}] /\ buffer \in Seq(Records)
        /\ 0 \in Files /\ <<>> \in Seq(Records)
    BY EmptyRecords DEF TypeOK, Files
  <1>1. ASSUME NEW text \in Texts, Emit(text) PROVE TypeOK' /\ StepsFit'
    <2>1. emits' \in 1 .. MaxEmits /\ record' \in Records
      BY <1>1 DEF Emit, TypeOK, Records
    <2> QED
      BY <1>1, <2>1 DEF Emit, TypeOK, StepsFit
  <1>2. CASE ShouldRollover
    <2> DEFINE open == IF stream THEN disk ELSE Opened(disk)
               now == IF maxBytes > 0 THEN Synced(open) ELSE open
    <2>1. open \in [Files -> Seq(Records) \cup {None}] /\ open[0] \in Seq(Records)
      BY <1>0, OpenedTyped DEF StepsFit
    <2>2. now \in [Files -> Seq(Records) \cup {None}] /\ now[0] \in Seq(Records)
      BY <1>0, <2>1, SyncedTyped DEF Synced
    <2>3. /\ disk' = now /\ stream' = TRUE /\ pc' \in {"rollover", "write"} /\ pc = "ask"
          /\ buffer' \in Seq(Records) /\ ~ closed
          /\ pc' = "rollover" => buffer' = <<>>
          /\ UNCHANGED <<handler, i, written, record, emits, faults, done>>
      BY <1>0, <1>2 DEF ShouldRollover, Goto, TooLong
    <2> HIDE DEF now
    <2> QED
      BY <2>2, <2>3 DEF TypeOK, StepsFit
  <1>3. CASE CloseStream
    <2>1. disk' \in [Files -> Seq(Records) \cup {None}]
      BY <1>0, <1>3, SyncedTyped DEF CloseStream, StepsFit, Synced
    <2>2. /\ pc = "rollover" /\ stream' = FALSE /\ buffer' = <<>>
          /\ UNCHANGED <<handler, written, record, emits, faults, done>>
          /\ i' = (IF backupCount > 0 THEN backupCount - 1 ELSE i)
          /\ pc' = (IF backupCount > 0 THEN "shift" ELSE "reopen")
      BY <1>3 DEF CloseStream, Goto
    <2>3. /\ pc' \in {"shift", "reopen"} /\ (pc' = "shift" => i' \in 0 .. backupCount - 1)
          /\ i' \in Nat
      BY <2>2 DEF TypeOK
    <2> QED
      BY <1>0, <2>1, <2>2, <2>3 DEF TypeOK, StepsFit
  <1>4. CASE RemoveFile
    <2>1. disk' \in [Files -> Seq(Records) \cup {None}]
      BY <1>0, <1>4 DEF RemoveFile
    <2> QED
      BY <1>4, <2>1 DEF RemoveFile, Due, TypeOK, StepsFit
  <1>5. CASE RenameFile \/ SkipFile
    <2>1. /\ pc = "shift" /\ i \in 0 .. backupCount - 1
          /\ disk' \in [Files -> Seq(Records) \cup {None}]
      BY <1>0, <1>5 DEF RenameFile, SkipFile, Due, StepsFit, Files
    <2>2. /\ i' = (IF i = 0 THEN 0 ELSE i - 1) /\ pc' \in {"shift", "reopen"}
          /\ UNCHANGED <<stream, buffer, handler, written, record, emits, faults, done>>
      BY <1>5 DEF RenameFile, SkipFile, NextFile, Goto
    <2>3. i' \in 0 .. backupCount - 1
      BY <2>1, <2>2
    <2> QED
      BY <2>1, <2>2, <2>3 DEF TypeOK, StepsFit
  <1>6. CASE Reopen
    <2>1. /\ disk' \in [Files -> Seq(Records) \cup {None}]
          /\ stream' => disk'[0] \in Seq(Records)
      BY <1>0, <1>6, OpenedTyped DEF Reopen, TypeOK
    <2>2. stream' \in BOOLEAN /\ buffer = <<>>
      BY <1>6 DEF Reopen, TypeOK, StepsFit
    <2> QED
      BY <1>6, <2>1, <2>2 DEF Reopen, Goto, TypeOK, StepsFit
  <1>7. CASE Write
    <2> DEFINE open == IF stream THEN disk ELSE Opened(disk)
               text == Append(buffer, record)
    <2>1. open \in [Files -> Seq(Records) \cup {None}] /\ open[0] \in Seq(Records)
      BY <1>0, OpenedTyped DEF StepsFit
    <2>2. record \in Records /\ text \in Seq(Records) /\ Append(written, record) \in Seq(Records)
      BY <1>0, <1>7, AppendProperties DEF Write, StepsFit, TypeOK
    <2>3. /\ [open EXCEPT ![0] = @ \o text] \in [Files -> Seq(Records) \cup {None}]
          /\ [open EXCEPT ![0] = @ \o text][0] \in Seq(Records)
      BY <2>1, <2>2, SyncedTyped
    <2>4. /\ disk' = (IF stream_has_flush THEN [open EXCEPT ![0] = @ \o text] ELSE open)
          /\ buffer' = IF stream_has_flush THEN <<>> ELSE text
          /\ stream' = TRUE /\ written' = Append(written, record)
          /\ pc' = "idle" /\ record' = None /\ done' = "emit"
          /\ UNCHANGED <<handler, i, emits, faults>> /\ ~ closed
      BY <1>7 DEF Write, Return, StepsFit
    <2> HIDE DEF open, text
    <2>5. /\ disk' \in [Files -> Seq(Records) \cup {None}] /\ disk'[0] \in Seq(Records)
          /\ buffer' \in Seq(Records) /\ written' \in Seq(Records)
      BY <1>0, <2>1, <2>2, <2>3, <2>4
    <2> QED
      BY <2>4, <2>5 DEF TypeOK, StepsFit
  <1>f. ASSUME NEW outcome \in {"handleError", "raised"}, Fails(outcome)
        PROVE  /\ faults' \in 0 .. MaxFaults /\ pc' = "idle" /\ record' = None
               /\ done' \in {"handleError", "raised"}
    BY <1>f DEF Fails, Return, TypeOK
  <1>l. Survivors \in Seq(Records)
    <2>1. Len(written) \in Nat /\ Len(buffer) \in Nat
      BY <1>0, LenProperties DEF TypeOK
    <2>2. /\ Len(written) - Len(buffer) \in Int /\ 1 \in Int
          /\ \A k \in 1 .. Len(written) - Len(buffer) : written[k] \in Records
      BY <2>1, ElementOfSeq DEF TypeOK
    <2> QED
      BY <2>2, SubSeqProperties DEF Survivors
  <1>8. CASE Fail \/ FlushFails
    BY <1>8, <1>f DEF Fail, FlushFails, TypeOK, StepsFit
  <1>9. CASE Flush \/ Close
    <2>1. /\ disk' \in [Files -> Seq(Records) \cup {None}]
          /\ disk'[0] \in Seq(Records) /\ buffer' \in Seq(Records)
      BY <1>0, <1>9, SyncedTyped DEF Flush, Close, StepsFit, Synced
    <2>2. /\ pc' = "idle" /\ record' = None /\ done' \in {"flush", "close", "raised"}
          /\ stream' \in BOOLEAN /\ closed' \in BOOLEAN
          /\ UNCHANGED <<delay, stream_has_flush, i, written, emits, faults>>
      BY <1>9 DEF Flush, Close, Return, Raises, TypeOK
    <2>3. ~ stream' \/ closed' => buffer' = <<>>
      <3>1. CASE Flush
        BY <3>1 DEF Flush, TypeOK
      <3>2. CASE Close
        BY <3>2 DEF Close
      <3> QED
        BY <1>9, <3>1, <3>2
    <2> QED
      BY <2>1, <2>2, <2>3 DEF TypeOK, StepsFit
  <1>13. CASE SeekClosed
    BY <1>13 DEF SeekClosed, Return, TypeOK, StepsFit
  <1>14. CASE UseFails \/ FlushOfEmitFails
    <2> DEFINE open == IF stream THEN disk ELSE Opened(disk)
    <2>1. open \in [Files -> Seq(Records) \cup {None}] /\ open[0] \in Seq(Records)
      BY <1>0, OpenedTyped DEF StepsFit
    <2>2. /\ disk' = open /\ stream' = TRUE /\ ~ closed
          /\ Fails("handleError") /\ UNCHANGED <<handler, i, emits>>
      BY <1>14 DEF UseFails, FlushOfEmitFails, StepsFit
    <2>3. buffer' \in Seq(Records) /\ written' \in Seq(Records)
      <3>1. CASE UseFails
        BY <1>0, <3>1 DEF UseFails, TypeOK
      <3>2. CASE FlushOfEmitFails
        <4>1. record \in Records
          BY <3>2 DEF FlushOfEmitFails, StepsFit
        <4> QED
          BY <1>0, <3>2, <4>1, AppendProperties DEF FlushOfEmitFails, TypeOK
      <3> QED
        BY <1>14, <3>1, <3>2
    <2> HIDE DEF open
    <2> QED
      BY <1>f, <2>1, <2>2, <2>3 DEF TypeOK, StepsFit
  <1>15. CASE CloseStreamFails
    BY <1>15, <1>f DEF CloseStreamFails, TypeOK, StepsFit
  <1>16. CASE CloseFails
    <2>1. /\ Fails("raised") /\ stream' = FALSE /\ buffer' = <<>> /\ written' = Survivors
          /\ ~ closed /\ UNCHANGED <<disk, handler, i, emits>>
      BY <1>16 DEF CloseFails
    <2> QED
      BY <1>0, <1>f, <1>l, <2>1 DEF TypeOK, StepsFit
  <1>17. CASE FlushOfCloseFails
    <2>1. /\ Fails("raised") /\ disk' = Synced(disk) /\ stream' = FALSE /\ buffer' = <<>>
          /\ ~ closed /\ stream /\ UNCHANGED <<handler, i, written, emits>>
      BY <1>17 DEF FlushOfCloseFails
    <2>2. disk' \in [Files -> Seq(Records) \cup {None}]
      BY <1>0, <2>1, SyncedTyped DEF StepsFit, Synced
    <2> QED
      BY <1>0, <1>f, <2>1, <2>2 DEF TypeOK, StepsFit
  <1>10. CASE Crash
    <2>1. written' \in Seq(Records)
      BY <1>10, <1>l DEF Crash
    <2>2. /\ pc' = "dead" /\ record' = None /\ i' = 0 /\ done' = "crash"
          /\ stream' = FALSE /\ buffer' = <<>> /\ closed' = FALSE
          /\ UNCHANGED <<disk, delay, stream_has_flush, emits>>
      BY <1>10 DEF Crash
    <2>3. faults' \in 0 .. MaxFaults
      BY <1>10 DEF Crash, TypeOK
    <2> QED
      BY <1>0, <2>1, <2>2, <2>3 DEF TypeOK, StepsFit
  <1>11. CASE Restart
    <2>1. /\ disk' \in [Files -> Seq(Records) \cup {None}]
          /\ stream' => disk'[0] \in Seq(Records)
      BY <1>0, <1>11, OpenedTyped DEF Restart, TypeOK
    <2>2. stream' \in BOOLEAN /\ stream_has_flush' \in BOOLEAN /\ buffer = <<>>
      BY <1>11 DEF Restart, TypeOK, StepsFit
    <2> QED
      BY <1>11, <2>1, <2>2 DEF Restart, Return, TypeOK, StepsFit
  <1>12. CASE UNCHANGED vars
    BY <1>12 DEF vars, TypeOK, StepsFit
  <1> QED
    BY <1>1, <1>2, <1>3, <1>4, <1>5, <1>6, <1>7, <1>8, <1>9, <1>10, <1>11, <1>12, <1>13,
       <1>14, <1>15, <1>16, <1>17 DEF Next

(* Every reachable state is well typed: no backup beyond backupCount is     *)
(* named, and nothing is buffered without a stream.                         *)
THEOREM RotatingTypesHold == Spec => []TypeOK
  BY RotatingInit, RotatingStep, PTL DEF Spec

LEMMA BufferStep ==
    TypeOK /\ StepsFit /\ BufferFits /\ [Next]_vars => BufferFits'
  <1> SUFFICES ASSUME TypeOK, StepsFit, BufferFits, [Next]_vars PROVE BufferFits'
    OBVIOUS
  <1> USE DEF TypeOK, BufferFits, files, handler
  <1>1. CASE Write
    BY <1>1 DEF Write, Return
  <1>2. CASE Flush \/ Close
    BY <1>2 DEF Flush, Close, Return, Raises
  <1>3. CASE Crash \/ Restart
    BY <1>3 DEF Crash, Restart, Return, StepsFit
  <1>4. CASE ShouldRollover \/ CloseStream
    BY <1>4 DEF ShouldRollover, CloseStream, Goto
  <1>5. CASE Fail \/ UseFails \/ CloseStreamFails \/ FlushOfEmitFails \/ SeekClosed
    BY <1>5 DEF Fail, UseFails, CloseStreamFails, FlushOfEmitFails, SeekClosed, Fails, Return
  <1>9. CASE FlushFails \/ FlushOfCloseFails \/ CloseFails
    BY <1>9 DEF FlushFails, FlushOfCloseFails, CloseFails, Fails, Return
  <1>6. CASE RemoveFile \/ RenameFile \/ SkipFile \/ Reopen
    BY <1>6 DEF RemoveFile, RenameFile, SkipFile, Reopen, NextFile, Goto
  <1>7. ASSUME NEW text \in Texts, Emit(text) PROVE BufferFits'
    BY <1>7 DEF Emit
  <1>8. CASE UNCHANGED vars
    BY <1>8 DEF vars
  <1> QED
    BY <1>1, <1>2, <1>3, <1>4, <1>5, <1>6, <1>7, <1>8, <1>9 DEF Next

(* What emit, flush or close has written is in the file when it returns,    *)
(* and with delay when close returns, whatever failed before, flushes       *)
(* included, and however often the process started again (__init__.py:461). *)
THEOREM ReturnedIsWritten == Spec => []ReturnedIsOnFile
  <1>1. TypeOK /\ BufferFits => ReturnedIsOnFile
    BY DEF BufferFits, ReturnedIsOnFile, TypeOK
  <1> QED
    BY <1>1, RotatingInit, RotatingStep, BufferStep, PTL DEF Spec

-----------------------------------------------------------------------------
(* Induction: a property of numbers that fails fails for a smallest one.    *)
LEMMA NatMin ==
    ASSUME NEW T, T \subseteq Nat, T # {}
    PROVE  \E m \in T : \A k \in T : m <= k
  <1>1. PICK m \in T : \A k \in T : ~ (<<k, m>> \in OpToRel(<, Nat))
    BY NatLessThanWellFounded, WFMin
  <1>2. \A k \in T : <<k, m>> \in OpToRel(<, Nat) <=> k < m
    BY DEF OpToRel
  <1>3. \A k \in T : ~ (k < m)
    BY <1>1, <1>2, Zenon
  <1>4. T \subseteq Nat
    OBVIOUS
  <1> QED
    BY <1>3, <1>4

(* Runs of a sequence: SubSeq(s, a + 1, b) is what comes after a, up to b.   *)
LEMMA RunFacts ==
    ASSUME NEW S, NEW s \in Seq(S), NEW a \in Nat, NEW b \in 0 .. Len(s)
    PROVE  /\ SubSeq(s, a + 1, b) \in Seq(S)
           /\ Len(SubSeq(s, a + 1, b)) = IF a < b THEN b - a ELSE 0
           /\ \A j \in 1 .. b - a : SubSeq(s, a + 1, b)[j] = s[a + j]
           /\ SubSeq(s, a + 1, b) = <<>> <=> b <= a
  <1> DEFINE run == SubSeq(s, a + 1, b)
  <1>1. Len(s) \in Nat /\ a + 1 \in Int /\ b \in Int /\ \A j \in a + 1 .. b : s[j] \in S
    BY LenProperties, ElementOfSeq
  <1>2. /\ run \in Seq(S)
        /\ Len(run) = IF a + 1 <= b THEN b - (a + 1) + 1 ELSE 0
        /\ \A j \in 1 .. b - (a + 1) + 1 : run[j] = s[(a + 1) + j - 1]
    BY <1>1, SubSeqProperties
  <1>3. Len(run) = (IF a < b THEN b - a ELSE 0) /\ \A j \in 1 .. b - a : run[j] = s[a + j]
    BY <1>1, <1>2
  <1>4. run = <<>> <=> Len(run) = 0
    BY <1>2, EmptySeq, LenProperties
  <1> QED
    BY <1>1, <1>2, <1>3, <1>4, SMTT(30)

LEMMA EmptyRun ==
    ASSUME NEW S, NEW s \in Seq(S), NEW a \in 0 .. Len(s)
    PROVE  SubSeq(s, a + 1, a) = <<>>
  <1>1. a \in Nat
    BY LenProperties
  <1> QED
    BY <1>1, RunFacts

LEMMA RunsJoin ==
    ASSUME NEW S, NEW s \in Seq(S), NEW a \in Nat, NEW b \in a .. Len(s), NEW c \in b .. Len(s)
    PROVE  SubSeq(s, a + 1, b) \o SubSeq(s, b + 1, c) = SubSeq(s, a + 1, c)
  <1> DEFINE p == SubSeq(s, a + 1, b)
             q == SubSeq(s, b + 1, c)
             w == SubSeq(s, a + 1, c)
  <1>0. Len(s) \in Nat
    BY LenProperties
  <1>1. /\ p \in Seq(S) /\ Len(p) = b - a /\ \A j \in 1 .. b - a : p[j] = s[a + j]
        /\ q \in Seq(S) /\ Len(q) = c - b /\ \A j \in 1 .. c - b : q[j] = s[b + j]
        /\ w \in Seq(S) /\ Len(w) = c - a /\ \A j \in 1 .. c - a : w[j] = s[a + j]
    BY <1>0, RunFacts
  <1> HIDE DEF p, q, w
  <1>2. /\ p \o q \in Seq(S) /\ Len(p \o q) = Len(p) + Len(q)
        /\ \A j \in 1 .. Len(p) + Len(q) :
              (p \o q)[j] = IF j <= Len(p) THEN p[j] ELSE q[j - Len(p)]
    BY <1>1, ConcatProperties
  <1>3. \A j \in 1 .. c - a : (p \o q)[j] = w[j]
    <2> SUFFICES ASSUME NEW j \in 1 .. c - a PROVE (p \o q)[j] = w[j]
      OBVIOUS
    <2>1. CASE j <= b - a
      BY <1>0, <1>1, <1>2, <2>1, SMTT(30)
    <2>2. CASE ~ (j <= b - a)
      <3>1. PICK k \in 1 .. c - b : k = j - (b - a) /\ b + k = a + j
        BY <1>0, <2>2
      <3>2. j \in 1 .. Len(p) + Len(q) /\ ~ (j <= Len(p)) /\ j - Len(p) = k
        BY <1>0, <1>1, <2>2, <3>1
      <3>3. (p \o q)[j] = q[k]
        BY <1>2, <3>2
      <3>4. q[k] = s[b + k] /\ w[j] = s[a + j]
        BY <1>1
      <3> QED
        BY <3>1, <3>3, <3>4
    <2> QED
      BY <2>1, <2>2
  <1>4. Len(p \o q) = Len(w) /\ Len(w) = c - a
    BY <1>0, <1>1, <1>2
  <1>5. p \o q = w
    BY <1>1, <1>2, <1>3, <1>4, SeqEqual
  <1> QED
    BY <1>5 DEF p, q, w

(* Two sequences have the same runs as far as they agree.                   *)
LEMMA RunsAgree ==
    ASSUME NEW S, NEW s \in Seq(S), NEW t \in Seq(S),
           NEW a \in Nat, NEW b \in 0 .. Len(s), b \in 0 .. Len(t),
           \A j \in 1 .. b : s[j] = t[j]
    PROVE  SubSeq(s, a + 1, b) = SubSeq(t, a + 1, b)
  <1> DEFINE p == SubSeq(s, a + 1, b)
             q == SubSeq(t, a + 1, b)
  <1>0. Len(s) \in Nat /\ Len(t) \in Nat
    BY LenProperties
  <1>1. /\ p \in Seq(S) /\ Len(p) = (IF a < b THEN b - a ELSE 0)
        /\ \A j \in 1 .. b - a : p[j] = s[a + j]
        /\ q \in Seq(S) /\ Len(q) = (IF a < b THEN b - a ELSE 0)
        /\ \A j \in 1 .. b - a : q[j] = t[a + j]
    BY <1>0, RunFacts
  <1> HIDE DEF p, q
  <1>2. \A j \in 1 .. Len(p) : p[j] = q[j]
    <2> SUFFICES ASSUME NEW j \in 1 .. Len(p) PROVE p[j] = q[j]
      OBVIOUS
    <2>1. j \in 1 .. b - a /\ a + j \in 1 .. b
      BY <1>0, <1>1
    <2>2. p[j] = s[a + j] /\ q[j] = t[a + j]
      BY <1>1, <2>1
    <2> QED
      BY <2>1, <2>2
  <1>3. p = q
    BY <1>1, <1>2, SeqEqual
  <1> QED
    BY <1>3 DEF p, q

-----------------------------------------------------------------------------
(* What each step does to the files, as a step from cuts to cuts.           *)
Disks == [Files -> Seq(Records) \cup {None}]

FitsCut(d, b, s, cut) ==
    /\ cut \in Cuts(s)
    /\ b = SubSeq(s, cut[0] + 1, Len(s))
    /\ \A k \in Files : Held(d, k) = SubSeq(s, cut[k + 1] + 1, cut[k])

LEMMA CutFits ==
    ASSUME NEW d, NEW b, NEW s, NEW cut, FitsCut(d, b, s, cut) PROVE Unbroken(d, b, s)
  BY DEF FitsCut, Unbroken

LEMMA CutFacts ==
    ASSUME NEW s \in Seq(Records), NEW cut \in Cuts(s)
    PROVE  /\ Len(s) \in Nat /\ backupCount \in Nat /\ 0 \in Files
           /\ \A k \in 0 .. backupCount + 1 : cut[k] \in 0 .. Len(s)
           /\ \A k \in Files : /\ k \in 0 .. backupCount + 1 /\ k + 1 \in 0 .. backupCount + 1
                               /\ cut[k + 1] <= cut[k]
           /\ DOMAIN cut = 0 .. backupCount + 1
  <1>1. Len(s) \in Nat /\ backupCount \in Nat
    BY LenProperties, RotatingAssumption DEF RotatingAssumption
  <1> QED
    BY <1>1 DEF Cuts, Files

LEMMA HeldTyped ==
    ASSUME NEW d \in Disks, NEW k \in Files
    PROVE  Held(d, k) \in Seq(Records)
  BY EmptyRecords DEF Held, Disks

LEMMA UnbrokenOpened ==
    ASSUME NEW d \in Disks, NEW s \in Seq(Records), Unbroken(d, <<>>, s),
           mode = "w" => \A k \in Files \ {0} : d[k] = None
    PROVE  Unbroken(Opened(d), <<>>, s)
  <1>1. PICK cut \in Cuts(s) : FitsCut(d, <<>>, s, cut)
    BY DEF Unbroken, FitsCut
  <1>2. /\ Len(s) \in Nat /\ backupCount \in Nat /\ 0 \in Files
        /\ \A k \in 0 .. backupCount + 1 : cut[k] \in 0 .. Len(s)
    BY CutFacts
  <1>3. \A k \in Files : Opened(d)[k] = IF k = 0 /\ (d[0] = None \/ mode = "w") THEN <<>> ELSE d[k]
    BY DEF Opened, Disks
  <1>4. CASE mode # "w" \/ d[0] = None
    <2>1. ASSUME NEW k \in Files PROVE Held(Opened(d), k) = Held(d, k)
      <3>1. <<>> # None
        BY EmptyRecords, RotatingAssumption DEF RotatingAssumption
      <3> QED
        BY <1>3, <1>4, <3>1 DEF Held
    <2>2. FitsCut(Opened(d), <<>>, s, cut)
      BY <1>1, <2>1 DEF FitsCut
    <2> QED
      BY <2>2, CutFits
  <1>5. CASE mode = "w"
    <2> DEFINE at == [k \in 0 .. backupCount + 1 |-> cut[0]]
    <2>1. cut[0] \in 0 .. Len(s)
      BY <1>2
    <2>2. at \in Cuts(s)
      BY <1>2, <2>1 DEF Cuts, Files
    <2>3. ASSUME NEW k \in Files PROVE Held(Opened(d), k) = SubSeq(s, at[k + 1] + 1, at[k])
      <3>1. Held(Opened(d), k) = <<>>
        BY <1>3, <1>5 DEF Held
      <3>2. at[k + 1] = cut[0] /\ at[k] = cut[0]
        BY <1>2 DEF Files
      <3> QED
        BY <2>1, <3>1, <3>2, EmptyRun
    <2>4. <<>> = SubSeq(s, at[0] + 1, Len(s))
      BY <1>1, <1>2 DEF FitsCut
    <2>5. FitsCut(Opened(d), <<>>, s, at)
      BY <2>2, <2>3, <2>4 DEF FitsCut
    <2> QED
      BY <2>5, CutFits
  <1> QED
    BY <1>4, <1>5

LEMMA UnbrokenSynced ==
    ASSUME NEW d \in Disks, NEW b \in Seq(Records), NEW s \in Seq(Records), Unbroken(d, b, s),
           d[0] \in Seq(Records)
    PROVE  Unbroken([d EXCEPT ![0] = @ \o b], <<>>, s)
  <1>1. PICK cut \in Cuts(s) : FitsCut(d, b, s, cut)
    BY DEF Unbroken, FitsCut
  <1>2. /\ Len(s) \in Nat /\ backupCount \in Nat /\ 0 \in Files /\ 1 \in 0 .. backupCount + 1
        /\ \A k \in 0 .. backupCount + 1 : cut[k] \in 0 .. Len(s)
        /\ \A k \in Files : cut[k + 1] <= cut[k]
    BY CutFacts
  <1> DEFINE e == [d EXCEPT ![0] = @ \o b]
             new == [cut EXCEPT ![0] = Len(s)]
  <1>3. /\ new[0] = Len(s) /\ \A k \in 1 .. backupCount + 1 : new[k] = cut[k]
        /\ new \in Cuts(s)
    <2>1. cut \in [0 .. backupCount + 1 -> 0 .. Len(s)] /\ 0 \in 0 .. backupCount + 1
      BY <1>2 DEF Cuts
    <2>2. new \in [0 .. backupCount + 1 -> 0 .. Len(s)]
      BY <1>2, <2>1
    <2>3. new[0] = Len(s) /\ \A k \in 1 .. backupCount + 1 : new[k] = cut[k]
      BY <1>2, <2>1
    <2>4. ASSUME NEW k \in Files PROVE new[k + 1] <= new[k]
      <3>1. new[k + 1] = cut[k + 1] /\ (k = 0 \/ new[k] = cut[k])
            /\ cut[k + 1] \in 0 .. Len(s)
        BY <1>2, <2>3 DEF Files
      <3> QED
        BY <1>2, <2>3, <3>1
    <2> QED
      BY <2>2, <2>3, <2>4 DEF Cuts
  <1>4. Held(e, 0) = SubSeq(s, new[0 + 1] + 1, new[0])
    <2>1. d[0] \o b \in Seq(Records) /\ d[0] # None /\ d[0] \o b # None
      BY ConcatProperties, RotatingAssumption DEF RotatingAssumption
    <2>2. Held(e, 0) = d[0] \o b /\ Held(d, 0) = d[0]
      BY <1>2, <2>1 DEF Held, Disks
    <2>3. d[0] = SubSeq(s, cut[1] + 1, cut[0]) /\ b = SubSeq(s, cut[0] + 1, Len(s))
      <3>1. Held(d, 0) = SubSeq(s, cut[0 + 1] + 1, cut[0]) /\ 0 + 1 = 1
        BY <1>1, <1>2 DEF FitsCut
      <3> QED
        BY <1>1, <2>2, <3>1 DEF FitsCut
    <2>4. cut[1] \in Nat /\ cut[0] \in cut[1] .. Len(s) /\ Len(s) \in cut[0] .. Len(s)
      BY <1>2
    <2>5. d[0] \o b = SubSeq(s, cut[1] + 1, Len(s))
      BY <2>3, <2>4, RunsJoin
    <2>6. new[0 + 1] = cut[1] /\ new[0] = Len(s)
      BY <1>2, <1>3
    <2> QED
      BY <2>2, <2>5, <2>6
  <1>5. ASSUME NEW k \in Files, k # 0 PROVE Held(e, k) = SubSeq(s, new[k + 1] + 1, new[k])
    <2>1. new[k + 1] = cut[k + 1] /\ new[k] = cut[k]
      BY <1>2, <1>3, <1>5 DEF Files
    <2>2. Held(e, k) = Held(d, k)
      BY <1>5 DEF Held, Disks
    <2> QED
      BY <1>1, <2>1, <2>2 DEF FitsCut
  <1>6. <<>> = SubSeq(s, new[0] + 1, Len(s))
    <2>1. Len(s) \in 0 .. Len(s)
      BY <1>2
    <2>2. SubSeq(s, Len(s) + 1, Len(s)) = <<>>
      BY <2>1, EmptyRun
    <2> QED
      BY <1>3, <2>2
  <1> HIDE DEF e, new
  <1>7. FitsCut(e, <<>>, s, new)
    BY <1>3, <1>4, <1>5, <1>6 DEF FitsCut
  <1> USE DEF e, new
  <1> QED
    BY <1>7, CutFits

LEMMA UnbrokenRemoved ==
    ASSUME NEW d \in Disks, NEW b, NEW s \in Seq(Records), Unbroken(d, b, s), backupCount > 0
    PROVE  Unbroken([d EXCEPT ![backupCount] = None], b, s)
  <1>1. PICK cut \in Cuts(s) : FitsCut(d, b, s, cut)
    BY DEF Unbroken, FitsCut
  <1>2. /\ Len(s) \in Nat /\ backupCount \in Nat /\ 0 \in Files
        /\ \A k \in 0 .. backupCount + 1 : cut[k] \in 0 .. Len(s)
        /\ \A k \in Files : cut[k + 1] <= cut[k]
    BY CutFacts
  <1> DEFINE top == backupCount
             e == [d EXCEPT ![top] = None]
             new == [cut EXCEPT ![top + 1] = cut[top]]
  <1>3. /\ new[top + 1] = cut[top] /\ \A k \in 0 .. top : new[k] = cut[k]
        /\ new \in Cuts(s)
    <2>1. cut \in [0 .. top + 1 -> 0 .. Len(s)] /\ top + 1 \in 0 .. top + 1 /\ top \in 0 .. top + 1
      BY <1>2 DEF Cuts
    <2>2. new \in [0 .. top + 1 -> 0 .. Len(s)]
      BY <1>2, <2>1
    <2>3. new[top + 1] = cut[top] /\ \A k \in 0 .. top : new[k] = cut[k]
      BY <1>2, <2>1
    <2>4. ASSUME NEW k \in Files PROVE new[k + 1] <= new[k]
      BY <1>2, <2>3 DEF Files
    <2> QED
      BY <2>2, <2>3, <2>4 DEF Cuts
  <1>4. Held(e, top) = SubSeq(s, new[top + 1] + 1, new[top])
    <2>1. Held(e, top) = <<>> /\ top \in 0 .. top
      BY <1>2 DEF Held, Disks, Files
    <2>2. new[top] = cut[top] /\ new[top + 1] = cut[top] /\ cut[top] \in 0 .. Len(s)
      BY <1>2, <1>3, <2>1
    <2> QED
      BY <2>1, <2>2, EmptyRun
  <1>5. ASSUME NEW k \in Files, k # top PROVE Held(e, k) = SubSeq(s, new[k + 1] + 1, new[k])
    <2>1. new[k + 1] = cut[k + 1] /\ new[k] = cut[k]
      BY <1>2, <1>3, <1>5 DEF Files
    <2>2. Held(e, k) = Held(d, k)
      BY <1>5 DEF Held, Disks
    <2> QED
      BY <1>1, <2>1, <2>2 DEF FitsCut
  <1>6. b = SubSeq(s, new[0] + 1, Len(s))
    <2>1. new[0] = cut[0]
      BY <1>2, <1>3
    <2> QED
      BY <1>1, <2>1 DEF FitsCut
  <1>7. FitsCut(e, b, s, new)
    BY <1>3, <1>4, <1>5, <1>6 DEF FitsCut
  <1> QED
    BY <1>7, CutFits

LEMMA UnbrokenRenamed ==
    ASSUME NEW d \in Disks, NEW b, NEW s \in Seq(Records), Unbroken(d, b, s),
           NEW n \in 0 .. backupCount - 1, d[n + 1] = None
    PROVE  Unbroken([d EXCEPT ![n + 1] = d[n], ![n] = None], b, s)
  <1>1. PICK cut \in Cuts(s) : FitsCut(d, b, s, cut)
    BY DEF Unbroken, FitsCut
  <1>2. /\ Len(s) \in Nat /\ backupCount \in Nat /\ 0 \in Files
        /\ \A k \in 0 .. backupCount + 1 : cut[k] \in 0 .. Len(s)
        /\ \A k \in Files : cut[k + 1] <= cut[k]
    BY CutFacts
  <1> DEFINE e == [d EXCEPT ![n + 1] = d[n], ![n] = None]
             new == [cut EXCEPT ![n + 1] = cut[n]]
  <1>3. /\ n \in Files /\ n + 1 \in Files /\ n # n + 1 /\ n + 1 \in 0 .. backupCount + 1
        /\ n \in 0 .. backupCount + 1 /\ (n + 1) + 1 \in 0 .. backupCount + 1
        /\ (n + 1) + 1 # n + 1 /\ n \in Int
    BY <1>2 DEF Files
  <1>4. /\ new[n + 1] = cut[n] /\ \A k \in 0 .. backupCount + 1 : k # n + 1 => new[k] = cut[k]
        /\ new \in [0 .. backupCount + 1 -> 0 .. Len(s)]
    <2>1. cut \in [0 .. backupCount + 1 -> 0 .. Len(s)]
      BY DEF Cuts
    <2> QED
      BY <1>2, <1>3, <2>1
  (* File n + 1 was missing, so that it held nothing. *)
  <1>5. cut[(n + 1) + 1] = cut[n + 1]
    <2>1. Held(d, n + 1) = <<>>
      BY DEF Held
    <2>2. SubSeq(s, cut[(n + 1) + 1] + 1, cut[n + 1]) = <<>>
      BY <1>1, <1>3, <2>1 DEF FitsCut
    <2>3. cut[(n + 1) + 1] \in Nat /\ cut[n + 1] \in 0 .. Len(s)
          /\ cut[(n + 1) + 1] <= cut[n + 1]
      BY <1>2, <1>3
    <2>4. cut[n + 1] <= cut[(n + 1) + 1]
      BY <2>2, <2>3, RunFacts
    <2> QED
      BY <2>3, <2>4
  <1>6. new \in Cuts(s)
    <2>1. ASSUME NEW k \in Files PROVE new[k + 1] <= new[k]
      <3>1. k \in 0 .. backupCount + 1 /\ k + 1 \in 0 .. backupCount + 1
            /\ cut[k] \in Int /\ cut[n] \in Int /\ k \in Int
        BY <1>2, <1>3 DEF Files
      <3>2. CASE k = n
        <4>1. new[k + 1] = cut[n] /\ new[k] = cut[n]
          BY <1>3, <1>4, <3>2
        <4> QED
          BY <3>1, <4>1
      <3>3. CASE k = n + 1
        <4>1. new[k + 1] = cut[n + 1] /\ new[k] = cut[n]
          BY <1>3, <1>4, <1>5, <3>3
        <4> QED
          BY <1>2, <1>3, <4>1
      <3>4. CASE k # n /\ k # n + 1
        <4>1. k + 1 # n + 1
          BY <1>3, <3>1, <3>4
        <4> QED
          BY <1>2, <1>4, <3>1, <3>4, <4>1
      <3> QED
        BY <3>2, <3>3, <3>4
    <2> QED
      BY <1>4, <2>1 DEF Cuts
  <1>7. ASSUME NEW k \in Files PROVE Held(e, k) = SubSeq(s, new[k + 1] + 1, new[k])
    <2>1. k \in 0 .. backupCount + 1 /\ k + 1 \in 0 .. backupCount + 1 /\ k \in Int
      BY <1>2 DEF Files
    <2>2. CASE k = n
      <3>1. Held(e, k) = <<>>
        BY <1>3, <2>2 DEF Held, Disks
      <3>2. new[k + 1] = cut[n] /\ new[k] = cut[n] /\ cut[n] \in 0 .. Len(s)
        BY <1>2, <1>3, <1>4, <2>2
      <3> QED
        BY <3>1, <3>2, EmptyRun
    <2>3. CASE k = n + 1
      <3>1. Held(e, k) = Held(d, n)
        BY <1>3, <2>3 DEF Held, Disks
      <3>2. new[k + 1] = cut[n + 1] /\ new[k] = cut[n]
        BY <1>3, <1>4, <1>5, <2>3
      <3> QED
        BY <1>1, <1>3, <3>1, <3>2 DEF FitsCut
    <2>4. CASE k # n /\ k # n + 1
      <3>1. Held(e, k) = Held(d, k)
        BY <1>3, <2>4 DEF Held, Disks
      <3>2. k + 1 # n + 1
        BY <1>3, <2>1, <2>4
      <3>3. new[k + 1] = cut[k + 1] /\ new[k] = cut[k]
        BY <1>4, <2>1, <2>4, <3>2
      <3> QED
        BY <1>1, <3>1, <3>3 DEF FitsCut
    <2> QED
      BY <2>2, <2>3, <2>4
  <1>8. b = SubSeq(s, new[0] + 1, Len(s))
    <2>1. 0 # n + 1 /\ 0 \in 0 .. backupCount + 1
      BY <1>2
    <2>2. new[0] = cut[0]
      BY <1>4, <2>1
    <2> QED
      BY <1>1, <2>2 DEF FitsCut
  <1> HIDE DEF e, new
  <1>9. FitsCut(e, b, s, new)
    BY <1>6, <1>7, <1>8 DEF FitsCut
  <1> USE DEF e, new
  <1> QED
    BY <1>9, CutFits

LEMMA UnbrokenWritten ==
    ASSUME NEW d \in Disks, NEW b \in Seq(Records), NEW s \in Seq(Records), Unbroken(d, b, s),
           NEW r \in Records
    PROVE  Unbroken(d, Append(b, r), Append(s, r))
  <1>1. PICK cut \in Cuts(s) : FitsCut(d, b, s, cut)
    BY DEF Unbroken, FitsCut
  <1>2. /\ Len(s) \in Nat /\ backupCount \in Nat /\ 0 \in Files
        /\ \A k \in 0 .. backupCount + 1 : cut[k] \in 0 .. Len(s)
        /\ \A k \in Files : /\ k \in 0 .. backupCount + 1 /\ k + 1 \in 0 .. backupCount + 1
                            /\ cut[k + 1] <= cut[k]
    BY CutFacts
  <1>3. PICK t \in Seq(Records) :
           /\ t = Append(s, r) /\ Len(t) = Len(s) + 1
           /\ \A j \in 1 .. Len(s) : t[j] = s[j]
           /\ t[Len(s) + 1] = r
    BY AppendProperties
  <1>4. cut \in Cuts(t)
    <2>1. 0 .. Len(s) \subseteq 0 .. Len(t)
      BY <1>2, <1>3
    <2> QED
      BY <2>1 DEF Cuts
  <1>5. ASSUME NEW k \in Files PROVE Held(d, k) = SubSeq(t, cut[k + 1] + 1, cut[k])
    <2>1. cut[k + 1] \in Nat /\ cut[k] \in 0 .. Len(s)
      BY <1>2
    <2>2. cut[k] \in 0 .. Len(t) /\ \A j \in 1 .. cut[k] : s[j] = t[j]
      BY <1>2, <1>3, <2>1
    <2>3. SubSeq(s, cut[k + 1] + 1, cut[k]) = SubSeq(t, cut[k + 1] + 1, cut[k])
      <3> DEFINE lo == cut[k + 1]
                 hi == cut[k]
      <3>1. lo \in Nat /\ hi \in 0 .. Len(s) /\ hi \in 0 .. Len(t)
            /\ \A j \in 1 .. hi : s[j] = t[j]
        BY <2>1, <2>2
      <3> HIDE DEF lo, hi
      <3>2. SubSeq(s, lo + 1, hi) = SubSeq(t, lo + 1, hi)
        BY <3>1, RunsAgree
      <3> QED
        BY <3>2 DEF lo, hi
    <2> QED
      BY <1>1, <2>3 DEF FitsCut
  <1>6. Append(b, r) = SubSeq(t, cut[0] + 1, Len(t))
    <2>0. cut[0] \in 0 .. Len(s) /\ cut[0] \in Nat /\ Len(s) \in 0 .. Len(s)
      BY <1>2
    <2>1. /\ Len(b) = Len(s) - cut[0] /\ \A j \in 1 .. Len(s) - cut[0] : b[j] = s[cut[0] + j]
      <3>1. b = SubSeq(s, cut[0] + 1, Len(s))
        BY <1>1 DEF FitsCut
      <3> QED
        BY <1>2, <2>0, <3>1, RunFacts
    <2> DEFINE p == Append(b, r)
               q == SubSeq(t, cut[0] + 1, Len(t))
    <2>2. /\ p \in Seq(Records) /\ Len(p) = Len(b) + 1 /\ \A j \in 1 .. Len(b) : p[j] = b[j]
          /\ p[Len(b) + 1] = r
      BY AppendProperties
    <2>3. /\ q \in Seq(Records) /\ Len(q) = Len(t) - cut[0]
          /\ \A j \in 1 .. Len(t) - cut[0] : q[j] = t[cut[0] + j]
      <3>1. Len(t) \in 0 .. Len(t) /\ cut[0] < Len(t)
        BY <1>2, <1>3, <2>0
      <3>2. /\ SubSeq(t, cut[0] + 1, Len(t)) \in Seq(Records)
            /\ Len(SubSeq(t, cut[0] + 1, Len(t))) =
                  IF cut[0] < Len(t) THEN Len(t) - cut[0] ELSE 0
            /\ \A j \in 1 .. Len(t) - cut[0] :
                  SubSeq(t, cut[0] + 1, Len(t))[j] = t[cut[0] + j]
        BY <1>3, <2>0, <3>1, RunFacts, ZenonT(30)
      <3> QED
        BY <3>1, <3>2
    <2> HIDE DEF p, q
    <2>4. ASSUME NEW j \in 1 .. Len(p) PROVE p[j] = q[j]
      <3>1. j \in 1 .. Len(s) - cut[0] + 1 /\ j \in 1 .. Len(t) - cut[0]
        BY <1>2, <1>3, <2>0, <2>1, <2>2
      <3>2. CASE j = Len(s) - cut[0] + 1
        <4>1. cut[0] + j = Len(s) + 1
          BY <1>2, <2>0, <3>2
        <4> QED
          BY <1>3, <2>1, <2>2, <2>3, <3>1, <3>2, <4>1
      <3>3. CASE j # Len(s) - cut[0] + 1
        <4> DEFINE all == Len(s)
                   from == cut[0]
        <4>0. /\ all \in Int /\ from \in Int /\ j \in Int /\ 0 <= from /\ 1 <= j
              /\ j <= all - from + 1 /\ j # all - from + 1
          BY <1>2, <2>0, <3>1, <3>3
        <4> HIDE DEF all, from
        <4>1. j \in 1 .. all - from /\ from + j \in 1 .. all
          BY <4>0
        <4> USE DEF all, from
        <4>2. p[j] = b[j] /\ b[j] = s[cut[0] + j]
          BY <2>1, <2>2, <4>1
        <4>3. q[j] = t[cut[0] + j] /\ t[cut[0] + j] = s[cut[0] + j]
          BY <1>3, <2>3, <3>1, <4>1
        <4> QED
          BY <4>2, <4>3
      <3> QED
        BY <3>2, <3>3
    <2>5. Len(p) = Len(q)
      BY <1>2, <1>3, <2>0, <2>1, <2>2, <2>3, SMTT(30)
    <2>6. p = q
      BY <2>2, <2>3, <2>4, <2>5, SeqEqual
    <2> QED
      BY <2>6 DEF p, q
  <1>7. FitsCut(d, Append(b, r), t, cut)
    BY <1>4, <1>5, <1>6 DEF FitsCut
  <1> QED
    BY <1>3, <1>7, CutFits

LEMMA UnbrokenLost ==
    ASSUME NEW d \in Disks, NEW b \in Seq(Records), NEW s \in Seq(Records), Unbroken(d, b, s)
    PROVE  Unbroken(d, <<>>, SubSeq(s, 1, Len(s) - Len(b)))
  <1>1. PICK cut \in Cuts(s) : FitsCut(d, b, s, cut)
    BY DEF Unbroken, FitsCut
  <1>2. /\ Len(s) \in Nat /\ backupCount \in Nat /\ 0 \in Files
        /\ \A k \in 0 .. backupCount + 1 : cut[k] \in 0 .. Len(s)
        /\ \A k \in Files : /\ k \in 0 .. backupCount + 1 /\ k + 1 \in 0 .. backupCount + 1
                            /\ cut[k + 1] <= cut[k]
    BY CutFacts
  <1>3. cut[0] \in 0 .. Len(s) /\ cut[0] \in Nat /\ Len(s) \in 0 .. Len(s)
    BY <1>2
  <1>4. Len(s) - Len(b) = cut[0]
    <2>1. b = SubSeq(s, cut[0] + 1, Len(s))
      BY <1>1 DEF FitsCut
    <2>2. Len(b) = IF cut[0] < Len(s) THEN Len(s) - cut[0] ELSE 0
      BY <1>3, <2>1, RunFacts
    <2> QED
      BY <1>2, <1>3, <2>2
  <1>5. PICK t \in Seq(Records) :
           t = SubSeq(s, 1, cut[0]) /\ Len(t) = cut[0] /\ \A j \in 1 .. cut[0] : s[j] = t[j]
    <2>1. 1 \in Int /\ cut[0] \in Int /\ \A j \in 1 .. cut[0] : s[j] \in Records
      BY <1>2, <1>3, ElementOfSeq
    <2>2. /\ SubSeq(s, 1, cut[0]) \in Seq(Records)
          /\ Len(SubSeq(s, 1, cut[0])) = IF 1 <= cut[0] THEN cut[0] - 1 + 1 ELSE 0
          /\ \A j \in 1 .. cut[0] - 1 + 1 : SubSeq(s, 1, cut[0])[j] = s[1 + j - 1]
      BY <2>1, SubSeqProperties
    <2>3. /\ Len(SubSeq(s, 1, cut[0])) = cut[0]
          /\ \A j \in 1 .. cut[0] : s[j] = SubSeq(s, 1, cut[0])[j]
      BY <1>3, <2>2
    <2> QED
      BY <2>2, <2>3, Zenon
  (* The highest cut is cut[0]. *)
  <1>6. \A k \in 0 .. backupCount + 1 : cut[k] <= cut[0]
    <2> DEFINE Above == {k \in 0 .. backupCount + 1 : cut[0] < cut[k]}
    <2> SUFFICES ASSUME Above # {} PROVE FALSE
      BY <1>2
    <2>1. Above \subseteq Nat
      OBVIOUS
    <2>2. PICK m \in Above : \A k \in Above : m <= k
      BY <2>1, NatMin
    <2>3. m # 0 /\ m - 1 \in Files /\ (m - 1) + 1 = m /\ m - 1 \in 0 .. backupCount + 1
      BY <1>2, <1>3 DEF Files
    <2>4. cut[m] <= cut[m - 1] /\ cut[m] \in Int /\ cut[m - 1] \in Int
      BY <1>2, <2>3, SMTT(30)
    <2>5. m - 1 \in Above
      BY <1>3, <2>3, <2>4
    <2> QED
      BY <2>2, <2>3, <2>5
  <1>7. cut \in Cuts(t)
    <2>1. \A k \in 0 .. backupCount + 1 : cut[k] \in 0 .. Len(t)
      BY <1>2, <1>5, <1>6
    <2>2. DOMAIN cut = 0 .. backupCount + 1 /\ cut = [k \in 0 .. backupCount + 1 |-> cut[k]]
      BY DEF Cuts
    <2>3. cut \in [0 .. backupCount + 1 -> 0 .. Len(t)]
      BY <2>1, <2>2
    <2> QED
      BY <2>3, <1>2 DEF Cuts
  <1>8. ASSUME NEW k \in Files PROVE Held(d, k) = SubSeq(t, cut[k + 1] + 1, cut[k])
    <2>1. cut[k + 1] \in Nat /\ cut[k] \in 0 .. Len(s) /\ cut[k] <= cut[0]
      BY <1>2, <1>6
    <2>2. cut[k] \in 0 .. Len(t) /\ \A j \in 1 .. cut[k] : s[j] = t[j]
      BY <1>3, <1>5, <2>1
    <2>3. SubSeq(s, cut[k + 1] + 1, cut[k]) = SubSeq(t, cut[k + 1] + 1, cut[k])
      <3> DEFINE lo == cut[k + 1]
                 hi == cut[k]
      <3>1. lo \in Nat /\ hi \in 0 .. Len(s) /\ hi \in 0 .. Len(t)
            /\ \A j \in 1 .. hi : s[j] = t[j]
        BY <2>1, <2>2
      <3> HIDE DEF lo, hi
      <3>2. SubSeq(s, lo + 1, hi) = SubSeq(t, lo + 1, hi)
        BY <3>1, RunsAgree
      <3> QED
        BY <3>2 DEF lo, hi
    <2> QED
      BY <1>1, <2>3 DEF FitsCut
  <1>9. <<>> = SubSeq(t, cut[0] + 1, Len(t))
    BY <1>3, <1>5, EmptyRun
  <1>10. FitsCut(d, <<>>, t, cut)
    BY <1>7, <1>8, <1>9 DEF FitsCut
  <1> QED
    BY <1>4, <1>5, <1>10, CutFits


(* A rollover begins only under a limit, which mode "a" goes with, so that  *)
(* a file in mode "w" has no backups; from the highest backup down, it      *)
(* moves a file away before another takes its name.                         *)
RolloverFits ==
    /\ pc \in {"rollover", "shift", "reopen"} => maxBytes > 0
    /\ mode = "w" => \A k \in Files \ {0} : disk[k] = None
    /\ pc = "shift" /\ i + 1 < backupCount => disk[i + 1] = None

(* Where the last record written is while nothing has failed.               *)
LastKept ==
    faults = 0 /\ mode = "a" /\ written # <<>> =>
        \/ buffer # <<>>
        \/ Held(disk, 0) # <<>>
        \/ /\ backupCount > 0 /\ pc \in {"reopen", "write"}
           /\ Held(disk, 1) # <<>>

LEMMA OthersStay ==
    ASSUME NEW d \in Disks, NEW x
    PROVE  \A k \in Files \ {0} : Opened(d)[k] = d[k] /\ [d EXCEPT ![0] = x][k] = d[k]
  BY DEF Opened, Disks

LEMMA RolloverStep ==
    TypeOK /\ StepsFit /\ RolloverFits /\ [Next]_vars => RolloverFits'
  <1> SUFFICES ASSUME TypeOK, StepsFit, RolloverFits, [Next]_vars PROVE RolloverFits'
    OBVIOUS
  <1>0. /\ disk \in Disks /\ backupCount \in Nat /\ maxBytes \in Nat
        /\ maxBytes > 0 => mode = "a"
        /\ 0 \in Files
    BY RotatingAssumption DEF RotatingAssumption, TypeOK, Disks, Files
  <1>1. CASE ShouldRollover
    <2> DEFINE open == IF stream THEN disk ELSE Opened(disk)
               now == IF maxBytes > 0 THEN Synced(open) ELSE open
    <2>1. disk' = now /\ pc' \in {"rollover", "write"} /\ (pc' = "rollover" => maxBytes > 0)
      BY <1>1 DEF ShouldRollover, Goto, TooLong
    <2>2. open \in Disks
      BY <1>0, OpenedTyped DEF Disks
    <2>3. \A k \in Files \ {0} : now[k] = disk[k]
      BY <1>0, <2>2, OthersStay DEF Synced
    <2> HIDE DEF now
    <2> QED
      BY <2>1, <2>3 DEF RolloverFits
  <1>2. CASE CloseStream
    <2>1. \A k \in Files \ {0} : disk'[k] = disk[k]
      BY <1>0, <1>2, OthersStay DEF CloseStream, Synced
    <2>2. /\ maxBytes > 0 /\ pc' \in {"shift", "reopen"}
          /\ pc' = "shift" => i' = backupCount - 1
      BY <1>2 DEF CloseStream, Goto, RolloverFits
    <2> QED
      BY <1>0, <2>1, <2>2 DEF RolloverFits
  <1>3. CASE RemoveFile
    <2>1. pc = "shift" /\ maxBytes > 0 /\ mode # "w" /\ pc' = pc /\ i' = i
          /\ disk' = [disk EXCEPT ![i + 1] = None] /\ i \in 0 .. backupCount - 1
      BY <1>0, <1>3 DEF RemoveFile, Due, RolloverFits, StepsFit
    <2>2. disk'[i + 1] = None
      BY <1>0, <2>1 DEF Disks, Files
    <2> QED
      BY <2>1, <2>2 DEF RolloverFits
  <1>4. CASE RenameFile \/ SkipFile
    <2>1. /\ pc = "shift" /\ maxBytes > 0 /\ mode # "w" /\ i \in 0 .. backupCount - 1
          /\ i' = (IF i = 0 THEN 0 ELSE i - 1)
          /\ pc' = IF i = 0 THEN "reopen" ELSE "shift"
      BY <1>0, <1>4 DEF RenameFile, SkipFile, NextFile, Goto, Due, RolloverFits, StepsFit
    <2>2. disk'[i] = None \/ i = 0
      <3>1. i \in Files /\ i + 1 \in Files /\ i # i + 1
        BY <1>0, <2>1 DEF Files
      <3> QED
        BY <1>0, <1>4, <2>1, <3>1 DEF RenameFile, SkipFile, Due, Disks
    <2>3. i # 0 => i' + 1 = i
      BY <2>1
    <2> QED
      BY <2>1, <2>2, <2>3 DEF RolloverFits
  <1>5. CASE Reopen \/ Restart
    <2>1. \A k \in Files \ {0} : disk'[k] = disk[k]
      BY <1>0, <1>5, OthersStay DEF Reopen, Restart
    <2>2. pc' \in {"write", "idle"}
      BY <1>5 DEF Reopen, Restart, Goto, Return
    <2> QED
      BY <2>1, <2>2 DEF RolloverFits
  <1>6. CASE Write
    <2> DEFINE open == IF stream THEN disk ELSE Opened(disk)
    <2>1. open \in Disks /\ \A k \in Files \ {0} : open[k] = disk[k]
      BY <1>0, OpenedTyped, OthersStay DEF Disks
    <2>2. \A k \in Files \ {0} : disk'[k] = open[k]
      BY <1>6, <2>1, OthersStay DEF Write
    <2>3. pc' = "idle"
      BY <1>6 DEF Write, Return
    <2> HIDE DEF open
    <2> QED
      BY <2>1, <2>2, <2>3 DEF RolloverFits
  <1>7. CASE Flush \/ Close \/ FlushOfCloseFails
    <2>0. disk' \in {disk, [disk EXCEPT ![0] = disk[0] \o buffer]}
      BY <1>7 DEF Flush, Close, FlushOfCloseFails, Synced
    <2>1. \A k \in Files \ {0} : disk'[k] = disk[k]
      <3>1. \A k \in Files \ {0} : [disk EXCEPT ![0] = disk[0] \o buffer][k] = disk[k]
        BY <1>0, OthersStay
      <3> QED
        BY <2>0, <3>1
    <2>2. pc' = "idle"
      BY <1>7 DEF Flush, Close, FlushOfCloseFails, Fails, Return
    <2> QED
      BY <2>1, <2>2 DEF RolloverFits
  <1>8. CASE Fail \/ CloseStreamFails \/ SeekClosed \/ FlushFails \/ CloseFails \/ Crash
    BY <1>8 DEF Fail, CloseStreamFails, SeekClosed, FlushFails, CloseFails, Crash, Fails,
                Return, RolloverFits, files
  <1>11. CASE UseFails \/ FlushOfEmitFails
    <2>1. disk' \in {disk, Opened(disk)} /\ pc' = "idle"
      BY <1>11 DEF UseFails, FlushOfEmitFails, Fails, Return
    <2>2. \A k \in Files \ {0} : disk'[k] = disk[k]
      BY <1>0, <2>1, OthersStay
    <2> QED
      BY <2>1, <2>2 DEF RolloverFits
  <1>9. ASSUME NEW text \in Texts, Emit(text) PROVE RolloverFits'
    BY <1>9 DEF Emit, RolloverFits, files
  <1>10. CASE UNCHANGED vars
    BY <1>10 DEF vars, files, RolloverFits
  <1> QED
    BY <1>1, <1>2, <1>3, <1>4, <1>5, <1>6, <1>7, <1>8, <1>9, <1>10, <1>11 DEF Next

LEMMA RolloverInit == Init => RolloverFits
  <1> SUFFICES ASSUME Init PROVE RolloverFits
    OBVIOUS
  <1> DEFINE none == [k \in Files |-> None]
  <1>1. none \in Disks /\ disk = (IF delay THEN none ELSE Opened(none)) /\ pc = "idle"
    BY DEF Init, Disks
  <1>2. \A k \in Files \ {0} : disk[k] = None
    BY <1>1, OthersStay
  <1> QED
    BY <1>1, <1>2 DEF RolloverFits

(* The files go on holding an unbroken run of what was written.             *)
LEMMA HistoryInit == Init => Unbroken(disk, buffer, written)
  <1> SUFFICES ASSUME Init PROVE Unbroken(disk, <<>>, <<>>)
    BY DEF Init
  <1> DEFINE none == [k \in Files |-> None]
             cut == [k \in 0 .. backupCount + 1 |-> 0]
  <1>1. /\ none \in Disks /\ disk = (IF delay THEN none ELSE Opened(none))
        /\ <<>> \in Seq(Records) /\ Len(<<>>) = 0 /\ backupCount \in Nat
    BY EmptyRecords, EmptySeq, RotatingAssumption DEF Init, Disks, RotatingAssumption
  <1>2. cut \in Cuts(<<>>)
    BY <1>1 DEF Cuts, Files
  <1>3. SubSeq(<<>>, 0 + 1, 0) = <<>>
    <2>1. 0 \in 0 .. Len(<<>>)
      BY <1>1
    <2> QED
      BY <1>1, <2>1, EmptyRun
  <1>4. \A k \in Files : cut[k + 1] = 0 /\ cut[k] = 0 /\ cut[0] = 0
    BY <1>1 DEF Files
  <1>5. \A k \in Files : Held(none, k) = <<>>
    BY DEF Held
  <1>6. <<>> = SubSeq(<<>>, cut[0] + 1, Len(<<>>))
    BY <1>1, <1>3
  <1> HIDE DEF none, cut
  <1>7. FitsCut(none, <<>>, <<>>, cut)
    BY <1>2, <1>3, <1>4, <1>5, <1>6 DEF FitsCut
  <1>8. Unbroken(none, <<>>, <<>>)
    BY <1>7, CutFits
  <1>9. mode = "w" => \A k \in Files \ {0} : none[k] = None
    BY DEF none
  <1> QED
    BY <1>1, <1>8, <1>9, UnbrokenOpened

LEMMA HistoryStep ==
    /\ TypeOK /\ StepsFit /\ RolloverFits /\ Unbroken(disk, buffer, written) /\ [Next]_vars
    => Unbroken(disk, buffer, written)'
  <1> SUFFICES ASSUME TypeOK, StepsFit, RolloverFits, Unbroken(disk, buffer, written),
                      [Next]_vars
               PROVE  Unbroken(disk', buffer', written')
    BY DEF Unbroken, Held, Cuts
  <1>0. /\ disk \in Disks /\ buffer \in Seq(Records) /\ written \in Seq(Records)
        /\ backupCount \in Nat /\ 0 \in Files
    BY RotatingAssumption DEF RotatingAssumption, TypeOK, Disks, Files
  (* The file that a step opens, if the stream is not open. *)
  <1> DEFINE open == IF stream THEN disk ELSE Opened(disk)
  <1>o. /\ open \in Disks /\ open[0] \in Seq(Records) /\ Unbroken(open, buffer, written)
        /\ ~ stream => buffer = <<>> /\ Unbroken(Opened(disk), <<>>, written)
    <2>1. ~ stream => buffer = <<>>
      BY DEF TypeOK
    <2>2. ~ stream => Unbroken(Opened(disk), <<>>, written)
      BY <1>0, <2>1, UnbrokenOpened DEF RolloverFits
    <2>3. open \in Disks /\ open[0] \in Seq(Records)
      BY <1>0, OpenedTyped DEF Disks, StepsFit
    <2> QED
      BY <2>1, <2>2, <2>3
  <1>s. stream => Unbroken(Synced(disk), <<>>, written)
    BY <1>0, UnbrokenSynced DEF Synced, StepsFit
  <1>1. CASE ShouldRollover
    <2>1. /\ disk' = (IF maxBytes > 0 THEN Synced(open) ELSE open)
          /\ buffer' = (IF maxBytes > 0 THEN <<>> ELSE buffer)
          /\ written' = written
      BY <1>1 DEF ShouldRollover
    <2> HIDE DEF open
    <2>2. Unbroken(Synced(open), <<>>, written)
      BY <1>0, <1>o, UnbrokenSynced DEF Synced
    <2> QED
      BY <1>o, <2>1, <2>2
  <1>2. CASE CloseStream
    BY <1>2, <1>s DEF CloseStream, StepsFit
  <1>3. CASE RemoveFile
    <2>1. /\ pc = "shift" /\ i \in 0 .. backupCount - 1 /\ disk[i + 1] # None
          /\ disk' = [disk EXCEPT ![i + 1] = None] /\ buffer' = buffer /\ written' = written
      BY <1>3 DEF RemoveFile, Due, StepsFit
    <2>2. i + 1 = backupCount /\ backupCount > 0
      BY <1>0, <2>1 DEF RolloverFits
    <2>3. Unbroken([disk EXCEPT ![backupCount] = None], buffer, written)
      BY <1>0, <2>2, UnbrokenRemoved
    <2> QED
      BY <2>1, <2>2, <2>3
  <1>4. CASE RenameFile
    <2>1. /\ i \in 0 .. backupCount - 1 /\ disk[i + 1] = None
          /\ disk' = [disk EXCEPT ![i + 1] = disk[i], ![i] = None]
          /\ buffer' = buffer /\ written' = written
      BY <1>4 DEF RenameFile, NextFile, Due, StepsFit
    <2> QED
      BY <1>0, <2>1, UnbrokenRenamed
  <1>5. CASE SkipFile \/ Fail \/ SeekClosed \/ CloseStreamFails \/ FlushFails
    BY <1>5 DEF SkipFile, NextFile, Fail, SeekClosed, CloseStreamFails, FlushFails, files
  <1>6. CASE Reopen \/ Restart
    <2>1. /\ ~ stream /\ disk' = (IF delay THEN disk ELSE Opened(disk))
          /\ buffer' = buffer /\ written' = written
      BY <1>6 DEF Reopen, Restart, StepsFit
    <2> QED
      BY <1>o, <2>1
  <1>7. CASE Write
    <2> DEFINE text == Append(buffer, record)
    <2>1. /\ disk' = (IF stream_has_flush THEN [open EXCEPT ![0] = @ \o text] ELSE open)
          /\ buffer' = (IF stream_has_flush THEN <<>> ELSE text)
          /\ written' = Append(written, record)
      BY <1>7 DEF Write
    <2>2. record \in Records
      BY <1>7 DEF Write, StepsFit
    <2>3. text \in Seq(Records) /\ Append(written, record) \in Seq(Records)
      BY <1>0, <2>2, AppendProperties
    <2> HIDE DEF open
    <2>4. Unbroken(open, text, Append(written, record))
      BY <1>0, <1>o, <2>2, UnbrokenWritten
    <2> HIDE DEF text
    <2>5. Unbroken([open EXCEPT ![0] = @ \o text], <<>>, Append(written, record))
      BY <1>o, <2>3, <2>4, UnbrokenSynced
    <2> QED
      BY <2>1, <2>4, <2>5
  <1>8. CASE Flush \/ Close \/ FlushOfCloseFails
    BY <1>8, <1>s DEF Flush, Close, FlushOfCloseFails
  <1>12. CASE UseFails
    <2>1. disk' = open /\ buffer' = buffer /\ written' = written
      BY <1>12 DEF UseFails
    <2> QED
      BY <1>o, <2>1
  <1>13. CASE FlushOfEmitFails
    <2>1. /\ disk' = open /\ buffer' = Append(buffer, record)
          /\ written' = Append(written, record) /\ record \in Records
      BY <1>13 DEF FlushOfEmitFails, StepsFit
    <2> HIDE DEF open
    <2> QED
      BY <1>0, <1>o, <2>1, UnbrokenWritten
  <1>9. CASE Crash \/ CloseFails
    <2>1. /\ disk' = disk /\ buffer' = <<>>
          /\ written' = SubSeq(written, 1, Len(written) - Len(buffer))
      BY <1>9 DEF Crash, CloseFails, Survivors
    <2> QED
      BY <1>0, <2>1, UnbrokenLost
  <1>10. ASSUME NEW text \in Texts, Emit(text) PROVE Unbroken(disk', buffer', written')
    BY <1>10 DEF Emit, files
  <1>11. CASE UNCHANGED vars
    BY <1>11 DEF vars, files
  <1> QED
    BY <1>1, <1>2, <1>3, <1>4, <1>5, <1>6, <1>7, <1>8, <1>9, <1>10, <1>11, <1>12,
       <1>13 DEF Next

(* What the files hold once one is opened, or is given the buffer.          *)
LEMMA OpenedHolds ==
    ASSUME NEW d \in Disks, mode = "a"
    PROVE  \A k \in Files : Held(Opened(d), k) = Held(d, k)
  <1>1. <<>> # None
    BY EmptyRecords, RotatingAssumption DEF RotatingAssumption
  <1>2. \A k \in Files : Opened(d)[k] = IF k = 0 /\ d[0] = None THEN <<>> ELSE d[k]
    BY DEF Opened, Disks
  <1> QED
    BY <1>1, <1>2 DEF Held

LEMMA AddedHolds ==
    ASSUME NEW d \in Disks, d[0] \in Seq(Records), NEW b \in Seq(Records)
    PROVE  /\ Held([d EXCEPT ![0] = @ \o b], 0) = Held(d, 0) \o b
           /\ \A k \in Files \ {0} : Held([d EXCEPT ![0] = @ \o b], k) = Held(d, k)
  <1>1. d[0] \o b \in Seq(Records) /\ None \notin Seq(Records) /\ 0 \in Files
    <2>1. d[0] \o b \in Seq(Records)
      BY ConcatProperties
    <2>2. None \notin Seq(Records) /\ 0 \in Files
      BY RotatingAssumption DEF RotatingAssumption, Files
    <2> QED
      BY <2>1, <2>2
  <1> QED
    BY <1>1 DEF Held, Disks

LEMMA LastStep ==
    /\ TypeOK /\ StepsFit /\ RolloverFits /\ LastKept /\ [Next]_vars
    => LastKept'
  <1> SUFFICES ASSUME TypeOK, StepsFit, RolloverFits, LastKept, [Next]_vars,
                      faults' = 0, mode = "a", written' # <<>>
               PROVE  \/ buffer' # <<>>
                      \/ Held(disk', 0) # <<>>
                      \/ /\ backupCount > 0 /\ pc' \in {"reopen", "write"}
                         /\ Held(disk', 1) # <<>>
    BY DEF LastKept, Held
  <1>0. /\ disk \in Disks /\ buffer \in Seq(Records) /\ written \in Seq(Records)
        /\ backupCount \in Nat /\ 0 \in Files /\ None \notin Seq(Records)
        /\ faults \in Nat
    BY RotatingAssumption DEF RotatingAssumption, TypeOK, Disks, Files
  <1> DEFINE open == IF stream THEN disk ELSE Opened(disk)
  (* In mode "a" opening a file leaves what the files hold. *)
  <1>o. /\ Held(Opened(disk), 0) = Held(disk, 0)
        /\ backupCount > 0 => Held(Opened(disk), 1) = Held(disk, 1)
        /\ open \in Disks /\ open[0] \in Seq(Records)
    <2>1. backupCount > 0 => 1 \in Files
      BY <1>0 DEF Files
    <2>2. open \in Disks /\ open[0] \in Seq(Records)
      BY <1>0, OpenedTyped DEF Disks, StepsFit
    <2> QED
      BY <1>0, <2>1, <2>2, OpenedHolds
  (* What is added to a file is there afterwards. *)
  <1>s. ASSUME NEW d \in Disks, d[0] \in Seq(Records), NEW b \in Seq(Records),
               b # <<>> \/ Held(d, 0) # <<>>
        PROVE  Held([d EXCEPT ![0] = @ \o b], 0) # <<>>
    <2>2. Held([d EXCEPT ![0] = @ \o b], 0) = d[0] \o b /\ Held(d, 0) = d[0]
      BY <1>0, <1>s, AddedHolds DEF Held
    <2>3. Len(d[0] \o b) = Len(d[0]) + Len(b) /\ Len(d[0]) \in Nat /\ Len(b) \in Nat
      BY <1>s, ConcatProperties, LenProperties
    <2>4. Len(d[0]) # 0 \/ Len(b) # 0
      BY <1>s, <2>2, EmptySeq
    <2>5. Len(d[0] \o b) # 0
      BY <2>3, <2>4
    <2> QED
      BY <2>2, <2>5, EmptySeq
  <1>n. ASSUME faults = 0, written # <<>>
        PROVE  \/ buffer # <<>>
               \/ Held(disk, 0) # <<>>
               \/ /\ backupCount > 0 /\ pc \in {"reopen", "write"}
                  /\ Held(disk, 1) # <<>>
    BY <1>n DEF LastKept
  <1>1. CASE ShouldRollover
    <2>1. /\ disk' = (IF maxBytes > 0 THEN Synced(open) ELSE open)
          /\ buffer' = (IF maxBytes > 0 THEN <<>> ELSE buffer)
          /\ written' = written /\ faults' = faults /\ pc = "ask"
      BY <1>1 DEF ShouldRollover, Goto
    <2>2. buffer # <<>> \/ Held(open, 0) # <<>>
      BY <1>n, <1>o, <2>1
    <2> HIDE DEF open
    <2>3. Held(Synced(open), 0) # <<>>
      BY <1>0, <1>o, <1>s, <2>2 DEF Synced
    <2> QED
      BY <2>1, <2>2, <2>3
  <1>2. CASE CloseStream
    <2>1. /\ disk' = Synced(disk) /\ buffer' = <<>> /\ written' = written /\ faults' = faults
          /\ pc = "rollover" /\ stream
      BY <1>2 DEF CloseStream, Goto, StepsFit
    <2>2. buffer # <<>> \/ Held(disk, 0) # <<>>
      BY <1>n, <2>1
    <2> QED
      BY <1>0, <1>s, <2>1, <2>2 DEF Synced, StepsFit
  <1>3. CASE RemoveFile
    <2>1. /\ i \in 0 .. backupCount - 1 /\ disk' = [disk EXCEPT ![i + 1] = None]
          /\ buffer' = buffer /\ written' = written /\ faults' = faults /\ pc = "shift"
      BY <1>3 DEF RemoveFile, Due, StepsFit
    <2>2. Held(disk', 0) = Held(disk, 0)
      BY <1>0, <2>1 DEF Held, Disks
    <2> QED
      BY <1>n, <2>1, <2>2
  <1>4. CASE RenameFile
    <2>1. /\ i \in 0 .. backupCount - 1
          /\ disk' = [disk EXCEPT ![i + 1] = disk[i], ![i] = None]
          /\ buffer' = buffer /\ written' = written /\ faults' = faults /\ pc = "shift"
          /\ pc' = (IF i = 0 THEN "reopen" ELSE "shift")
      BY <1>4 DEF RenameFile, NextFile, Goto, Due, StepsFit
    <2>2. CASE i = 0
      <3>1. Held(disk', 1) = Held(disk, 0) /\ backupCount > 0
        BY <1>0, <2>1, <2>2 DEF Held, Disks, Files
      <3> QED
        BY <1>n, <2>1, <2>2, <3>1
    <2>3. CASE i # 0
      <3>1. Held(disk', 0) = Held(disk, 0)
        BY <1>0, <2>1, <2>3 DEF Held, Disks
      <3> QED
        BY <1>n, <2>1, <3>1
    <2> QED
      BY <2>2, <2>3
  <1>5. CASE SkipFile
    BY <1>5, <1>n DEF SkipFile, NextFile, Goto
  <1>6. CASE Reopen
    <2>1. /\ disk' = (IF delay THEN disk ELSE Opened(disk)) /\ pc = "reopen" /\ pc' = "write"
          /\ buffer' = buffer /\ written' = written /\ faults' = faults
      BY <1>6 DEF Reopen, Goto
    <2> QED
      BY <1>n, <1>o, <2>1
  <1>7. CASE Write
    <2> DEFINE text == Append(buffer, record)
    <2>1. /\ disk' = (IF stream_has_flush THEN [open EXCEPT ![0] = @ \o text] ELSE open)
          /\ buffer' = (IF stream_has_flush THEN <<>> ELSE text)
      BY <1>7 DEF Write
    <2>2. text \in Seq(Records) /\ Len(text) = Len(buffer) + 1 /\ Len(buffer) \in Nat
      BY <1>0, <1>7, AppendProperties, LenProperties DEF Write, StepsFit
    <2>3. text # <<>>
      BY <2>2, EmptySeq
    <2> HIDE DEF open, text
    <2>4. Held([open EXCEPT ![0] = @ \o text], 0) # <<>>
      BY <1>o, <1>s, <2>2, <2>3
    <2> QED
      BY <2>1, <2>3, <2>4
  <1>8. CASE Flush \/ Close
    <2>1. /\ pc = "idle" /\ stream /\ written' = written /\ faults' = faults
          /\ \/ disk' = Synced(disk) /\ buffer' = <<>>
             \/ disk' = disk /\ buffer' = buffer
      BY <1>8 DEF Flush, Close
    <2>2. buffer # <<>> \/ Held(disk, 0) # <<>>
      BY <1>n, <2>1
    <2>3. Held(Synced(disk), 0) # <<>>
      BY <1>0, <1>s, <2>1, <2>2 DEF Synced, StepsFit
    <2> QED
      BY <2>1, <2>2, <2>3
  <1>9. CASE \/ Fail \/ UseFails \/ CloseStreamFails \/ FlushOfEmitFails
            \/ FlushFails \/ FlushOfCloseFails \/ CloseFails \/ Crash
    BY <1>0, <1>9 DEF Fail, UseFails, CloseStreamFails, FlushOfEmitFails, FlushFails,
                      FlushOfCloseFails, CloseFails, Crash, Fails
  <1>13. CASE SeekClosed
    BY <1>13, <1>n DEF SeekClosed, files
  (* A process starts again only after a crash, so that faults is not 0. *)
  <1>10. CASE Restart
    <2>1. /\ disk' = (IF delay THEN disk ELSE Opened(disk)) /\ pc = "dead"
          /\ buffer' = buffer /\ written' = written /\ faults' = faults
      BY <1>10 DEF Restart
    <2> QED
      BY <1>n, <1>o, <2>1
  <1>11. ASSUME NEW text \in Texts, Emit(text)
         PROVE  buffer' # <<>> \/ Held(disk', 0) # <<>>
    BY <1>11, <1>n DEF Emit, files
  <1>12. CASE UNCHANGED vars
    BY <1>12, <1>n DEF vars, files
  <1> QED
    BY <1>1, <1>2, <1>3, <1>4, <1>5, <1>6, <1>7, <1>8, <1>9, <1>10, <1>11, <1>12,
       <1>13 DEF Next

(* However the calls of a rollover fail or the process dies, and however    *)
(* often it is tried again, the files hold an unbroken run of the records   *)
(* written, the last one included: doRollover drops the oldest file and     *)
(* nothing else (handlers.py:207).                                          *)
THEOREM HistoryIsUnbroken == Spec => []UnbrokenHistory
  <1>1. LastKept /\ TypeOK /\ Unbroken(disk, buffer, written) => UnbrokenHistory
    <2> SUFFICES ASSUME LastKept, Unbroken(disk, buffer, written),
                        faults = 0, mode = "a", written # <<>>
                 PROVE  buffer # <<>> \/ \E k \in Files : Content(k) # <<>>
      BY DEF UnbrokenHistory
    <2>1. 0 \in Files /\ (backupCount > 0 => 1 \in Files)
      BY RotatingAssumption DEF RotatingAssumption, Files
    <2> QED
      BY <2>1 DEF LastKept, Content
  <1>2. Init => LastKept
    BY DEF Init, LastKept
  <1>3. Spec => [](TypeOK /\ StepsFit /\ RolloverFits /\ LastKept /\ Unbroken(disk, buffer, written))
    <2>1. Init => TypeOK /\ StepsFit /\ RolloverFits /\ LastKept /\ Unbroken(disk, buffer, written)
      BY <1>2, RotatingInit, RolloverInit, HistoryInit
    <2>2. /\ TypeOK /\ StepsFit /\ RolloverFits /\ LastKept /\ Unbroken(disk, buffer, written)
          /\ [Next]_vars
          => (TypeOK /\ StepsFit /\ RolloverFits /\ LastKept /\ Unbroken(disk, buffer, written))'
      BY RotatingStep, RolloverStep, LastStep, HistoryStep
    <2> QED
      BY <2>1, <2>2, PTL DEF Spec
  <1> QED
    BY <1>1, <1>3, PTL

-----------------------------------------------------------------------------
(* Bytes adds up what the records of a sequence take: the sums u[n] of the  *)
(* first n exist, agree as far as two sequences do, and so grow by what is  *)
(* appended.                                                                *)
SumOf(s, n, u) ==
    u = [k \in 0 .. n |-> IF k = 0 THEN 0 ELSE u[k - 1] + s[k].text[2]]

LEMMA SumIsBytes ==
    ASSUME NEW s
    PROVE  Bytes(s) = (CHOOSE u : SumOf(s, Len(s), u))[Len(s)]
  BY DEF Bytes, SumOf

LEMMA SumStep ==
    ASSUME NEW s, NEW n \in Nat, NEW u, SumOf(s, n, u)
    PROVE  \A k \in 0 .. n : u[k] = IF k = 0 THEN 0 ELSE u[k - 1] + s[k].text[2]
  BY DEF SumOf

LEMMA SumExists ==
    ASSUME NEW s, NEW n \in Nat
    PROVE  \E u : SumOf(s, n, u)
  <1> DEFINE T == {m \in Nat : ~ \E u : SumOf(s, m, u)}
  <1> SUFFICES ASSUME T # {} PROVE FALSE
    OBVIOUS
  <1>1. T \subseteq Nat
    OBVIOUS
  <1>2. PICK m \in T : \A k \in T : m <= k
    BY <1>1, NatMin
  <1>3. m # 0
    <2> DEFINE z == [k \in 0 .. 0 |-> 0]
    <2>1. z = [k \in 0 .. 0 |-> IF k = 0 THEN 0 ELSE z[k - 1] + s[k].text[2]]
      OBVIOUS
    <2>2. SumOf(s, 0, z)
      BY <2>1 DEF SumOf
    <2> QED
      BY <2>2
  <1>4. m - 1 \in Nat /\ m - 1 \notin T
    BY <1>2, <1>3
  <1>5. PICK u : SumOf(s, m - 1, u)
    BY <1>4
  <1> DEFINE v == [k \in 0 .. m |-> IF k = m THEN u[m - 1] + s[m].text[2] ELSE u[k]]
             w == [k \in 0 .. m |-> IF k = 0 THEN 0 ELSE v[k - 1] + s[k].text[2]]
  <1>6. ASSUME NEW k \in 0 .. m PROVE v[k] = w[k]
    <2>1. CASE k = m
      <3>1. v[m - 1] = u[m - 1] /\ m - 1 \in 0 .. m
        BY <1>3, <1>4
      <3> QED
        BY <1>3, <2>1, <3>1
    <2>2. CASE k # m /\ k # 0
      <3>1. k \in 0 .. m - 1 /\ k - 1 \in 0 .. m /\ k - 1 # m
        BY <1>4, <2>2
      <3>2. u[k] = u[k - 1] + s[k].text[2]
        BY <1>4, <1>5, <2>2, <3>1, SumStep
      <3> QED
        BY <2>2, <3>1, <3>2
    <2>3. CASE k = 0
      <3>1. 0 \in 0 .. m - 1
        BY <1>4
      <3>2. u[0] = 0
        BY <1>4, <1>5, <3>1, SumStep
      <3> QED
        BY <1>3, <2>3, <3>2
    <2> QED
      BY <2>1, <2>2, <2>3
  <1>7. v = w
    BY <1>6
  <1>8. SumOf(s, m, v)
    BY <1>7 DEF SumOf
  <1> QED
    BY <1>2, <1>8

LEMMA SumsAgree ==
    ASSUME NEW s, NEW t, NEW n \in Nat, NEW m \in Nat, n <= m,
           \A j \in 1 .. n : s[j] = t[j],
           NEW u, SumOf(s, n, u), NEW v, SumOf(t, m, v)
    PROVE  u[n] = v[n]
  <1> DEFINE T == {k \in 0 .. n : u[k] # v[k]}
  <1> SUFFICES ASSUME T # {} PROVE FALSE
    OBVIOUS
  <1>1. T \subseteq Nat
    OBVIOUS
  <1>2. PICK k \in T : \A j \in T : k <= j
    BY <1>1, NatMin
  <1>3. /\ u[k] = IF k = 0 THEN 0 ELSE u[k - 1] + s[k].text[2]
        /\ v[k] = IF k = 0 THEN 0 ELSE v[k - 1] + t[k].text[2]
    <2>1. k \in 0 .. n /\ k \in 0 .. m
      BY <1>2
    <2> QED
      BY <2>1, SumStep, ZenonT(30)
  <1>4. k # 0
    BY <1>2, <1>3
  <1>5. k - 1 \in 0 .. n /\ k - 1 \notin T /\ k \in 1 .. n
    BY <1>2, <1>4
  <1>6. u[k - 1] = v[k - 1] /\ s[k] = t[k]
    BY <1>5
  <1> QED
    BY <1>2, <1>3, <1>4, <1>6

LEMMA BytesSum ==
    ASSUME NEW s \in Seq(Records)
    PROVE  \E u : SumOf(s, Len(s), u) /\ Bytes(s) = u[Len(s)]
  <1>1. Len(s) \in Nat
    BY LenProperties
  <1>2. \E u : SumOf(s, Len(s), u)
    BY <1>1, SumExists
  <1> DEFINE c == CHOOSE u : SumOf(s, Len(s), u)
  <1>3. SumOf(s, Len(s), c)
    BY <1>2
  <1>4. Bytes(s) = c[Len(s)]
    BY SumIsBytes
  <1> QED
    BY <1>3, <1>4

LEMMA BytesAppend ==
    ASSUME NEW s \in Seq(Records), NEW r \in Records
    PROVE  Bytes(Append(s, r)) = Bytes(s) + r.text[2]
  <1>1. PICK t \in Seq(Records) :
           /\ t = Append(s, r) /\ Len(t) = Len(s) + 1
           /\ \A j \in 1 .. Len(s) : s[j] = t[j]
           /\ t[Len(s) + 1] = r
    BY AppendProperties
  <1>2. Len(s) \in Nat /\ Len(t) \in Nat /\ Len(s) <= Len(t)
    BY <1>1, LenProperties
  <1>3. PICK u : SumOf(s, Len(s), u) /\ Bytes(s) = u[Len(s)]
    BY BytesSum
  <1>4. PICK v : SumOf(t, Len(t), v) /\ Bytes(t) = v[Len(t)]
    BY BytesSum
  <1>5. u[Len(s)] = v[Len(s)]
    <2> DEFINE n == Len(s)
               m == Len(t)
    <2>1. /\ n \in Nat /\ m \in Nat /\ n <= m /\ \A j \in 1 .. n : s[j] = t[j]
          /\ SumOf(s, n, u) /\ SumOf(t, m, v)
      BY <1>1, <1>2, <1>3, <1>4
    <2> HIDE DEF n, m
    <2>2. u[n] = v[n]
      BY <2>1, SumsAgree
    <2> QED
      BY <2>2 DEF n
  <1>6. v[Len(t)] = v[Len(t) - 1] + t[Len(t)].text[2]
    <2>1. Len(t) \in 0 .. Len(t) /\ Len(t) # 0
      BY <1>1, <1>2
    <2> QED
      BY <1>2, <1>4, <2>1, SumStep
  <1>7. Len(t) - 1 = Len(s) /\ t[Len(t)] = r
    BY <1>1, <1>2
  <1> QED
    BY <1>1, <1>3, <1>4, <1>5, <1>6, <1>7

LEMMA BytesTyped ==
    ASSUME NEW s \in Seq(Records)
    PROVE  Bytes(s) \in Nat
  <1>1. Len(s) \in Nat /\ \A k \in 1 .. Len(s) : s[k].text[2] \in Nat
    <2>1. Len(s) \in Nat /\ \A k \in 1 .. Len(s) : s[k] \in Records
      BY LenProperties, ElementOfSeq
    <2>2. \A r \in Records : r.text[2] \in Nat
      BY RotatingAssumption DEF RotatingAssumption, Records
    <2> QED
      BY <2>1, <2>2
  <1>2. PICK u : SumOf(s, Len(s), u) /\ Bytes(s) = u[Len(s)]
    BY BytesSum
  <1> DEFINE T == {k \in 0 .. Len(s) : u[k] \notin Nat}
  <1>3. T = {}
    <2> SUFFICES ASSUME T # {} PROVE FALSE
      OBVIOUS
    <2>1. T \subseteq Nat
      OBVIOUS
    <2>2. PICK k \in T : \A j \in T : k <= j
      BY <2>1, NatMin
    <2>3. u[k] = IF k = 0 THEN 0 ELSE u[k - 1] + s[k].text[2]
      BY <1>1, <1>2, <2>2, SumStep
    <2>4. k # 0
      BY <2>2, <2>3
    <2>5. k - 1 \in 0 .. Len(s) /\ k - 1 \notin T /\ k \in 1 .. Len(s)
      BY <1>1, <2>2, <2>4
    <2>6. u[k - 1] \in Nat /\ s[k].text[2] \in Nat
      BY <1>1, <2>5
    <2> QED
      BY <2>2, <2>3, <2>4, <2>6
  <1> QED
    BY <1>1, <1>2, <1>3

-----------------------------------------------------------------------------
(* A file of one record at most, or whose last one came while there was     *)
(* room for as many bytes as it has characters.                             *)
Sized(s) ==
    \/ Len(s) <= 1
    \/ \E t \in Seq(Records), r \in Records :
          s = Append(t, r) /\ Bytes(t) + r.text[1] < maxBytes

(* Every file is such a one, and the base file is with its buffer too; a    *)
(* record is written to an empty file or one it has room in, and a rollover *)
(* leaves no base file behind.                                              *)
SizesFit ==
    maxBytes > 0 /\ backupCount > 0 =>
        /\ \A k \in Files : Sized(Content(k))
        /\ Sized(Content(0) \o buffer)
        /\ pc = "write" =>
              /\ buffer = <<>>
              /\ Content(0) = <<>> \/ Bytes(Content(0)) + record.text[1] < maxBytes
        /\ pc = "reopen" => buffer = <<>> /\ Content(0) = <<>>

LEMMA EmptySized == Sized(<<>>)
  BY EmptySeq DEF Sized

LEMMA RoomSized ==
    ASSUME NEW s \in Seq(Records), NEW r \in Records,
           s = <<>> \/ Bytes(s) + r.text[1] < maxBytes
    PROVE  Sized(Append(s, r))
  <1>1. CASE s = <<>>
    <2>1. Len(Append(s, r)) = Len(s) + 1 /\ Len(s) = 0
      BY <1>1, AppendProperties, EmptySeq
    <2> QED
      BY <2>1 DEF Sized
  <1>2. CASE Bytes(s) + r.text[1] < maxBytes
    BY <1>2 DEF Sized
  <1> QED
    BY <1>1, <1>2

LEMMA SizedBounded ==
    ASSUME \A text \in Texts : text[2] <= text[1],
           NEW s \in Seq(Records), Sized(s), Len(s) > 1
    PROVE  Bytes(s) < maxBytes
  <1>1. PICK t \in Seq(Records), r \in Records :
           s = Append(t, r) /\ Bytes(t) + r.text[1] < maxBytes
    BY LenProperties DEF Sized
  <1>2. Bytes(s) = Bytes(t) + r.text[2] /\ Bytes(t) \in Nat
    BY <1>1, BytesAppend, BytesTyped
  <1>3. r.text \in Texts /\ r.text[1] \in Nat /\ r.text[2] \in Nat /\ maxBytes \in Nat
    BY RotatingAssumption DEF RotatingAssumption, Records
  <1>4. r.text[2] <= r.text[1]
    BY <1>3
  <1> QED
    BY <1>1, <1>2, <1>3, <1>4

LEMMA SizesInit == Init => SizesFit
  <1> SUFFICES ASSUME Init, maxBytes > 0 PROVE SizesFit
    BY DEF SizesFit
  <1> DEFINE none == [k \in Files |-> None]
  <1>1. /\ none \in Disks /\ disk = (IF delay THEN none ELSE Opened(none)) /\ pc = "idle"
        /\ buffer = <<>> /\ mode = "a" /\ 0 \in Files
    BY RotatingAssumption DEF Init, Disks, RotatingAssumption, Files
  <1>2. \A k \in Files : Held(disk, k) = <<>>
    <2>1. \A k \in Files : Held(none, k) = <<>>
      BY DEF Held
    <2>2. \A k \in Files : Held(Opened(none), k) = Held(none, k)
      BY <1>1, OpenedHolds
    <2> QED
      BY <1>1, <2>1, <2>2
  <1>3. <<>> \o <<>> = <<>>
    BY EmptyRecords, ConcatEmptySeq
  <1> QED
    BY <1>1, <1>2, <1>3, EmptySized DEF SizesFit, Content

LEMMA SizesStep ==
    /\ TypeOK /\ StepsFit /\ SizesFit /\ [Next]_vars => SizesFit'
  <1> SUFFICES ASSUME TypeOK, StepsFit, SizesFit, [Next]_vars,
                      maxBytes > 0, backupCount > 0
               PROVE  /\ \A k \in Files : Sized(Held(disk', k))
                      /\ Sized(Held(disk', 0) \o buffer')
                      /\ pc' = "write" =>
                            /\ buffer' = <<>>
                            /\ \/ Held(disk', 0) = <<>>
                               \/ Bytes(Held(disk', 0)) + (record').text[1] < maxBytes
                      /\ pc' = "reopen" => buffer' = <<>> /\ Held(disk', 0) = <<>>
    BY DEF SizesFit, Content, Held, Sized, Bytes
  <1>0. /\ disk \in Disks /\ buffer \in Seq(Records) /\ mode = "a"
        /\ backupCount \in Nat /\ 0 \in Files /\ maxBytes \in Nat
        /\ \A k \in Files : Held(disk, k) \in Seq(Records)
    BY RotatingAssumption, HeldTyped DEF RotatingAssumption, TypeOK, Disks, Files
  <1>i. /\ \A k \in Files : Sized(Held(disk, k))
        /\ Sized(Held(disk, 0) \o buffer)
        /\ pc = "write" =>
              /\ buffer = <<>>
              /\ Held(disk, 0) = <<>> \/ Bytes(Held(disk, 0)) + record.text[1] < maxBytes
        /\ pc = "reopen" => buffer = <<>> /\ Held(disk, 0) = <<>>
    BY DEF SizesFit, Content
  <1>e. \A s \in Seq(Records) : s \o <<>> = s
    BY ConcatEmptySeq
  <1> DEFINE open == IF stream THEN disk ELSE Opened(disk)
  <1>o. /\ open \in Disks /\ open[0] \in Seq(Records)
        /\ \A k \in Files : Held(open, k) = Held(disk, k) /\ Held(Opened(disk), k) = Held(disk, k)
    BY <1>0, OpenedTyped, OpenedHolds DEF Disks, StepsFit
  (* The base file takes the buffer; the other files are as they were. *)
  <1>s. ASSUME NEW d \in Disks, d[0] \in Seq(Records),
               \A k \in Files : Held(d, k) = Held(disk, k)
        PROVE  /\ Held(Synced(d), 0) = Held(disk, 0) \o buffer
               /\ Held(Synced(d), 0) \in Seq(Records)
               /\ \A k \in Files : Sized(Held(Synced(d), k))
               /\ Sized(Held(Synced(d), 0) \o <<>>)
    <2>1. /\ Held(Synced(d), 0) = Held(d, 0) \o buffer
          /\ \A k \in Files \ {0} : Held(Synced(d), k) = Held(d, k)
      BY <1>0, <1>s, AddedHolds DEF Synced
    <2>2. Held(disk, 0) \o buffer \in Seq(Records)
      BY <1>0, ConcatProperties
    <2>3. Held(Synced(d), 0) \o <<>> = Held(Synced(d), 0)
      BY <1>0, <1>e, <1>s, <2>1, <2>2
    <2> QED
      BY <1>0, <1>i, <1>s, <2>1, <2>2, <2>3
  <1>1. CASE ShouldRollover
    <2>1. /\ disk' = Synced(open) /\ buffer' = <<>> /\ record' = record
          /\ pc' = (IF TooLong(Synced(open)[0]) THEN "rollover" ELSE "write")
          /\ record \in Records
      BY <1>1 DEF ShouldRollover, Goto, StepsFit
    <2> HIDE DEF open
    <2>2. /\ Held(Synced(open), 0) \in Seq(Records)
          /\ \A k \in Files : Sized(Held(Synced(open), k))
          /\ Sized(Held(Synced(open), 0) \o <<>>)
      BY <1>o, <1>s
    <2>3. Synced(open)[0] = Held(Synced(open), 0)
      <3>1. Synced(open)[0] \in Seq(Records)
        BY <1>0, <1>o, SyncedTyped DEF Synced, Disks
      <3> QED
        BY <3>1, RotatingAssumption DEF Held, RotatingAssumption
    <2>4. pc' = "write" => Bytes(Held(Synced(open), 0)) + record.text[1] < maxBytes
      <3>1. Bytes(Held(Synced(open), 0)) \in Nat /\ record.text[1] \in Nat
        BY <2>1, <2>2, BytesTyped, RotatingAssumption DEF Records, RotatingAssumption
      <3> QED
        BY <1>0, <2>1, <2>3, <3>1 DEF TooLong
    <2> QED
      BY <2>1, <2>2, <2>4
  <1>2. CASE CloseStream
    <2>1. /\ disk' = Synced(disk) /\ buffer' = <<>> /\ pc' = "shift" /\ stream
      BY <1>2 DEF CloseStream, Goto, StepsFit
    <2> QED
      BY <1>0, <1>s, <2>1 DEF StepsFit
  <1>3. CASE RemoveFile
    <2>1. /\ i \in 0 .. backupCount - 1 /\ disk' = [disk EXCEPT ![i + 1] = None]
          /\ buffer' = buffer /\ pc' = "shift"
      BY <1>3 DEF RemoveFile, Due, StepsFit
    <2>2. \A k \in Files : Held(disk', k) = IF k = i + 1 THEN <<>> ELSE Held(disk, k)
      BY <1>0, <2>1 DEF Held, Disks, Files
    <2>3. Held(disk', 0) = Held(disk, 0)
      <3>1. 0 # i + 1
        BY <2>1
      <3> QED
        BY <1>0, <2>2, <3>1, Zenon
    <2> QED
      BY <1>i, <2>1, <2>2, <2>3, EmptySized
  <1>4. CASE RenameFile
    <2>1. /\ i \in 0 .. backupCount - 1 /\ i \in Files
          /\ disk' = [disk EXCEPT ![i + 1] = disk[i], ![i] = None]
          /\ buffer' = buffer /\ buffer = <<>> /\ pc' = IF i = 0 THEN "reopen" ELSE "shift"
      BY <1>0, <1>4 DEF RenameFile, NextFile, Goto, Due, StepsFit, TypeOK, Files
    <2>2. \A k \in Files :
             Held(disk', k) = IF k = i THEN <<>>
                              ELSE IF k = i + 1 THEN Held(disk, i) ELSE Held(disk, k)
      BY <1>0, <2>1 DEF Held, Disks, Files
    <2>3. Held(disk', 0) = (IF i = 0 THEN <<>> ELSE Held(disk, 0))
      <3>1. 0 # i + 1
        BY <2>1
      <3> QED
        BY <1>0, <2>2, <3>1, Zenon
    <2>4. \A k \in Files : Sized(Held(disk', k))
      BY <1>i, <2>1, <2>2, EmptySized
    <2>5. Held(disk', 0) \o buffer' = Held(disk', 0)
      BY <1>0, <1>e, <2>1, <2>3, EmptyRecords
    <2> QED
      BY <1>0, <2>1, <2>3, <2>4, <2>5
  <1>5. CASE SkipFile
    (* The base file is never skipped. *)
    <2>1. disk' = disk /\ buffer' = buffer /\ pc' = "shift"
      BY <1>5 DEF SkipFile, NextFile, Goto, Due
    <2> QED
      BY <1>i, <2>1
  <1>6. CASE Reopen \/ Restart
    <2>1. /\ disk' \in {disk, Opened(disk)} /\ buffer' = buffer
          /\ \/ pc = "reopen" /\ pc' = "write"
             \/ pc' = "idle"
      BY <1>6 DEF Reopen, Restart, Goto, Return
    <2>2. \A k \in Files : Held(disk', k) = Held(disk, k)
      BY <1>o, <2>1
    <2> QED
      BY <1>0, <1>i, <2>1, <2>2
  <1>7. CASE Write
    <2> DEFINE text == Append(buffer, record)
    <2>1. /\ disk' = (IF stream_has_flush THEN [open EXCEPT ![0] = @ \o text] ELSE open)
          /\ buffer' = (IF stream_has_flush THEN <<>> ELSE text)
          /\ pc = "write" /\ pc' = "idle" /\ record \in Records
      BY <1>7 DEF Write, Return, StepsFit
    <2>2. /\ text = <<record>> /\ text \in Seq(Records)
          /\ Held(disk, 0) \o text = Append(Held(disk, 0), record)
      <3>1. text = <<record>>
        BY <1>i, <2>1
      <3>2. text \in Seq(Records)
        BY <1>0, <2>1, AppendProperties
      <3>3. Held(disk, 0) \o <<record>> = Append(Held(disk, 0), record)
        BY <1>0, <2>1, AppendIsConcat
      <3> QED
        BY <3>1, <3>2, <3>3
    <2>3. Sized(Held(disk, 0) \o text)
      BY <1>0, <1>i, <2>1, <2>2, RoomSized
    <2> HIDE DEF open, text
    <2>4. /\ Held([open EXCEPT ![0] = @ \o text], 0) = Held(disk, 0) \o text
          /\ \A k \in Files \ {0} : Held([open EXCEPT ![0] = @ \o text], k) = Held(disk, k)
      BY <1>0, <1>o, <2>2, AddedHolds
    <2>5. (Held(disk, 0) \o text) \o <<>> = Held(disk, 0) \o text
      BY <1>0, <1>e, <2>2, ConcatProperties
    <2>6. CASE stream_has_flush
      BY <1>i, <2>1, <2>3, <2>4, <2>5, <2>6
    <2>7. CASE ~ stream_has_flush
      BY <1>0, <1>i, <1>o, <2>1, <2>3, <2>7
    <2> QED
      BY <2>6, <2>7
  <1>8. CASE Flush \/ Close \/ FlushOfCloseFails
    <2>1. /\ stream /\ pc' = "idle"
          /\ \/ disk' = Synced(disk) /\ buffer' = <<>>
             \/ disk' = disk /\ buffer' = buffer
      BY <1>8 DEF Flush, Close, FlushOfCloseFails, Fails, Return
    <2>2. CASE disk' = Synced(disk) /\ buffer' = <<>>
      BY <1>0, <1>s, <2>1, <2>2 DEF StepsFit
    <2>3. CASE disk' = disk /\ buffer' = buffer
      BY <1>i, <2>1, <2>3
    <2> QED
      BY <2>1, <2>2, <2>3
  <1>9. CASE Crash \/ CloseFails
    <2>1. disk' = disk /\ buffer' = <<>> /\ pc' \in {"dead", "idle"}
      BY <1>9 DEF Crash, CloseFails, Fails, Return
    <2>2. Held(disk, 0) \o <<>> = Held(disk, 0)
      BY <1>0, <1>e
    <2> QED
      BY <1>0, <1>i, <2>1, <2>2
  <1>10. CASE Fail \/ SeekClosed \/ CloseStreamFails \/ FlushFails
    BY <1>10, <1>i DEF Fail, SeekClosed, CloseStreamFails, FlushFails, Fails, Return, files
  <1>13. CASE UseFails
    <2>1. disk' = open /\ buffer' = buffer /\ pc' = "idle"
      BY <1>13 DEF UseFails, Fails, Return
    <2> QED
      BY <1>0, <1>i, <1>o, <2>1
  <1>14. CASE FlushOfEmitFails
    <2>1. /\ disk' = open /\ buffer' = <<record>> /\ record \in Records /\ pc' = "idle"
          /\ Held(disk, 0) = <<>> \/ Bytes(Held(disk, 0)) + record.text[1] < maxBytes
      BY <1>14, <1>i DEF FlushOfEmitFails, Fails, Return, StepsFit
    <2>2. Held(disk, 0) \o <<record>> = Append(Held(disk, 0), record)
      BY <1>0, <2>1, AppendIsConcat
    <2>3. Sized(Held(disk, 0) \o <<record>>)
      BY <1>0, <2>1, <2>2, RoomSized
    <2> QED
      BY <1>0, <1>i, <1>o, <2>1, <2>3
  <1>11. ASSUME NEW text \in Texts, Emit(text)
         PROVE  disk' = disk /\ buffer' = buffer /\ pc' = "ask"
    BY <1>11 DEF Emit, files
  <1>12. CASE UNCHANGED vars
    BY <1>12, <1>i DEF vars, files
  <1> HIDE DEF open
  <1> QED
    BY <1>1, <1>2, <1>3, <1>4, <1>5, <1>6, <1>7, <1>8, <1>9, <1>10, <1>11, <1>12, <1>13,
       <1>14, <1>i DEF Next

(* When no text takes more bytes than it has characters, no file of more    *)
(* than one record grows to maxBytes, although shouldRollover adds the      *)
(* characters of the one to the bytes of the other, and a rollover that     *)
(* failed is tried again over files it has already moved (handlers.py:232). *)
THEOREM FilesStayBounded ==
    (\A text \in Texts : text[2] <= text[1]) => (Spec => []SizesBounded)
  <1> SUFFICES ASSUME \A text \in Texts : text[2] <= text[1]
               PROVE  Spec => []SizesBounded
    OBVIOUS
  <1>1. TypeOK /\ SizesFit => SizesBounded
    <2> SUFFICES ASSUME TypeOK, SizesFit, maxBytes > 0 /\ backupCount > 0,
                        NEW k \in Files, Len(Content(k)) > 1
                 PROVE  Bytes(Content(k)) < maxBytes
      BY DEF SizesBounded
    <2>1. Content(k) \in Seq(Records) /\ Sized(Content(k))
      BY HeldTyped DEF TypeOK, Disks, Content, SizesFit
    <2> QED
      BY <2>1, SizedBounded
  <1> QED
    BY <1>1, RotatingInit, RotatingStep, SizesInit, SizesStep, PTL DEF Spec
=============================================================================
