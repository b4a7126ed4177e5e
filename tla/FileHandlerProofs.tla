--------------------------- MODULE FileHandlerProofs ---------------------------
(***************************************************************************)
(* Proofs about the handlers of files that others may move or that roll     *)
(* over by the clock.  WatchedFile, for any inodes, records and faults: its *)
(* types, and, in mode "a", that every record goes where it should and      *)
(* stays.  TimedRotatingFile, for any lengths of hours and days and any     *)
(* changes of the clocks: its types; for handlers in universal time when    *)
(* they roll over, what each file holds, and that only the oldest go; and   *)
(* when a daily one in local time rolls over, if no day's atTime is skipped.*)
(***************************************************************************)
EXTENDS WatchedFile, TimedRotatingFile, SequenceTheorems, FiniteSetTheorems, TLAPS

(* An emit in progress has a record to write, and opens without a stream.   *)
RoomLeft ==
    /\ pc # "idle" => done < MaxRecords
    /\ pc = "open" => stream = None

(* Unless a stream was opened past _statstream, ino is the stream's inode;  *)
(* with delay it is None until the first reopening.                         *)
InoFollows == ~ blind /\ stream # None => ino \in {None, stream}

(* The stream that emit is about to write to has had the name meanwhile.    *)
AboutToWrite == ~ blind /\ pc = "emit" /\ stream # None => stream \in names

(* A file without a name holds only records that count as removed.          *)
NamelessGone ==
    \A i \in Inodes \ (moved \cup {named}) :
        /\ Range(content[i]) \subseteq removed
        /\ i = stream => Range(buffer) \subseteq removed

WatchedInv ==
    /\ TypeOK /\ RoomLeft /\ InoFollows /\ AboutToWrite /\ NamelessGone
    /\ ~ blind => WrittenAtName
    /\ Kept

-----------------------------------------------------------------------------
(* What sequences of records hold after they are joined or appended to.     *)
LEMMA Joined ==
    ASSUME NEW S, NEW s \in Seq(S), NEW t \in Seq(S)
    PROVE  s \o t \in Seq(S) /\ Range(s \o t) = Range(s) \cup Range(t)
  BY ConcatProperties, RangeConcatenation

LEMMA Added ==
    ASSUME NEW S, NEW s \in Seq(S), NEW x \in S
    PROVE  Append(s, x) \in Seq(S) /\ Range(Append(s, x)) = Range(s) \cup {x}
  <1>1. /\ Append(s, x) \in Seq(S)
        /\ Len(Append(s, x)) = Len(s) + 1
        /\ \A i \in 1 .. Len(s) : Append(s, x)[i] = s[i]
        /\ Append(s, x)[Len(s) + 1] = x
    BY AppendProperties
  <1>2. Len(s) \in Nat /\ Range(s) = {s[i] : i \in 1 .. Len(s)}
        /\ Range(Append(s, x)) = {Append(s, x)[i] : i \in 1 .. Len(s) + 1}
    BY <1>1, RangeEquality, LenProperties
  <1>3. 1 .. Len(s) + 1 = (1 .. Len(s)) \cup {Len(s) + 1}
    BY <1>2
  <1> QED
    BY <1>1, <1>2, <1>3

LEMMA NoneIn == ASSUME NEW S PROVE <<>> \in Seq(S) /\ Range(<<>>) = {}
  <1>1. <<>> \in Seq(S) /\ Len(<<>>) = 0
    BY EmptySeq
  <1> QED
    BY <1>1, LenProperties DEF Range

(* What flush leaves in the files.                                          *)
LEMMA FlushedFiles ==
    ASSUME TypeOK
    PROVE  /\ Flushed \in [Inodes -> Seq(1 .. MaxRecords)]
           /\ \A i \in Inodes :
                 Range(Flushed[i]) = Range(content[i])
                                     \cup (IF i = stream THEN Range(buffer) ELSE {})
  <1>1. CASE stream = None
    BY <1>1, WatchedAssumption DEF Flushed, TypeOK, WatchedAssumption
  <1>2. CASE stream # None
    <2>1. stream \in Inodes /\ content \in [Inodes -> Seq(1 .. MaxRecords)]
          /\ buffer \in Seq(1 .. MaxRecords)
      BY <1>2 DEF TypeOK
    <2>2. /\ content[stream] \o buffer \in Seq(1 .. MaxRecords)
          /\ Range(content[stream] \o buffer) = Range(content[stream]) \cup Range(buffer)
      BY <2>1, Joined
    <2>3. Flushed = [content EXCEPT ![stream] = content[stream] \o buffer]
      BY <1>2 DEF Flushed
    <2> QED
      BY <2>1, <2>2, <2>3
  <1> QED
    BY <1>1, <1>2

(* The file that open returns: the one of the name as it was, or an empty   *)
(* one that was free.                                                       *)
LEMMA Opened ==
    ASSUME TypeOK, NEW i \in Inodes, Open(i)
    PROVE  /\ content' \in [Inodes -> Seq(1 .. MaxRecords)]
           /\ \A j \in Inodes \ {i} : content'[j] = content[j]
           /\ \/ named = i /\ (mode = "a" => content' = content)
              \/ named = None /\ i \in Free /\ Range(content'[i]) = {}
  <1>1. <<>> \in Seq(1 .. MaxRecords) /\ Range(<<>>) = {}
    BY NoneIn
  <1>2. content \in [Inodes -> Seq(1 .. MaxRecords)] /\ i # None
    BY WatchedAssumption DEF TypeOK, WatchedAssumption
  <1>3. CASE named = None
    BY <1>1, <1>2, <1>3 DEF Open, Fresh
  <1>4. CASE named # None
    BY <1>1, <1>2, <1>4 DEF Open, Fresh
  <1> QED
    BY <1>3, <1>4

LEMMA WatchedTypesInit == Init => TypeOK
  <1> SUFFICES ASSUME Init PROVE TypeOK
    OBVIOUS
  <1> USE WatchedAssumption DEF WatchedAssumption
  <1>1. <<>> \in Seq(1 .. MaxRecords)
    BY NoneIn
  <1>2. content \in [Inodes -> Seq(1 .. MaxRecords)] /\ buffer \in Seq(1 .. MaxRecords)
    BY <1>1 DEF Init
  <1>3. /\ named \in Inodes \cup {None} /\ stream \in Inodes \cup {None}
        /\ ino \in Inodes \cup {None} /\ moved \subseteq Inodes \ {named}
    BY DEF Init
  <1>4. hasFlush \in BOOLEAN /\ blind \in BOOLEAN
    BY DEF Init
  <1>5. stream = None \/ hasFlush => buffer = <<>>
    BY DEF Init
  <1>6. /\ pc \in {"idle", "open", "emit"}
        /\ faults \in 0 .. MaxFaults /\ done \in 0 .. MaxRecords
        /\ removed \subseteq 1 .. MaxRecords
        /\ names \subseteq Inodes \cup {None} /\ target \in Inodes \cup {None}
    BY DEF Init
  <1> QED
    BY <1>2, <1>3, <1>4, <1>5, <1>6 DEF TypeOK

(* Every action keeps the variables in their types.                         *)
LEMMA WatchedTypesStep == TypeOK /\ RoomLeft /\ [Next]_vars => TypeOK'
  <1> SUFFICES ASSUME TypeOK, RoomLeft, [Next]_vars PROVE TypeOK'
    OBVIOUS
  <1> USE WatchedAssumption DEF WatchedAssumption
  <1>0. /\ <<>> \in Seq(1 .. MaxRecords)
        /\ content \in [Inodes -> Seq(1 .. MaxRecords)]
    BY NoneIn DEF TypeOK
  <1>1. CASE Stat
    BY <1>0, <1>1, FlushedFiles DEF Stat, TypeOK
  <1>2. CASE OpenFails
    BY <1>2 DEF OpenFails, TypeOK, files, handler
  <1>3. CASE Write
    <2>1. done' \in 1 .. MaxRecords /\ stream \in Inodes
      BY <1>3 DEF Write, RoomLeft, TypeOK
    <2>2. /\ Append(buffer, done') \in Seq(1 .. MaxRecords)
          /\ Append(content[stream], done') \in Seq(1 .. MaxRecords)
      BY <2>1, Added DEF TypeOK
    <2>3. content' \in [Inodes -> Seq(1 .. MaxRecords)]
          /\ buffer' \in Seq(1 .. MaxRecords)
      BY <1>0, <1>3, <2>1, <2>2 DEF Write, TypeOK
    <2>4. stream' = None \/ hasFlush' => buffer' = <<>>
      BY <1>3 DEF Write, TypeOK
    <2>5. removed' \subseteq 1 .. MaxRecords /\ done' \in 0 .. MaxRecords
      BY <1>3, <2>1 DEF Write, TypeOK
    <2>6. target' \in Inodes \cup {None} /\ pc' \in {"idle", "open", "emit"}
      BY <1>3, <2>1 DEF Write
    <2> QED
      BY <1>3, <2>3, <2>4, <2>5, <2>6 DEF Write, TypeOK
  <1>4. CASE Close
    BY <1>0, <1>4, FlushedFiles DEF Close, TypeOK
  <1>5. CASE Move
    BY <1>5 DEF Move, TypeOK, handler
  <1>6. ASSUME NEW i \in Inodes, Reopen(i) PROVE TypeOK'
    <2>1. /\ content' \in [Inodes -> Seq(1 .. MaxRecords)]
          /\ named' = i /\ stream' = i /\ moved' = moved /\ i \notin moved
          /\ names' = names \cup {i}
      BY <1>6, Opened DEF Reopen, Open, Fresh, Free, TypeOK
    <2>2. hasFlush' => buffer' = <<>>
      BY <1>6 DEF Reopen, TypeOK
    <2> QED
      BY <1>6, <2>1, <2>2 DEF Reopen, TypeOK
  <1>7. ASSUME NEW i \in Inodes, OpenLate(i) PROVE TypeOK'
    <2>1. /\ content' \in [Inodes -> Seq(1 .. MaxRecords)]
          /\ named' = i /\ stream' = i /\ moved' = moved /\ i \notin moved
          /\ names' = names \cup {i}
      BY <1>7, Opened DEF OpenLate, Open, Fresh, Free, TypeOK
    <2>2. hasFlush' => buffer' = <<>>
      BY <1>7 DEF OpenLate, TypeOK
    <2> QED
      BY <1>7, <2>1, <2>2 DEF OpenLate, TypeOK
  <1>8. ASSUME NEW i \in Inodes, Unlink(i) PROVE TypeOK'
    <2>1. Range(content[i]) \subseteq 1 .. MaxRecords
          /\ Range(buffer) \subseteq 1 .. MaxRecords
      BY <1>0, RangeOfSeq DEF TypeOK
    <2> QED
      BY <1>8, <2>1 DEF Unlink, TypeOK, handler
  <1>9. ASSUME NEW i \in Inodes, Make(i) PROVE TypeOK'
    BY <1>0, <1>9 DEF Make, Free, TypeOK, handler
  <1>10. CASE UNCHANGED vars
    BY <1>10 DEF TypeOK, vars, files, handler
  <1> QED
    BY <1>1, <1>2, <1>3, <1>4, <1>5, <1>6, <1>7, <1>8, <1>9, <1>10 DEF Next

(* An emit in progress keeps its record, and reopens what is closed.        *)
LEMMA RoomStep == TypeOK /\ RoomLeft /\ [Next]_vars => RoomLeft'
  BY WatchedAssumption
     DEF WatchedAssumption, TypeOK, RoomLeft, Next, Stat, OpenFails, Write, Close,
         Move, Reopen, OpenLate, Unlink, Make, Open, vars, files, handler

(* Every reachable state of the handler, its files and those of other       *)
(* programs is well typed: nothing is buffered without a stream, or with    *)
(* one that is flushed.                                                     *)
THEOREM WatchedTypesHold == Spec => []TypeOK
  <1>1. Init => TypeOK /\ RoomLeft
    BY WatchedTypesInit DEF Init, RoomLeft
  <1> QED
    BY <1>1, RoomStep, WatchedTypesStep, PTL DEF Spec

-----------------------------------------------------------------------------
(* Each part of the invariant is kept by every action.                      *)
LEMMA InoStep == TypeOK /\ InoFollows /\ [Next]_vars => InoFollows'
  BY DEF TypeOK, InoFollows, Next, Stat, OpenFails, Write, Close,
         Move, Reopen, OpenLate, Unlink, Make, Open, vars, files, handler

LEMMA AboutStep == TypeOK /\ InoFollows /\ AboutToWrite /\ [Next]_vars => AboutToWrite'
  <1> SUFFICES ASSUME TypeOK, InoFollows, AboutToWrite, [Next]_vars PROVE AboutToWrite'
    OBVIOUS
  <1> USE WatchedAssumption DEF WatchedAssumption, TypeOK, InoFollows, AboutToWrite
  <1>1. CASE Stat
    BY <1>1 DEF Stat
  <1>2. CASE ~ Stat
    BY <1>2 DEF Next, OpenFails, Write, Close, Move, Reopen, OpenLate, Unlink, Make,
           Open, vars, files, handler
  <1> QED
    BY <1>1, <1>2

LEMMA WrittenStep ==
    TypeOK /\ AboutToWrite /\ (~ blind => WrittenAtName) /\ [Next]_vars
        => (~ blind => WrittenAtName)'
  BY DEF TypeOK, AboutToWrite, WrittenAtName, Next, Stat, OpenFails, Write, Close,
         Move, Reopen, OpenLate, Unlink, Make, Open, vars, files, handler

(* Flushing a stream that is closed next moves records from the buffer to   *)
(* the file, and loses none.                                                *)
LEMMA FlushKeeps ==
    ASSUME TypeOK, NamelessGone, Kept,
           content' = Flushed, buffer' = <<>>, stream' = None,
           UNCHANGED <<named, moved, removed, done>>
    PROVE  NamelessGone' /\ Kept'
  <1>1. /\ \A i \in Inodes :
              Range(content'[i]) = Range(content[i])
                                   \cup (IF i = stream THEN Range(buffer) ELSE {})
        /\ stream = None => Range(buffer) = {}
    BY FlushedFiles, NoneIn DEF TypeOK
  <1>2. Range(buffer') = {}
    BY NoneIn
  <1>3. NamelessGone'
    BY <1>1, <1>2 DEF NamelessGone
  <1>4. Kept'
    BY <1>1, <1>2 DEF Kept, TypeOK
  <1> QED
    BY <1>3, <1>4

(* A file that is opened, or made by others, keeps what it has under a      *)
(* name; what a nameless one had counts as removed.                         *)
LEMMA OpenKeeps ==
    ASSUME TypeOK, NamelessGone, Kept, NEW i \in Inodes,
           Open(i), mode = "a", stream = None, UNCHANGED <<buffer, removed, done>>
    PROVE  NamelessGone' /\ Kept'
  <1>1. /\ \A j \in Inodes \ {i} : content'[j] = content[j]
        /\ \/ named = i /\ content' = content
           \/ named = None /\ i \in Free /\ Range(content'[i]) = {}
    BY Opened
  <1>2. named' = i /\ stream' = i /\ moved' = moved
    BY DEF Open
  <1>3. Range(buffer) = {}
    BY NoneIn DEF TypeOK
  <1>4. named # None => named = i
    BY DEF Open, Fresh
  <1>5. NamelessGone'
    BY <1>1, <1>2, <1>3, <1>4, WatchedAssumption DEF NamelessGone, WatchedAssumption
  <1>6. Kept'
    <2>1. \A j \in Inodes : Range(content[j]) \subseteq Range(content'[j]) \cup removed
      BY <1>1 DEF NamelessGone, Free
    <2> QED
      BY <2>1 DEF Kept
  <1> QED
    BY <1>5, <1>6

LEMMA KeptStep ==
    ASSUME mode = "a", TypeOK, RoomLeft, NamelessGone, Kept, [Next]_vars
    PROVE  NamelessGone' /\ Kept'
  <1> USE WatchedAssumption DEF WatchedAssumption
  <1>1. CASE Stat
    <2>1. CASE content' = Flushed /\ buffer' = <<>> /\ stream' = None
      BY <1>1, <2>1, FlushKeeps DEF Stat
    <2>2. CASE UNCHANGED <<content, stream, buffer>>
      BY <1>1, <2>2 DEF Stat, NamelessGone, Kept
    <2> QED
      BY <1>1, <2>1, <2>2 DEF Stat
  <1>2. CASE OpenFails
    BY <1>2 DEF OpenFails, NamelessGone, Kept, files, handler
  <1>3. CASE Write
    <2>1. done' \in 1 .. MaxRecords /\ stream \in Inodes /\ done \in Nat /\ done' = done + 1
      BY <1>3 DEF Write, RoomLeft, TypeOK
    <2>2. /\ Range(Append(buffer, done')) = Range(buffer) \cup {done'}
          /\ Range(Append(content[stream], done')) = Range(content[stream]) \cup {done'}
      <3>1. buffer \in Seq(1 .. MaxRecords) /\ content[stream] \in Seq(1 .. MaxRecords)
        BY <2>1 DEF TypeOK
      <3> QED
        BY <2>1, <3>1, Added
    <2>3. \A r \in 1 .. done' : r \in 1 .. done \/ r = done'
      BY <2>1
    <2>4. CASE hasFlush
      <3>1. /\ buffer' = buffer /\ stream' = stream
            /\ \A j \in Inodes :
                  Range(content'[j]) = Range(content[j])
                                       \cup (IF j = stream THEN {done'} ELSE {})
        BY <1>3, <2>1, <2>2, <2>4 DEF Write, TypeOK
      <3>2. NamelessGone'
        BY <1>3, <2>1, <3>1 DEF Write, NamelessGone
      <3>3. Kept'
        BY <1>3, <2>1, <2>3, <3>1 DEF Write, Kept
      <3> QED
        BY <3>2, <3>3
    <2>5. CASE ~ hasFlush
      <3>1. content' = content /\ stream' = stream /\ Range(buffer') = Range(buffer) \cup {done'}
        BY <1>3, <2>2, <2>5 DEF Write
      <3>2. NamelessGone'
        BY <1>3, <2>1, <3>1 DEF Write, NamelessGone
      <3>3. Kept'
        BY <1>3, <2>1, <2>3, <3>1 DEF Write, Kept
      <3> QED
        BY <3>2, <3>3
    <2> QED
      BY <2>4, <2>5
  <1>4. CASE Close
    BY <1>4, FlushKeeps DEF Close
  <1>5. CASE Move
    BY <1>5 DEF Move, NamelessGone, Kept, handler
  <1>6. ASSUME NEW i \in Inodes, Reopen(i) PROVE NamelessGone' /\ Kept'
    BY <1>6, OpenKeeps DEF Reopen, RoomLeft
  <1>7. ASSUME NEW i \in Inodes, OpenLate(i) PROVE NamelessGone' /\ Kept'
    BY <1>7, OpenKeeps DEF OpenLate
  <1>8. ASSUME NEW i \in Inodes, Unlink(i) PROVE NamelessGone' /\ Kept'
    BY <1>8 DEF Unlink, NamelessGone, Kept, handler
  <1>9. ASSUME NEW i \in Inodes, Make(i) PROVE NamelessGone' /\ Kept'
    <2>1. /\ Range(content'[i]) = {} /\ i \in Free /\ named' = i /\ moved' = moved
          /\ UNCHANGED <<stream, buffer, removed, done>>
          /\ \A j \in Inodes \ {i} : content'[j] = content[j]
      BY <1>9, NoneIn DEF Make, TypeOK, handler
    <2>2. NamelessGone'
      BY <1>9, <2>1 DEF Make, NamelessGone
    <2>3. \A j \in Inodes : Range(content[j]) \subseteq Range(content'[j]) \cup removed
      BY <2>1 DEF NamelessGone, Free
    <2>4. Kept'
      BY <2>1, <2>3 DEF Kept
    <2> QED
      BY <2>2, <2>4
  <1>10. CASE UNCHANGED vars
    BY <1>10 DEF NamelessGone, Kept, vars, files, handler
  <1> QED
    BY <1>1, <1>2, <1>3, <1>4, <1>5, <1>6, <1>7, <1>8, <1>9, <1>10 DEF Next

LEMMA WatchedInit == Init => WatchedInv
  <1> SUFFICES ASSUME Init PROVE WatchedInv
    OBVIOUS
  <1> USE WatchedAssumption DEF WatchedAssumption
  <1>1. TypeOK
    BY WatchedTypesInit
  <1>2. RoomLeft /\ InoFollows /\ AboutToWrite
    BY DEF Init, RoomLeft, InoFollows, AboutToWrite
  <1>3. NamelessGone
    BY NoneIn DEF Init, NamelessGone
  <1>4. WrittenAtName /\ Kept
    BY DEF Init, WrittenAtName, Kept
  <1> QED
    BY <1>1, <1>2, <1>3, <1>4 DEF WatchedInv

(* In mode "a", unless a stream was opened past _statstream, every record   *)
(* goes to a file that had the handler's name while it was emitted; and     *)
(* none is lost but with a file that other programs remove, whatever they   *)
(* do to the files between two system calls (handlers.py:46, 63).           *)
THEOREM FileIsFollowed == ASSUME mode = "a" PROVE Spec => []FollowsFile
  <1>1. WatchedInv /\ [Next]_vars => WatchedInv'
    <2> SUFFICES ASSUME WatchedInv, [Next]_vars PROVE WatchedInv'
      OBVIOUS
    <2>1. TypeOK' /\ RoomLeft' /\ InoFollows' /\ AboutToWrite'
      BY WatchedTypesStep, RoomStep, InoStep, AboutStep DEF WatchedInv
    <2>2. (~ blind => WrittenAtName)'
      BY WrittenStep DEF WatchedInv
    <2>3. NamelessGone' /\ Kept'
      BY KeptStep DEF WatchedInv
    <2> QED
      BY <2>1, <2>2, <2>3 DEF WatchedInv
  <1>2. WatchedInv => FollowsFile
    BY DEF WatchedInv, FollowsFile
  <1> QED
    BY WatchedInit, <1>1, <1>2, PTL DEF Spec

-----------------------------------------------------------------------------
(* Quotients and remainders, and multiples of a positive number.            *)
LEMMA MultiplesApart ==
    ASSUME NEW d \in Nat \ {0}, NEW x \in Int, NEW y \in Int, x < y
    PROVE  d * x \in Int /\ d * y \in Int /\ d * x + d <= d * y
  <1>1. PICK k \in Nat : y = x + 1 + k
    <2>1. y - x - 1 \in Nat /\ y = x + 1 + (y - x - 1)
      OBVIOUS
    <2> QED
      BY <2>1
  <1>2. d * (x + 1 + k) = d * x + d + d * k /\ d * k >= 0 /\ d * x \in Int
    OBVIOUS
  <1> QED
    BY <1>1, <1>2

LEMMA Division ==
    ASSUME NEW d \in Nat \ {0}, NEW t \in Int
    PROVE  /\ t \div d \in Int /\ t % d \in 0 .. d - 1
           /\ d * (t \div d) \in Int /\ t = d * (t \div d) + (t % d)
  OBVIOUS

LEMMA DivisionIs ==
    ASSUME NEW d \in Nat \ {0}, NEW t \in Int, NEW q \in Int, NEW r \in 0 .. d - 1,
           t = d * q + r
    PROVE  t \div d = q /\ t % d = r
  <1> DEFINE p == t \div d
  <1>1. p \in Int /\ t % d \in 0 .. d - 1 /\ d * p \in Int /\ t = d * p + (t % d)
    BY Division
  <1> HIDE DEF p
  <1>2. d * q \in Int
    OBVIOUS
  <1>3. ~ p < q
    <2> SUFFICES ASSUME p < q PROVE FALSE
      OBVIOUS
    <2>1. d * p + d <= d * q
      BY <1>1, MultiplesApart
    <2> QED
      BY <1>1, <1>2, <2>1
  <1>4. ~ q < p
    <2> SUFFICES ASSUME q < p PROVE FALSE
      OBVIOUS
    <2>1. d * q + d <= d * p
      BY <1>1, MultiplesApart
    <2> QED
      BY <1>1, <1>2, <2>1
  <1>5. p = q
    BY <1>1, <1>3, <1>4
  <1> QED
    BY <1>1, <1>2, <1>5 DEF p

-----------------------------------------------------------------------------
(* The first time from t on at atTime of its day, or, without an atTime, at *)
(* the midnight that ends it; whether it is tomorrow's (Passed), and the    *)
(* days and ticks that atTime lies after midnight.                          *)
Passed(t) == IF config.atTime - (t % Day) < 0 THEN 1 ELSE 0
Nights == config.atTime \div Day
Offset == config.atTime % Day

FirstAt(t) ==
    LET r == config.atTime - (t % Day)
    IN  t + (IF r < 0 THEN r + Day ELSE r)

LEMMA OffsetFits ==
    ASSUME config \in Configs
    PROVE  /\ Nights \in {0, 1} /\ Offset \in 0 .. Day - 1
           /\ config.atTime = Day * Nights + Offset
           /\ Nights = 1 => config.atTime = Day /\ Offset = 0
           /\ Nights = 0 => config.atTime = Offset
  <1>1. config.atTime \in 0 .. Day /\ Day \in Nat \ {0}
    BY TimedAssumption
  <1>2. CASE config.atTime = Day
    <2>1. config.atTime = Day * 1 + 0
      BY <1>1, <1>2
    <2> QED
      BY <1>1, <1>2, <2>1, DivisionIs DEF Nights, Offset
  <1>3. CASE config.atTime # Day
    <2>1. config.atTime = Day * 0 + config.atTime /\ config.atTime \in 0 .. Day - 1
      BY <1>1, <1>3
    <2>2. config.atTime \div Day = 0 /\ config.atTime % Day = config.atTime
      BY <1>1, <2>1, DivisionIs
    <2>3. Nights = 0 /\ Offset = config.atTime
      BY <2>2 DEF Nights, Offset
    <2> QED
      BY <1>1, <2>1, <2>3
  <1> QED
    BY <1>2, <1>3

LEMMA FirstAtIs ==
    ASSUME config \in Configs, NEW t \in Int
    PROVE  LET Q == (t \div Day) + Passed(t) + Nights
           IN  /\ Q \in Int /\ FirstAt(t) = Day * Q + Offset
               /\ FirstAt(t) \in t .. t + Day
               /\ config.atTime = Day => FirstAt(t) > t
               /\ \A p \in Int : p < Q => Day * p + Offset <= t
  <1> DEFINE q == t \div Day
             m == t % Day
             e == Passed(t)
             Q == q + e + Nights
  <1>1. Day \in Nat \ {0} /\ config.atTime \in 0 .. Day
    BY TimedAssumption
  <1>2. q \in Int /\ m \in 0 .. Day - 1 /\ Day * q \in Int /\ t = Day * q + m
    BY <1>1, Division
  <1>3. /\ Nights \in {0, 1} /\ Offset \in 0 .. Day - 1
        /\ config.atTime = Day * Nights + Offset
        /\ Nights = 1 => config.atTime = Day /\ Offset = 0
        /\ Nights = 0 => config.atTime = Offset
    BY OffsetFits
  <1>4. e = IF config.atTime < m THEN 1 ELSE 0
    BY <1>1, <1>2 DEF Passed
  <1>5. FirstAt(t) = t + (IF config.atTime < m THEN config.atTime - m + Day ELSE config.atTime - m)
    BY <1>1, <1>2 DEF FirstAt
  <1> HIDE DEF q, m, e
  <1>6. Q \in Int /\ Day * Q = Day * q + Day * e + Day * Nights
    BY <1>1, <1>2, <1>3, <1>4
  <1>7. Day * 0 = 0 /\ Day * 1 = Day
    BY <1>1
  <1>8. FirstAt(t) = Day * Q + Offset
    BY <1>1, <1>2, <1>3, <1>4, <1>5, <1>6, <1>7
  <1>9. FirstAt(t) \in t .. t + Day /\ (config.atTime = Day => FirstAt(t) > t)
    BY <1>1, <1>2, <1>5
  <1>10. ASSUME NEW p \in Int, p < Q PROVE Day * p + Offset <= t
    <2>1. Day * p + Day <= Day * Q /\ Day * p \in Int /\ Day * Q \in Int
      BY <1>1, <1>6, <1>10, MultiplesApart
    <2> QED
      BY <1>1, <1>2, <1>3, <1>4, <1>6, <1>7, <2>1
  <1> QED
    BY <1>6, <1>8, <1>9, <1>10 DEF q, e

(* In universal time: the times the handler rolls over at, ...              *)
LEMMA ScheduledIs ==
    ASSUME utc, NEW t \in Int
    PROVE  Scheduled(t) <=>
              /\ t % Day = Offset
              /\ when = "W" => (t \div Day) % 7 = (config.dayOfWeek + Nights) % 7
  BY DEF Scheduled, Local, WeekDay, Offset, Nights

LEMMA ScheduledAt ==
    ASSUME utc, config \in Configs, NEW p \in Int
    PROVE  Scheduled(Day * p + Offset) <=>
              (when = "W" => p % 7 = (config.dayOfWeek + Nights) % 7)
  <1>1. Day \in Nat \ {0} /\ Offset \in 0 .. Day - 1
    BY TimedAssumption, OffsetFits
  <1> DEFINE t == Day * p + Offset
  <1>2. t \in Int
    BY <1>1
  <1>3. t \div Day = p /\ t % Day = Offset
    BY <1>1, <1>2, DivisionIs
  <1> QED
    BY <1>2, <1>3, ScheduledIs

LEMMA DaysToGo ==
    ASSUME NEW q \in Int, NEW e \in {0, 1}, NEW n \in {0, 1}, NEW w \in 0 .. 6,
           NEW day, day = ((q % 7) + e) % 7, NEW j, j = (w - day) % 7
    PROVE  j \in 0 .. 6 /\ (q + e + n + j) % 7 = (w + n) % 7
  <1> DEFINE k == q \div 7
             m == q % 7
  <1>1. k \in Int /\ m \in 0 .. 6 /\ q = 7 * k + m
    OBVIOUS
  <1>2. day = IF m + e = 7 THEN 0 ELSE m + e
    BY <1>1
  <1>3. j = IF day <= w THEN w - day ELSE w - day + 7
    BY <1>1, <1>2
  <1> HIDE DEF k, m
  <1>4. PICK i \in Int : q + e + j = 7 * i + w
    <2>1. \/ q + e + j = 7 * k + w
          \/ q + e + j = 7 * (k + 1) + w
          \/ q + e + j = 7 * (k + 2) + w
      BY <1>1, <1>2, <1>3
    <2>2. k \in Int /\ k + 1 \in Int /\ k + 2 \in Int
      BY <1>1
    <2> QED
      BY <2>1, <2>2, Zenon
  <1>5. (7 * i + (w + n)) % 7 = (w + n) % 7
    BY <1>4
  <1>6. q + e + n + j = 7 * i + (w + n) /\ j \in 0 .. 6
    BY <1>1, <1>2, <1>3, <1>4
  <1> QED
    BY <1>5, <1>6

(* ... of which computeRollover gives the first from t on.                  *)
Week == IF when = "W" THEN 7 * Day ELSE Day

LEMMA ComputesFirst ==
    ASSUME utc, Daily, config \in Configs, NEW t \in Int
    PROVE  /\ computeRollover(t) \in t .. t + Week
           /\ Scheduled(computeRollover(t))
           /\ \A s \in t + 1 .. computeRollover(t) - 1 : ~ Scheduled(s)
           /\ config.atTime = Day => computeRollover(t) > t
           /\ \E p \in Int : computeRollover(t) = Day * p + Offset
  <1> DEFINE q == t \div Day
             e == Passed(t)
             Q == q + e + Nights
             day == ((q % 7) + e) % 7
             j == IF when = "W" THEN (config.dayOfWeek - day) % 7 ELSE 0
             c == computeRollover(t)
  <1>1. /\ Day \in Nat \ {0} /\ config.atTime \in 0 .. Day /\ config.dayOfWeek \in 0 .. 6
        /\ when \in {"MIDNIGHT", "W"}
    BY TimedAssumption DEF Daily, when
  <1>2. q \in Int /\ e \in {0, 1} /\ Nights \in {0, 1} /\ Offset \in 0 .. Day - 1
    BY <1>1, Division, OffsetFits DEF Passed
  <1>3. /\ Q \in Int /\ FirstAt(t) = Day * Q + Offset
        /\ FirstAt(t) \in t .. t + Day
        /\ config.atTime = Day => FirstAt(t) > t
        /\ \A p \in Int : p < Q => Day * p + Offset <= t
    BY FirstAtIs
  <1>4. c = FirstAt(t) + j * Day
    <2>1. Local(t) = t /\ WeekDay(t) = q % 7
      BY DEF Local, WeekDay
    <2>2. \A a, b : Correction(a, b) = 0
      BY DEF Correction
    <2>3. day \in 0 .. 6 /\ FirstAt(t) \in Int
      BY <1>2, <1>3
    <2>4. when = "W" /\ day = config.dayOfWeek => j = 0
      BY <1>1, <2>3
    <2>5. 0 * Day = 0 /\ j \in Int /\ j * Day \in Int
      BY <1>1, <2>3
    <2>6. c = IF when = "MIDNIGHT" \/ day = config.dayOfWeek THEN FirstAt(t)
              ELSE FirstAt(t) + ((config.dayOfWeek - day) % 7) * Day
              + Correction(t, FirstAt(t) + ((config.dayOfWeek - day) % 7) * Day)
      BY <2>1 DEF computeRollover, FirstAt, Passed, Daily
    <2> QED
      BY <1>1, <2>2, <2>3, <2>4, <2>5, <2>6
  <1>5. j \in 0 .. 6 /\ (when # "W" => j = 0)
        /\ (when = "W" => (Q + j) % 7 = (config.dayOfWeek + Nights) % 7)
    <2> DEFINE i == (config.dayOfWeek - day) % 7
    <2> HIDE DEF q, e
    <2>1. i \in 0 .. 6 /\ (Q + i) % 7 = (config.dayOfWeek + Nights) % 7
      <3>1. PICK w \in 0 .. 6 : w = config.dayOfWeek
        BY <1>1
      <3>2. PICK n \in {0, 1} : n = Nights
        BY <1>2
      <3>3. q \in Int /\ e \in {0, 1} /\ day = ((q % 7) + e) % 7 /\ i = (w - day) % 7
        BY <1>2, <3>1
      <3> HIDE DEF day, i
      <3>4. i \in 0 .. 6 /\ (q + e + n + i) % 7 = (w + n) % 7
        BY <3>3, DaysToGo
      <3> QED
        BY <3>1, <3>2, <3>4
    <2>2. j = IF when = "W" THEN i ELSE 0
      OBVIOUS
    <2> HIDE DEF i, j
    <2> QED
      BY <2>1, <2>2
  <1> HIDE DEF q, e, day, j, c
  <1>6. c = Day * (Q + j) + Offset /\ Q + j \in Int
    BY <1>1, <1>2, <1>3, <1>4, <1>5
  <1>7. Scheduled(c)
    BY <1>5, <1>6, ScheduledAt
  <1>8. c \in t .. t + Week /\ (config.atTime = Day => c > t)
    BY <1>1, <1>3, <1>4, <1>5 DEF Week
  <1>9. ASSUME NEW s \in t + 1 .. c - 1, Scheduled(s) PROVE FALSE
    <2> DEFINE p == s \div Day
    <2>1. s \in Int /\ s % Day = Offset
      BY <1>8, <1>9, ScheduledIs
    <2>2. p \in Int /\ s = Day * p + Offset
      BY <1>1, <2>1, Division
    <2>3. when = "W" => p % 7 = (config.dayOfWeek + Nights) % 7
      BY <1>9, <2>1, ScheduledIs
    <2> HIDE DEF p
    <2>4. ~ p < Q
      BY <1>3, <1>8, <2>2
    <2>5. ~ Q + j < p /\ p # Q + j
      <3> SUFFICES ASSUME Q + j <= p PROVE FALSE
        BY <1>6, <2>2
      <3>1. Q + j < p => Day * (Q + j) + Day <= Day * p /\ Day * p \in Int /\ Day * (Q + j) \in Int
        BY <1>1, <1>6, <2>2, MultiplesApart
      <3> QED
        BY <1>1, <1>2, <1>6, <1>8, <2>2, <3>1
    <2> QED
      BY <1>3, <1>5, <2>2, <2>3, <2>4, <2>5
  <1> QED
    BY <1>6, <1>7, <1>8, <1>9 DEF c

-----------------------------------------------------------------------------
(* What the handler's attributes are.                                       *)
LEMMA AttributesFit ==
    ASSUME config \in Configs
    PROVE  /\ Day \in Nat \ {0} /\ Hour \in Nat \ {0}
           /\ config.atTime \in 0 .. Day /\ config.dayOfWeek \in 0 .. 6
           /\ config.interval \in Nat \ {0} /\ config.backupCount \in Nat
           /\ config.delay \in BOOLEAN /\ utc \in BOOLEAN
           /\ when \in {"H", "D", "MIDNIGHT", "W"}
           /\ Unit \in Nat \ {0}
  <1>1. /\ Day \in Nat \ {0} /\ Hour \in Nat \ {0}
        /\ config \in [when : {"H", "D", "MIDNIGHT", "W"}, interval : Nat \ {0},
                       atTime : 0 .. Day, dayOfWeek : 0 .. 6, utc : BOOLEAN,
                       delay : BOOLEAN, backupCount : Nat]
    BY TimedAssumption
  <1> QED
    BY <1>1 DEF utc, when, Unit

LEMMA ProductFits ==
    ASSUME NEW d \in Nat \ {0}, NEW k \in Nat \ {0}
    PROVE  k * d \in Nat \ {0} /\ d <= k * d /\ k * d = d * k /\ (k = 1 => k * d = d)
  <1>1. PICK i \in Nat : k = i + 1
    <2>1. k - 1 \in Nat /\ k = (k - 1) + 1
      OBVIOUS
    <2> QED
      BY <2>1
  <1>2. i * d \in Nat /\ (i + 1) * d = i * d + d
    OBVIOUS
  <1>3. k * d = d * k
    OBVIOUS
  <1>4. i = 0 => i * d = 0
    OBVIOUS
  <1> QED
    BY <1>1, <1>2, <1>3, <1>4

LEMMA IntervalFits ==
    ASSUME config \in Configs
    PROVE  /\ interval \in Nat \ {0} /\ Unit <= interval
           /\ Daily => Week \in Nat \ {0} /\ Week <= interval
           /\ Daily /\ config.interval = 1 => interval = Week
           /\ Daily => \E k \in Nat : interval = Day * k /\ (when = "W" => k % 7 = 0)
  <1> DEFINE d == IF when = "W" THEN 7 * Day ELSE Unit
             n == config.interval
  <1>1. /\ Day \in Nat \ {0} /\ n \in Nat \ {0} /\ Unit \in Nat \ {0}
        /\ when = "W" => Unit = Day
    BY AttributesFit DEF Unit
  <1>2. d \in Nat \ {0} /\ Unit <= d /\ (Daily => d = Week)
    <2>1. 7 * Day \in Nat \ {0} /\ Day <= 7 * Day
      BY <1>1
    <2>2. Daily => Unit = Day
      BY DEF Daily, Unit
    <2>3. Daily => d = Week
      BY <2>2 DEF Week
    <2>4. CASE when = "W"
      BY <1>1, <2>1, <2>3, <2>4
    <2>5. CASE when # "W"
      <3>1. d = Unit
        BY <2>5
      <3> HIDE DEF d
      <3> QED
        BY <1>1, <2>3, <3>1
    <2> QED
      BY <2>4, <2>5
  <1>3. interval = n * d
    BY DEF interval
  <1>4. (Daily /\ when # "W") => d = Day
    BY DEF Daily, Unit
  <1>5. when = "W" => d = 7 * Day
    OBVIOUS
  <1> HIDE DEF d, n
  <1>6. interval \in Nat \ {0} /\ d <= interval /\ (n = 1 => interval = d)
    BY <1>1, <1>2, <1>3, ProductFits
  <1>7. ASSUME when = "W"
        PROVE  \E k \in Nat : interval = Day * k /\ k % 7 = 0
    <2>1. n * (7 * Day) = Day * (7 * n) /\ 7 * n \in Nat /\ (7 * n) % 7 = 0
      BY <1>1
    <2> QED
      BY <1>3, <1>5, <1>7, <2>1
  <1>8. ASSUME Daily, when # "W"
        PROVE  \E k \in Nat : interval = Day * k
    <2>1. n * Day = Day * n
      BY <1>1
    <2> QED
      BY <1>1, <1>3, <1>4, <1>8, <2>1
  <1> QED
    BY <1>1, <1>2, <1>6, <1>7, <1>8 DEF n

LEMMA ComputesInteger ==
    ASSUME config \in Configs, NEW t \in Int
    PROVE  computeRollover(t) \in Int
  <1>1. /\ Day \in Nat \ {0} /\ Hour \in Nat \ {0} /\ interval \in Nat \ {0}
        /\ config.atTime \in 0 .. Day /\ config.dayOfWeek \in 0 .. 6
    BY AttributesFit, IntervalFits
  <1> DEFINE r      == config.atTime - (Local(t) % Day)
             result == t + (IF r < 0 THEN r + Day ELSE r)
             day    == (WeekDay(t) + (IF r < 0 THEN 1 ELSE 0)) % 7
             j      == (config.dayOfWeek - day) % 7
             next   == result + j * Day
  <1>2. Local(t) \in Int
    BY <1>1 DEF Local
  <1>3. Local(t) % Day \in Int /\ Local(t) \div Day \in Int
    <2>1. PICK l \in Int : l = Local(t)
      BY <1>2
    <2>2. l % Day \in Int /\ l \div Day \in Int
      BY <1>1, Division
    <2> QED
      BY <2>1, <2>2
  <1>4. r \in Int
    BY <1>1, <1>3
  <1>5. result \in Int
    <2> HIDE DEF r
    <2> QED
      BY <1>1, <1>4
  <1>6. j \in Int
    <2>1. WeekDay(t) \in Int
      BY <1>3 DEF WeekDay
    <2> HIDE DEF r
    <2>2. day \in Int
      BY <2>1
    <2> HIDE DEF day
    <2> QED
      BY <1>1, <2>2
  <1>7. next \in Int
    <2> HIDE DEF result, j
    <2> QED
      BY <1>1, <1>5, <1>6
  <1>8. \A a, b : Correction(a, b) \in Int
    BY <1>1 DEF Correction
  <1>9. computeRollover(t) =
          IF ~ Daily THEN t + interval
          ELSE IF when = "MIDNIGHT" \/ day = config.dayOfWeek THEN result
          ELSE next + Correction(t, next)
    BY DEF computeRollover
  <1> HIDE DEF r, result, day, j, next
  <1> QED
    BY <1>1, <1>5, <1>7, <1>8, <1>9

LEMMA NextInteger ==
    ASSUME config \in Configs, now \in Int
    PROVE  NextRollover \in Int
  <1> DEFINE n    == computeRollover(now)
             next == IF n > now THEN n ELSE n + ((now - n) \div interval + 1) * interval
  <1>1. n \in Int /\ interval \in Nat \ {0} /\ Hour \in Nat \ {0}
    BY ComputesInteger, IntervalFits, AttributesFit
  <1> HIDE DEF n
  <1>2. next \in Int
    <2>1. now - n \in Int
      BY <1>1
    <2>2. (now - n) \div interval \in Int
      BY <1>1, <2>1, Division
    <2> QED
      BY <1>1, <2>2
  <1>3. \A a, b : Correction(a, b) \in Int
    BY <1>1 DEF Correction
  <1>4. NextRollover = IF Daily THEN next + Correction(now, next) ELSE next
    BY DEF NextRollover, n
  <1> HIDE DEF next
  <1> QED
    BY <1>2, <1>3, <1>4

(* The rollover after one that happens now, in universal time.              *)
LEMMA NextIs ==
    ASSUME utc, config \in Configs, now \in Int
    PROVE  /\ NextRollover \in now + 1 .. now + interval
           /\ ~ Daily => NextRollover = now + interval
           /\ Daily => Scheduled(NextRollover)
           /\ Daily /\ config.interval = 1 =>
                 \A s \in now + 1 .. NextRollover - 1 : ~ Scheduled(s)
  <1> DEFINE n    == computeRollover(now)
             next == IF n > now THEN n ELSE n + ((now - n) \div interval + 1) * interval
  <1>1. interval \in Nat \ {0} /\ Day \in Nat \ {0} /\ Offset \in 0 .. Day - 1
    BY AttributesFit, IntervalFits, OffsetFits
  <1>2. NextRollover = next
    <2>1. n \in Int /\ next \in Int
      <3>1. n \in Int
        BY ComputesInteger
      <3> HIDE DEF n
      <3>2. now - n \in Int
        BY <3>1
      <3>3. (now - n) \div interval \in Int
        BY <1>1, <3>2, Division
      <3> QED
        BY <1>1, <3>1, <3>3
    <2>2. \A a, b : Correction(a, b) = 0
      BY DEF Correction
    <2>3. NextRollover = IF Daily THEN next + Correction(now, next) ELSE next
      BY DEF NextRollover
    <2> HIDE DEF n, next
    <2> QED
      BY <2>1, <2>2, <2>3
  <1>3. n = now => next = now + interval
    <2>1. now - now = 0 /\ 0 \div interval = 0 /\ (0 + 1) * interval = interval
      BY <1>1, DivisionIs
    <2> HIDE DEF n
    <2> QED
      BY <1>1, <2>1
  <1>4. CASE ~ Daily
    <2>1. n = now + interval
      BY <1>4 DEF computeRollover
    <2> HIDE DEF n
    <2> QED
      BY <1>1, <1>2, <1>4, <2>1
  <1>5. CASE Daily
    <2>1. /\ n \in now .. now + Week /\ Scheduled(n)
          /\ \A s \in now + 1 .. n - 1 : ~ Scheduled(s)
          /\ \E p \in Int : n = Day * p + Offset
      BY <1>5, ComputesFirst
    <2>2. /\ Week \in Nat \ {0} /\ Week <= interval
          /\ config.interval = 1 => interval = Week
          /\ \E k \in Nat : interval = Day * k /\ (when = "W" => k % 7 = 0)
      BY <1>5, IntervalFits
    <2>3. CASE n > now
      <3> HIDE DEF n
      <3> QED
        BY <1>1, <1>2, <1>5, <2>1, <2>2, <2>3
    <2>4. CASE n = now
      <3>1. NextRollover = now + interval
        BY <1>2, <1>3, <2>4
      <3> HIDE DEF n, next
      <3>2. PICK p \in Int : now = Day * p + Offset
        BY <2>1, <2>4
      <3>3. PICK k \in Nat : interval = Day * k /\ (when = "W" => k % 7 = 0)
        BY <2>2
      <3>4. now + interval = Day * (p + k) + Offset
        BY <1>1, <3>2, <3>3
      <3>5. when = "W" => p % 7 = (config.dayOfWeek + Nights) % 7
        BY <2>1, <2>4, <3>2, ScheduledAt
      <3>6. k % 7 = 0 => (p + k) % 7 = p % 7
        OBVIOUS
      <3>7. Scheduled(now + interval)
        BY <3>3, <3>4, <3>5, <3>6, ScheduledAt
      <3>8. ASSUME config.interval = 1, NEW s \in now + 1 .. now + interval - 1, Scheduled(s)
            PROVE  FALSE
        <4> DEFINE i == s \div Day
        <4>1. s \in Int /\ s % Day = Offset
          BY <1>1, <3>8, ScheduledIs
        <4>2. i \in Int /\ s = Day * i + Offset
          BY <1>1, <4>1, Division
        <4>3. when = "W" => i % 7 = (config.dayOfWeek + Nights) % 7
          BY <3>8, <4>1, ScheduledIs
        <4> HIDE DEF i
        <4>4. ~ i <= p
          <5>1. i < p => Day * i + Day <= Day * p
            BY <1>1, <4>2, MultiplesApart
          <5> QED
            BY <1>1, <3>2, <4>2, <5>1
        <4> DEFINE w == IF when = "W" THEN p + 7 ELSE p + 1
        <4>5. now + interval = Day * w + Offset /\ w \in Int
          BY <1>1, <2>2, <3>2, <3>8 DEF Week
        <4>6. ~ w <= i
          <5>1. w < i => Day * w + Day <= Day * i
            BY <1>1, <4>2, <4>5, MultiplesApart
          <5> QED
            BY <1>1, <4>2, <4>5, <5>1
        <4>7. i - p \in 1 .. 6 /\ when = "W"
          BY <4>2, <4>4, <4>6
        <4> QED
          BY <3>5, <4>2, <4>3, <4>7
      <3> QED
        BY <1>1, <3>1, <3>7, <3>8, <1>5
    <2> QED
      BY <2>1, <2>3, <2>4
  <1> QED
    BY <1>4, <1>5

-----------------------------------------------------------------------------
(* What getFilesToDelete leaves: no more than backupCount names, those of   *)
(* the newest files; and one file too many goes as the oldest.              *)
Later(F, f) == {g \in F : g > f}

LEMMA LaterFits ==
    ASSUME NEW F \in SUBSET Int, IsFiniteSet(F), NEW f
    PROVE  IsFiniteSet(Later(F, f)) /\ Cardinality(Later(F, f)) \in Nat
  BY FS_Subset, FS_CardinalityType DEF Later

LEMMA LaterShrinks ==
    ASSUME NEW F \in SUBSET Int, IsFiniteSet(F), NEW f \in F, NEW g \in F, g > f
    PROVE  Cardinality(Later(F, g)) < Cardinality(Later(F, f))
  <1>1. Later(F, g) \in SUBSET (Later(F, f) \ {g}) /\ g \in Later(F, f)
    <2>1. ASSUME NEW x \in F, x > g PROVE x > f /\ x # g
      <3>1. x \in Int /\ g \in Int /\ f \in Int
        OBVIOUS
      <3> QED
        BY <2>1, <3>1
    <2> QED
      BY <2>1 DEF Later
  <1>2. /\ IsFiniteSet(Later(F, f)) /\ Cardinality(Later(F, f)) \in Nat
        /\ Cardinality(Later(F, g)) \in Nat
    BY LaterFits
  <1>3. /\ IsFiniteSet(Later(F, f) \ {g})
        /\ Cardinality(Later(F, f) \ {g}) = Cardinality(Later(F, f)) - 1
    BY <1>1, <1>2, FS_RemoveElement
  <1>4. Cardinality(Later(F, g)) <= Cardinality(Later(F, f) \ {g})
    BY <1>1, <1>3, FS_Subset
  <1> QED
    BY <1>2, <1>3, <1>4

LEMMA FewStay ==
    ASSUME NEW F \in SUBSET Int, IsFiniteSet(F), config \in Configs,
           config.backupCount > 0
    PROVE  Cardinality(F \ FilesToDelete(F)) <= config.backupCount
  <1> DEFINE n == config.backupCount
             K == F \ FilesToDelete(F)
             Newer(f) == Cardinality(Later(F, f))
             newer == [f \in K |-> Newer(f)]
  <1>1. n \in Nat \ {0}
    BY AttributesFit
  <1>2. \A f \in F : Newer(f) \in Nat
    BY LaterFits
  <1>3. K \subseteq F /\ \A f \in K : Newer(f) < n
    <2>1. FilesToDelete(F) = {f \in F : Newer(f) >= n}
      BY DEF FilesToDelete, Later
    <2> HIDE DEF Newer, n
    <2> QED
      BY <1>1, <1>2, <2>1
  <1> HIDE DEF n, K
  <1>4. ASSUME NEW f \in K, NEW g \in K, f # g PROVE Newer(f) # Newer(g)
    <2>1. f > g \/ g > f
      BY <1>3, <1>4
    <2> QED
      BY <1>2, <1>3, <1>4, <2>1, LaterShrinks
  <1>5. newer \in Injection(K, 0 .. n - 1)
    <2> HIDE DEF Newer
    <2>1. \A f \in K : Newer(f) \in 0 .. n - 1
      BY <1>1, <1>2, <1>3
    <2> QED
      BY <1>4, <2>1 DEF Injection, IsInjective
  <1>6. IsFiniteSet(0 .. n - 1) /\ Cardinality(0 .. n - 1) = n
    BY <1>1, FS_Interval
  <1>7. Cardinality(K) <= n
    <2> HIDE DEF newer
    <2> QED
      BY <1>5, <1>6, FS_Injection
  <1> QED
    BY <1>7 DEF K, n

LEMMA OldestGoes ==
    ASSUME NEW F \in SUBSET Int, IsFiniteSet(F), config \in Configs,
           config.backupCount > 0, Cardinality(F) <= config.backupCount + 1,
           NEW f \in FilesToDelete(F)
    PROVE  Cardinality(Later(F \ FilesToDelete(F), f)) = config.backupCount
  <1> DEFINE n == config.backupCount
             D == FilesToDelete(F)
  <1>1. n \in Nat \ {0}
    BY AttributesFit
  <1>2. \A g \in F : IsFiniteSet(Later(F, g)) /\ Cardinality(Later(F, g)) \in Nat
    BY LaterFits
  <1>3. \A g \in F : g \in D <=> Cardinality(Later(F, g)) >= n
    BY DEF FilesToDelete, Later
  <1>4. f \in F /\ f \in Int
    BY DEF FilesToDelete
  <1> HIDE DEF D
  <1>5. /\ IsFiniteSet(F \ {f}) /\ Cardinality(F \ {f}) = Cardinality(F) - 1
        /\ Cardinality(F) \in Nat
    BY <1>4, FS_RemoveElement, FS_CardinalityType
  <1>6. Later(F, f) \in SUBSET (F \ {f})
    BY <1>4 DEF Later
  <1>7. Cardinality(Later(F, f)) <= Cardinality(F \ {f})
    BY <1>5, <1>6, FS_Subset
  <1>8. Cardinality(Later(F, f)) = n
    <2>1. f \in D
      BY DEF D
    <2> QED
      BY <1>1, <1>2, <1>3, <1>4, <1>5, <1>7, <2>1
  <1>9. ASSUME NEW g \in Later(F, f) PROVE g \notin D
    <2>1. g \in F /\ g > f
      BY <1>9 DEF Later
    <2>2. Cardinality(Later(F, g)) < n
      BY <1>4, <1>8, <2>1, LaterShrinks
    <2> QED
      BY <1>1, <1>2, <1>3, <2>1, <2>2
  <1>10. Later(F \ D, f) = Later(F, f)
    BY <1>9 DEF Later
  <1> QED
    BY <1>8, <1>10 DEF D

LEMMA NewestStays ==
    ASSUME NEW F \in SUBSET Int, config \in Configs, config.backupCount > 0,
           NEW f \in F, \A g \in F : g <= f
    PROVE  f \notin FilesToDelete(F)
  <1>1. {g \in F : g > f} = {}
    <2>1. \A g \in F : ~ g > f
      <3>1. \A g \in F : g \in Int /\ f \in Int /\ g <= f
        OBVIOUS
      <3> QED
        BY <3>1
    <2> QED
      BY <2>1
  <1>2. Cardinality({g \in F : g > f}) = 0 /\ config.backupCount \in Nat
    BY <1>1, FS_EmptySet, AttributesFit
  <1> QED
    BY <1>2 DEF FilesToDelete

-----------------------------------------------------------------------------
(* The files after a rollover, before and without those deleted.            *)
Names ==
    (DOMAIN backups \ {Destination}) \cup (IF base = NoFile THEN {} ELSE {Destination})

Deleted == IF config.backupCount > 0 THEN FilesToDelete(Names) ELSE {}

(* After a rollover rollover_at has no fraction until a restart.            *)
Rolled == DOMAIN backups # {} /\ restarts = 0 => fraction = 0

TimedBase == TimedTypeOK /\ IsFiniteSet(DOMAIN backups) /\ Rolled

LEMMA RolloverEffect ==
    ASSUME TimedBase, doRollover
    PROVE  /\ Destination \in Int /\ Names \in SUBSET Int /\ IsFiniteSet(Names)
           /\ DOMAIN backups' = Names \ Deleted
           /\ \A f \in Names \ Deleted :
                 backups'[f] = IF f = Destination THEN base ELSE backups[f]
           /\ Destination \in Names => base # NoFile
           /\ Names \ {Destination} \subseteq DOMAIN backups
           /\ rollover_at' = NextRollover /\ fraction' = 0
  <1>1. config \in Configs /\ rollover_at \in Int /\ now \in Int
        /\ (\A f \in DOMAIN backups : f \in Int) /\ IsFiniteSet(DOMAIN backups)
    BY TimedAssumption DEF TimedBase, TimedTypeOK
  <1>2. Destination \in Int
    <2>1. interval \in Int /\ Hour \in Int /\ Unit \in Nat \ {0}
      BY <1>1, AttributesFit, IntervalFits
    <2>2. \A a, b : Correction(a, b) \in Int
      BY <2>1 DEF Correction
    <2> DEFINE t == rollover_at - interval
    <2>3. t + Correction(now, t) \in Int
      BY <1>1, <2>1, <2>2
    <2>4. Local(t + Correction(now, t)) \in Int
      BY <2>1, <2>3 DEF Local
    <2>5. Destination = Local(t + Correction(now, t)) \div Unit
      BY DEF Destination
    <2> HIDE DEF t
    <2> QED
      BY <2>1, <2>4, <2>5, Division
  <1>3. Names \in SUBSET Int
    BY <1>1, <1>2 DEF Names
  <1>4. IsFiniteSet(Names)
    <2>1. IsFiniteSet(DOMAIN backups \cup {Destination})
      BY <1>1, FS_AddElement
    <2>2. Names \in SUBSET (DOMAIN backups \cup {Destination})
      BY DEF Names
    <2> QED
      BY <2>1, <2>2, FS_Subset
  <1>5. DOMAIN Rotated = Names /\
        \A f \in Names : Rotated[f] = IF f = Destination THEN base ELSE backups[f]
    BY DEF Rotated, Names
  <1>6. /\ backups' = Restrict(Rotated, Names \ Deleted)
        /\ rollover_at' = NextRollover /\ fraction' = 0
    BY <1>5 DEF doRollover, Deleted
  <1>7. DOMAIN backups' = Names \ Deleted
        /\ \A f \in Names \ Deleted : backups'[f] = Rotated[f]
    BY <1>6 DEF Restrict
  <1>8. (Destination \in Names => base # NoFile) /\ Names \ {Destination} \subseteq DOMAIN backups
    BY DEF Names
  <1> QED
    BY <1>2, <1>3, <1>4, <1>5, <1>6, <1>7, <1>8

LEMMA TimedInitTypes == TimedInit => TimedBase
  <1> SUFFICES ASSUME TimedInit PROVE TimedBase
    OBVIOUS
  <1>1. config \in Configs /\ now \in 0 .. Horizon /\ mtime \in 0 .. now
    BY TimedAssumption DEF TimedInit
  <1>2. rollover_at \in Int
    BY <1>1, TimedAssumption, ComputesInteger DEF TimedInit
  <1>3. DOMAIN backups = {}
    BY DEF TimedInit
  <1>4. IsFiniteSet(DOMAIN backups) /\ Cardinality(DOMAIN backups) = 0
    BY <1>3, FS_EmptySet
  <1>5. base = NoFile \/ base \subseteq 0 .. now
    BY DEF TimedInit
  <1>6. config.backupCount \in Nat
    BY <1>1, AttributesFit
  <1>7. /\ exact \in BOOLEAN /\ missed \in BOOLEAN
        /\ emits \in 0 .. MaxEmits /\ restarts \in 0 .. MaxRestarts
    <2>1. 0 \in 0 .. MaxEmits /\ 0 \in 0 .. MaxRestarts
      BY TimedAssumption
    <2>2. exact = FALSE /\ missed = FALSE /\ emits = 0 /\ restarts = 0
      BY DEF TimedInit
    <2> QED
      BY <2>1, <2>2
  <1>8. fraction \in {0, 1}
    BY DEF TimedInit
  <1> QED
    BY <1>1, <1>2, <1>3, <1>4, <1>5, <1>6, <1>7, <1>8 DEF TimedBase, TimedTypeOK, Rolled

LEMMA TimedStepTypes == TimedBase /\ [TimedNext]_timedVars => TimedBase'
  <1> SUFFICES ASSUME TimedBase, [TimedNext]_timedVars PROVE TimedBase'
    OBVIOUS
  <1>1. /\ config \in Configs /\ now \in 0 .. Horizon
        /\ rollover_at \in Int /\ fraction \in {0, 1}
        /\ base = NoFile \/ base \subseteq 0 .. now
        /\ mtime \in 0 .. now
        /\ \A f \in DOMAIN backups : f \in Int /\ backups[f] \subseteq 0 .. now
        /\ config.backupCount > 0 => Cardinality(DOMAIN backups) <= config.backupCount
        /\ exact \in BOOLEAN /\ missed \in BOOLEAN
        /\ emits \in 0 .. MaxEmits /\ restarts \in 0 .. MaxRestarts
        /\ IsFiniteSet(DOMAIN backups)
        /\ Horizon \in Nat /\ MaxEmits \in Nat /\ MaxRestarts \in Nat
    BY TimedAssumption DEF TimedBase, TimedTypeOK
  <1>0. Rolled
    BY DEF TimedBase
  <1>2. CASE Tick
    <2>1. /\ now' \in 0 .. Horizon /\ 0 .. now \subseteq 0 .. now'
          /\ UNCHANGED <<config, rollover_at, fraction, base, mtime, backups, exact,
                         missed, emits, restarts>>
      BY <1>1, <1>2 DEF Tick
    <2> QED
      BY <1>0, <1>1, <2>1 DEF TimedBase, TimedTypeOK, Rolled
  <1>3. CASE Emit /\ shouldRollover
    <2>1. /\ doRollover /\ base' = {now} /\ mtime' = now /\ emits' \in 0 .. MaxEmits
          /\ UNCHANGED <<config, now, exact, missed, restarts>>
      BY <1>1, <1>3 DEF Emit
    <2>2. /\ Names \in SUBSET Int /\ IsFiniteSet(Names)
          /\ DOMAIN backups' = Names \ Deleted
          /\ \A f \in Names \ Deleted :
                backups'[f] = IF f = Destination THEN base ELSE backups[f]
          /\ Destination \in Names => base # NoFile
          /\ Names \ {Destination} \subseteq DOMAIN backups
          /\ rollover_at' = NextRollover /\ fraction' = 0
      BY <2>1, RolloverEffect
    <2>3. rollover_at' \in Int
      BY <1>1, <2>2, NextInteger
    <2>4. IsFiniteSet(DOMAIN backups')
      BY <2>2, FS_Subset
    <2>5. \A f \in DOMAIN backups' : f \in Int /\ backups'[f] \subseteq 0 .. now
      BY <1>1, <2>2
    <2>6. config.backupCount > 0 => Cardinality(DOMAIN backups') <= config.backupCount
      BY <1>1, <2>2, FewStay DEF Deleted
    <2>7. now \in 0 .. now /\ {now} \subseteq 0 .. now
      BY <1>1
    <2>8. Rolled'
      BY <2>2 DEF Rolled
    <2> QED
      BY <1>1, <2>1, <2>2, <2>3, <2>4, <2>5, <2>6, <2>7, <2>8 DEF TimedBase, TimedTypeOK
  <1>4. CASE Emit /\ ~ shouldRollover
    <2>1. /\ base' = Recorded \cup {now}
          /\ mtime' = now /\ emits' \in 0 .. MaxEmits
          /\ UNCHANGED <<config, now, exact, missed, restarts, backups, rollover_at, fraction>>
      BY <1>1, <1>4 DEF Emit
    <2>2. now \in 0 .. now /\ base' \subseteq 0 .. now
      BY <1>1, <2>1 DEF Recorded
    <2> QED
      BY <1>0, <1>1, <2>1, <2>2 DEF TimedBase, TimedTypeOK, Rolled
  <1>5. CASE Restart
    <2>1. /\ mtime' \in {mtime, now} /\ rollover_at' = computeRollover(mtime')
          /\ fraction' \in {0, 1} /\ exact' \in BOOLEAN /\ missed' \in BOOLEAN
          /\ restarts' \in 0 .. MaxRestarts /\ restarts' # 0
          /\ UNCHANGED <<config, now, base, backups, emits>>
      BY <1>1, <1>5 DEF Restart
    <2>2. mtime' \in 0 .. now /\ mtime' \in Int
      BY <1>1, <2>1
    <2>3. rollover_at' \in Int
      BY <1>1, <2>1, <2>2, ComputesInteger
    <2> QED
      BY <1>0, <1>1, <2>1, <2>2, <2>3 DEF TimedBase, TimedTypeOK, Rolled
  <1>6. CASE UNCHANGED timedVars
    BY <1>0, <1>1, <1>6 DEF timedVars, TimedBase, TimedTypeOK, Rolled
  <1> QED
    BY <1>2, <1>3, <1>4, <1>5, <1>6 DEF TimedNext

(* Every reachable state is well typed, and there are never more backups    *)
(* than backupCount (getFilesToDelete, handlers.py:411).                    *)
THEOREM TimedTypesHold == TimedSpec => []TimedTypeOK
  <1>1. TimedBase => TimedTypeOK
    BY DEF TimedBase
  <1> QED
    BY <1>1, TimedInitTypes, TimedStepTypes, PTL DEF TimedSpec

-----------------------------------------------------------------------------
(* In universal time: a daily handler waits for the first scheduled time    *)
(* after the last change of the file, or for that very time, ...            *)
ScheduleFits ==
    utc /\ Daily =>
        /\ Scheduled(rollover_at) /\ mtime <= rollover_at
        /\ config.interval = 1 =>
              \A t \in mtime + 1 .. rollover_at - 1 : ~ Scheduled(t)

(* ... the files there are carry names of periods before the one that is    *)
(* next to get a name, ...                                                  *)
NamesFit ==
    utc /\ ~ exact =>
        \A f \in DOMAIN backups :
            IF Daily
            THEN /\ f * Day + Offset + interval <= mtime
                 /\ f * Day + Offset + interval < rollover_at
            ELSE /\ (f + 1) * Unit <= mtime
                 /\ (f + 1) * Unit <= rollover_at - interval

(* ... and the base file holds records of that period, and of the second    *)
(* that ends it if the rollover is due in the course of that, ...           *)
PeriodFits ==
    Orderly =>
        /\ rollover_at - interval <= mtime
        /\ Recorded \subseteq rollover_at - interval .. mtime
        /\ Recorded # {} => mtime < rollover_at + fraction

(* ... which happens once for each start of the program.                    *)
LateFits ==
    Orderly /\ Daily => Cardinality(Overdue) + fraction <= 1 + restarts

UtcInv ==
    /\ TimedBase /\ ScheduleFits /\ NamesFit /\ PeriodFits
    /\ FiledByPeriod /\ LateFits

LEMMA ConfigStays ==
    ASSUME config' = config
    PROVE  /\ utc' = utc /\ (Daily' <=> Daily) /\ interval' = interval /\ Unit' = Unit
           /\ Offset' = Offset
           /\ \A t : Scheduled(t)' <=> Scheduled(t)
           /\ \A t, f : Age(t, f)' = Age(t, f)
  BY DEF when, utc, Daily, interval, Unit, Offset, Scheduled, Local, WeekDay, IsSummer, Age

(* Daily handlers have at least a Week between two scheduled times.         *)
LEMMA WeekApart ==
    ASSUME utc, Daily, config \in Configs, NEW t \in Int, NEW r \in Int,
           Scheduled(t), Scheduled(r), t < r
    PROVE  Week \in Nat /\ t + Week <= r
  <1>1. Day \in Nat \ {0} /\ Offset \in 0 .. Day - 1
    BY AttributesFit, OffsetFits
  <1>2. PICK p \in Int : p = t \div Day /\ t = Day * p + Offset
    BY <1>1, Division, ScheduledIs
  <1>3. PICK q \in Int : q = r \div Day /\ r = Day * q + Offset
    BY <1>1, Division, ScheduledIs
  <1>4. PICK x \in Int, y \in Int : x = Day * p /\ y = Day * q
    BY <1>1
  <1>5. x < y
    BY <1>1, <1>2, <1>3, <1>4
  <1>6. ~ q <= p
    <2>1. q < p => Day * q + Day <= Day * p
      BY <1>1, MultiplesApart
    <2>2. ~ q < p
      BY <1>1, <1>4, <1>5, <2>1
    <2>3. q # p
      BY <1>4, <1>5
    <2> QED
      BY <2>2, <2>3
  <1>7. x + Day <= y
    BY <1>1, <1>4, <1>6, MultiplesApart
  <1>8. CASE when # "W"
    <2>1. Week = Day
      BY <1>8 DEF Week
    <2>2. x + Day + Offset <= y + Offset
      BY <1>1, <1>7
    <2> QED
      BY <1>1, <1>2, <1>3, <1>4, <2>1, <2>2
  <1>9. CASE when = "W"
    <2>1. Week = 7 * Day
      BY <1>9 DEF Week
    <2>2. p % 7 = q % 7
      BY <1>2, <1>3, <1>9, ScheduledIs
    <2>3. p + 7 <= q
      BY <1>6, <2>2
    <2>4. PICK k \in Nat : q = p + 7 + k
      <3>1. q - p - 7 \in Nat /\ q = p + 7 + (q - p - 7)
        BY <2>3
      <3> QED
        BY <3>1
    <2>5. Day * (p + 7 + k) = Day * p + 7 * Day + Day * k /\ Day * k >= 0
          /\ Day * p \in Int /\ 7 * Day \in Nat
      BY <1>1
    <2> QED
      BY <1>1, <1>2, <1>3, <2>1, <2>4, <2>5
  <1> QED
    BY <1>8, <1>9

LEMMA DestinationIs ==
    ASSUME utc, config \in Configs, rollover_at \in Int
    PROVE  /\ Destination \in Int /\ Destination * Unit \in Int
           /\ Destination * Unit <= rollover_at - interval
           /\ rollover_at - interval < Destination * Unit + Unit
           /\ Daily /\ Scheduled(rollover_at) =>
                 Destination * Unit + Offset + interval = rollover_at
  <1>1. Unit \in Nat \ {0} /\ interval \in Nat /\ Day \in Nat \ {0} /\ Offset \in 0 .. Day - 1
    BY AttributesFit, IntervalFits, OffsetFits
  <1>2. Destination = (rollover_at - interval) \div Unit
    <2>1. \A a, b : Correction(a, b) = 0
      BY DEF Correction
    <2>2. rollover_at - interval + 0 = rollover_at - interval
      BY <1>1
    <2> QED
      BY <2>1, <2>2 DEF Destination, Local
  <1> DEFINE t == rollover_at - interval
  <1>3. t \in Int
    BY <1>1
  <1>4. /\ Destination \in Int /\ Unit * Destination \in Int
        /\ t = Unit * Destination + (t % Unit) /\ t % Unit \in 0 .. Unit - 1
    BY <1>1, <1>2, <1>3, Division
  <1>5. Unit * Destination = Destination * Unit
    BY <1>1, <1>4
  <1>6. ASSUME Daily, Scheduled(rollover_at) PROVE t % Unit = Offset
    <2>1. Unit = Day
      BY <1>6 DEF Daily, Unit
    <2>2. PICK k \in Nat : interval = Day * k
      BY <1>6, IntervalFits
    <2> DEFINE q == rollover_at \div Day
    <2>3. q \in Int /\ rollover_at = Day * q + Offset
      <3>1. rollover_at % Day = Offset
        BY <1>6, ScheduledIs
      <3> QED
        BY <1>1, <3>1, Division
    <2> HIDE DEF q
    <2>4. t = Day * (q - k) + Offset /\ q - k \in Int
      BY <1>1, <2>2, <2>3
    <2> QED
      BY <1>1, <1>3, <2>1, <2>4, DivisionIs
  <1> QED
    BY <1>1, <1>3, <1>4, <1>5, <1>6

(* Names that were given before are smaller than the next.                  *)
LEMMA NamesAreBefore ==
    ASSUME TimedBase, ScheduleFits, NamesFit, utc, ~ exact
    PROVE  \A f \in DOMAIN backups : f < Destination
  <1>1. config \in Configs /\ rollover_at \in Int /\ \A f \in DOMAIN backups : f \in Int
    BY DEF TimedBase, TimedTypeOK
  <1>2. /\ Unit \in Nat \ {0} /\ interval \in Nat /\ Day \in Nat \ {0}
        /\ Offset \in 0 .. Day - 1
    BY <1>1, AttributesFit, IntervalFits, OffsetFits
  <1>3. /\ Destination \in Int /\ Destination * Unit \in Int
        /\ Destination * Unit <= rollover_at - interval
        /\ rollover_at - interval < Destination * Unit + Unit
        /\ Daily => Destination * Unit + Offset + interval = rollover_at
    BY <1>1, DestinationIs DEF ScheduleFits
  <1>4. Daily => Unit = Day
    BY DEF Daily, Unit
  <1> SUFFICES ASSUME NEW f \in DOMAIN backups, Destination <= f PROVE FALSE
    BY <1>1, <1>3
  <1>5. f * Unit \in Int /\ (f + 1) * Unit = f * Unit + Unit
    BY <1>1, <1>2
  <1>6. f * Unit < Destination * Unit
    <2>1. CASE Daily
      BY <1>2, <1>3, <1>4, <1>5, <2>1 DEF NamesFit
    <2>2. CASE ~ Daily
      <3>1. (f + 1) * Unit <= rollover_at - interval
        BY <2>2 DEF NamesFit
      <3> QED
        BY <1>1, <1>2, <1>3, <1>5, <3>1
    <2> QED
      BY <2>1, <2>2
  <1>7. Destination < f => Unit * Destination + Unit <= Unit * f
    BY <1>1, <1>2, <1>3, MultiplesApart
  <1>8. Unit * Destination = Destination * Unit /\ Unit * f = f * Unit
    BY <1>1, <1>2, <1>3
  <1> QED
    BY <1>1, <1>2, <1>3, <1>5, <1>6, <1>7, <1>8

LEMMA UtcInit == TimedInit => UtcInv
  <1> SUFFICES ASSUME TimedInit PROVE UtcInv
    OBVIOUS
  <1>1. /\ config \in Configs /\ mtime \in Int /\ rollover_at = computeRollover(mtime)
        /\ DOMAIN backups = {} /\ Overdue = {}
        /\ Recorded = {} /\ fraction \in {0, 1} /\ restarts = 0
    BY TimedAssumption DEF TimedInit, Recorded, Overdue
  <1>2. interval \in Nat \ {0} /\ (Daily /\ config.interval = 1 => interval = Week)
    BY <1>1, IntervalFits
  <1>3. utc /\ Daily =>
          /\ rollover_at \in mtime .. mtime + Week /\ Scheduled(rollover_at)
          /\ \A s \in mtime + 1 .. rollover_at - 1 : ~ Scheduled(s)
    BY <1>1, ComputesFirst
  <1>4. ScheduleFits
    BY <1>1, <1>2, <1>3 DEF ScheduleFits, Week
  <1>5. NamesFit /\ FiledByPeriod
    <2>1. Cardinality(Overdue) = 0
      BY <1>1, FS_EmptySet
    <2>2. Cardinality(Overdue) <= 1 + restarts
      BY <1>1, <2>1
    <2> QED
      BY <1>1, <2>2 DEF NamesFit, FiledByPeriod
  <1>6. PeriodFits
    <2>1. ~ Daily => rollover_at = mtime + interval
      BY <1>1 DEF computeRollover
    <2>2. Orderly => rollover_at - interval <= mtime
      BY <1>1, <1>2, <1>3, <2>1 DEF Orderly
    <2> QED
      BY <1>1, <2>2 DEF PeriodFits
  <1>7. LateFits
    <2>1. Cardinality(Overdue) = 0
      BY <1>1, FS_EmptySet
    <2> QED
      BY <1>1, <2>1 DEF LateFits
  <1> QED
    BY <1>4, <1>5, <1>6, <1>7, TimedInitTypes DEF UtcInv

(* A restart on a daily schedule, in universal time; and on a file that was  *)
(* not changed at a scheduled time.                                         *)
LEMMA RestartIs ==
    ASSUME TimedBase, utc, Daily, Restart
    PROVE  /\ mtime' \in {mtime, now} /\ mtime' \in Int /\ mtime <= mtime'
           /\ rollover_at' \in Int /\ mtime' <= rollover_at'
           /\ rollover_at' <= mtime' + Week /\ Week \in Nat
           /\ Scheduled(rollover_at')
           /\ \A s \in mtime' + 1 .. rollover_at' - 1 : ~ Scheduled(s)
           /\ ~ exact' => mtime' < rollover_at'
  <1>1. /\ config \in Configs /\ now \in Int /\ mtime \in 0 .. now
    BY TimedAssumption DEF TimedBase, TimedTypeOK
  <1>2. /\ mtime' \in {mtime, now} /\ rollover_at' = computeRollover(mtime')
        /\ exact' = (exact \/ (Daily /\ config.atTime < Day /\ Scheduled(mtime')))
    BY DEF Restart
  <1>3. PICK m \in Int : m = mtime'
    BY <1>1, <1>2
  <1>4. PICK w \in Nat : w = Week
    BY <1>1, IntervalFits
  <1>5. config.atTime < Day \/ config.atTime = Day
    <2>1. config.atTime \in 0 .. Day /\ Day \in Nat
      BY <1>1, AttributesFit
    <2> QED
      BY <2>1
  <1>6. PICK c \in m .. m + w : c = computeRollover(m)
    BY <1>1, <1>3, <1>4, ComputesFirst
  <1>7. /\ rollover_at' = c /\ Scheduled(c)
        /\ \A s \in m + 1 .. c - 1 : ~ Scheduled(s)
        /\ config.atTime = Day => c > m
    BY <1>1, <1>2, <1>3, <1>6, ComputesFirst
  <1>8. c \in Int /\ m <= c /\ c <= m + w
    BY <1>6
  <1>9. mtime <= m
    BY <1>1, <1>2, <1>3
  <1>10. ~ exact' => m # c
    <2>1. Scheduled(m) /\ config.atTime < Day => exact'
      BY <1>2, <1>3, Zenon
    <2>2. m = c => ~ c > m
      BY <1>8
    <2> QED
      BY <1>5, <1>7, <2>1, <2>2, Zenon
  <1>11. ~ exact' => m < c
    BY <1>3, <1>8, <1>10
  <1> QED
    BY <1>2, <1>3, <1>4, <1>7, <1>8, <1>9, <1>11

LEMMA ScheduleStep ==
    ASSUME TimedBase, ScheduleFits, TimedNext
    PROVE  ScheduleFits'
  <1> USE DEF ScheduleFits
  <1>1. /\ config \in Configs /\ now \in Int /\ rollover_at \in Int /\ mtime \in 0 .. now
        /\ fraction \in {0, 1}
    BY TimedAssumption DEF TimedBase, TimedTypeOK
  <1>2. config' = config
    BY DEF TimedNext, Tick, Emit, Restart
  <1>3. /\ utc' = utc /\ (Daily' <=> Daily)
        /\ \A t : Scheduled(t)' <=> Scheduled(t)
    BY <1>2, ConfigStays
  <1> SUFFICES ASSUME utc, Daily
               PROVE  /\ Scheduled(rollover_at') /\ mtime' <= rollover_at'
                      /\ config.interval = 1 =>
                            \A t \in mtime' + 1 .. rollover_at' - 1 : ~ Scheduled(t)
    BY <1>2, <1>3
  <1>4. CASE Tick
    BY <1>4 DEF Tick
  <1>5. CASE Emit /\ shouldRollover
    <2>1. mtime' = now /\ rollover_at' = NextRollover
      BY <1>5 DEF Emit, doRollover
    <2>2. /\ NextRollover \in now + 1 .. now + interval /\ Scheduled(NextRollover)
          /\ config.interval = 1 => \A s \in now + 1 .. NextRollover - 1 : ~ Scheduled(s)
      BY <1>1, NextIs
    <2> QED
      BY <1>1, <2>1, <2>2
  <1>6. CASE Emit /\ ~ shouldRollover
    <2>1. mtime' = now /\ rollover_at' = rollover_at /\ ~ now >= rollover_at + fraction
      BY <1>6 DEF Emit, shouldRollover
    <2> QED
      BY <1>1, <2>1
  <1>7. CASE Restart
    BY <1>7, RestartIs
  <1> QED
    BY <1>4, <1>5, <1>6, <1>7 DEF TimedNext

LEMMA NamesStep ==
    ASSUME TimedBase, ScheduleFits, NamesFit, TimedNext
    PROVE  NamesFit'
  <1> DEFINE Fits(f, m, r) ==
               IF Daily
               THEN f * Day + Offset + interval <= m /\ f * Day + Offset + interval < r
               ELSE (f + 1) * Unit <= m /\ (f + 1) * Unit <= r - interval
  <1>1. /\ config \in Configs /\ now \in Int /\ rollover_at \in Int /\ mtime \in 0 .. now
        /\ fraction \in {0, 1}
        /\ \A f \in DOMAIN backups : f \in Int
    BY TimedAssumption DEF TimedBase, TimedTypeOK
  <1>2. config' = config /\ (exact => exact')
    <2>1. config' = config /\ (Tick \/ Emit => exact' = exact)
      BY DEF TimedNext, Tick, Emit, Restart
    <2>2. Restart => (exact => exact')
      BY DEF Restart
    <2>3. Tick \/ Emit => (exact => exact')
      BY <2>1, Zenon
    <2> QED
      BY <2>1, <2>2, <2>3, Zenon DEF TimedNext
  <1>3. /\ utc' = utc /\ (Daily' <=> Daily) /\ Unit' = Unit /\ interval' = interval
        /\ Offset' = Offset
    BY <1>2, ConfigStays
  <1>4. /\ Unit \in Nat \ {0} /\ interval \in Nat \ {0} /\ Unit <= interval
        /\ Day \in Nat \ {0} /\ Offset \in 0 .. Day - 1
        /\ Daily => Unit = Day
    BY <1>1, AttributesFit, IntervalFits, OffsetFits DEF Daily, Unit
  <1> SUFFICES ASSUME utc, ~ exact', NEW f \in DOMAIN backups'
               PROVE  Fits(f, mtime', rollover_at')
    BY <1>2, <1>3 DEF NamesFit
  <1>5. \A g \in DOMAIN backups : Fits(g, mtime, rollover_at)
    BY <1>2 DEF NamesFit
  <1>6. \A g \in Int : g * Day \in Int /\ (g + 1) * Unit = g * Unit + Unit /\ g * Unit \in Int
    BY <1>4
  <1>7. CASE Tick
    BY <1>5, <1>7 DEF Tick
  <1>8. CASE Emit /\ shouldRollover
    <2>1. mtime' = now /\ doRollover /\ rollover_at <= now
      BY <1>1, <1>8 DEF Emit, shouldRollover
    <2>2. rollover_at' = NextRollover /\ f \in DOMAIN backups \cup {Destination}
      BY <2>1, RolloverEffect
    <2>3. /\ rollover_at' \in now + 1 .. now + interval
          /\ ~ Daily => rollover_at' = now + interval
      BY <1>1, <2>2, NextIs
    <2>4. CASE f = Destination
      <3>1. /\ f \in Int /\ f * Unit \in Int
            /\ f * Unit <= rollover_at - interval
            /\ Daily => f * Unit + Offset + interval = rollover_at
        BY <1>1, <2>4, DestinationIs DEF ScheduleFits
      <3>2. CASE Daily
        BY <1>1, <1>4, <2>1, <2>3, <3>1, <3>2
      <3>3. CASE ~ Daily
        <4>1. (f + 1) * Unit = f * Unit + Unit
          BY <1>6, <3>1
        <4> QED
          BY <1>1, <1>4, <2>1, <2>3, <3>1, <3>3, <4>1
      <3> QED
        BY <3>2, <3>3
    <2>5. CASE f \in DOMAIN backups
      <3>1. f \in Int /\ Fits(f, mtime, rollover_at) /\ f * Day \in Int /\ (f + 1) * Unit \in Int
        BY <1>1, <1>4, <1>5, <2>5
      <3> QED
        BY <1>1, <1>4, <2>1, <2>3, <3>1
    <2> QED
      BY <2>2, <2>4, <2>5
  <1>9. CASE (Emit /\ ~ shouldRollover) \/ (Restart /\ ~ Daily)
    <2>1. /\ mtime' \in {mtime, now} /\ f \in DOMAIN backups
          /\ rollover_at' = rollover_at \/ (~ Daily /\ rollover_at' = mtime' + interval)
      BY <1>9 DEF Emit, Restart, computeRollover
    <2>2. f \in Int /\ Fits(f, mtime, rollover_at) /\ f * Day \in Int /\ (f + 1) * Unit \in Int
      BY <1>1, <1>4, <1>5, <2>1
    <2>3. mtime <= mtime' /\ mtime' \in Int
      BY <1>1, <2>1
    <2> QED
      BY <1>1, <1>4, <2>1, <2>2, <2>3
  <1>10. CASE Restart /\ Daily
    <2>1. f \in DOMAIN backups
      BY <1>10 DEF Restart
    <2>2. f \in Int /\ Fits(f, mtime, rollover_at) /\ f * Day \in Int
      BY <1>1, <1>4, <1>5, <2>1
    <2>3. PICK x \in Int : x = f * Day + Offset + interval
      BY <1>4, <2>2
    <2>4. x <= mtime
      BY <1>10, <2>2, <2>3
    <2>5. /\ mtime' \in Int /\ rollover_at' \in Int
          /\ mtime <= mtime' /\ mtime' < rollover_at'
      BY <1>10, RestartIs
    <2>6. x <= mtime' /\ x < rollover_at'
      BY <1>1, <2>3, <2>4, <2>5
    <2> QED
      BY <1>10, <2>3, <2>6
  <1> QED
    BY <1>7, <1>8, <1>9, <1>10 DEF TimedNext

LEMMA PeriodStep ==
    ASSUME TimedBase, ScheduleFits, PeriodFits, FiledByPeriod, LateFits,
           TimedNext, Orderly'
    PROVE  PeriodFits' /\ FiledByPeriod' /\ LateFits'
  <1> DEFINE Held(b, m, r, e) ==
               /\ r - interval <= m
               /\ b \subseteq r - interval .. m
               /\ b # {} => m < r + e
             Filed(f, t) ==
               Age(t, f) \in 0 .. interval + (IF Daily THEN 0 ELSE Unit - 1)
             Late(F) == {f \in DOMAIN F : \E t \in F[f] : Age(t, f) >= interval}
             Few(F, e, n) == Daily => Cardinality(Late(F)) + e <= 1 + n
  <1>1. /\ config \in Configs /\ now \in Int /\ rollover_at \in Int
        /\ mtime \in Int /\ mtime <= now /\ restarts \in Nat
        /\ fraction \in {0, 1} /\ Recorded \subseteq 0 .. now
        /\ IsFiniteSet(DOMAIN backups) /\ \A f \in DOMAIN backups : f \in Int
    BY TimedAssumption DEF TimedBase, TimedTypeOK, Recorded
  <1>2. /\ config' = config
        /\ (exact => exact') /\ (missed => missed')
        /\ restarts' = 0 => restarts = 0
    <2>1. /\ config' = config
          /\ (Tick \/ Emit =>
                exact' = exact /\ missed' = missed /\ restarts' = restarts)
      BY DEF TimedNext, Tick, Emit, Restart
    <2>2. Restart =>
            (exact => exact') /\ (missed => missed') /\ restarts' = restarts + 1
      BY DEF Restart
    <2>3. Tick \/ Emit => (exact => exact') /\ (missed => missed')
      BY <2>1, Zenon
    <2>4. restarts + 1 # 0
      BY <1>1
    <2> QED
      BY <2>1, <2>2, <2>3, <2>4, Zenon DEF TimedNext
  <1>3. /\ utc' = utc /\ (Daily' <=> Daily) /\ Unit' = Unit /\ interval' = interval
        /\ Offset' = Offset
        /\ \A t, f : Age(t, f)' = Age(t, f)
    BY <1>2, ConfigStays
  <1>4. Orderly /\ utc
    BY <1>2, <1>3, Zenon DEF Orderly
  <1>5. /\ Unit \in Nat \ {0} /\ interval \in Nat \ {0} /\ Unit <= interval
        /\ Day \in Nat \ {0} /\ Offset \in 0 .. Day - 1
        /\ Daily => Unit = Day /\ interval = Week /\ config.interval = 1
    BY <1>1, <1>4, AttributesFit, IntervalFits, OffsetFits DEF Daily, Unit, Orderly
  <1>6. Held(Recorded, mtime, rollover_at, fraction)
    BY <1>4 DEF PeriodFits
  <1>7. /\ \A f \in DOMAIN backups : \A t \in backups[f] : Filed(f, t)
        /\ Few(backups, fraction, restarts)
    BY <1>4 DEF FiledByPeriod, LateFits, Overdue
  <1>12. /\ IsFiniteSet(Late(backups)) /\ Cardinality(Late(backups)) \in Nat
    BY <1>1, FS_Subset, FS_CardinalityType
  <1> SUFFICES /\ Held(Recorded', mtime', rollover_at', fraction')
               /\ \A f \in DOMAIN backups' : \A t \in backups'[f] : Filed(f, t)
               /\ Few(backups', fraction', restarts')
    <2>1. (Held(Recorded', mtime', rollover_at', fraction') => PeriodFits')
      BY <1>3 DEF PeriodFits
    <2>2. Late(backups') = Overdue'
      BY <1>3 DEF Overdue
    <2>3. (Few(backups', fraction', restarts') => LateFits')
      BY <1>3, <2>2 DEF LateFits
    <2>4. ASSUME \A f \in DOMAIN backups' : \A t \in backups'[f] : Filed(f, t),
                 Few(backups', fraction', restarts')
          PROVE  FiledByPeriod'
      <3>1. \A f \in DOMAIN backups' : \A t \in backups'[f] : Filed(f, t)'
        BY <1>3, <2>4
      <3>2. (Daily => Cardinality(Overdue) <= 1 + restarts)'
        <4>1. Overdue' \in SUBSET DOMAIN backups'
          BY DEF Overdue
        <4>2. IsFiniteSet(DOMAIN backups') /\ fraction' \in {0, 1} /\ restarts' \in Nat
          BY TimedStepTypes DEF TimedBase, TimedTypeOK
        <4>3. Cardinality(Overdue') \in Nat
          BY <4>1, <4>2, FS_Subset, FS_CardinalityType
        <4>4. Daily => Cardinality(Overdue') + fraction' <= 1 + restarts'
          <5> HIDE DEF Filed, Late
          <5> QED
            BY <2>2, <2>4
        <4>5. PICK n \in Nat, e \in {0, 1}, m \in Nat :
                 n = Cardinality(Overdue') /\ e = fraction' /\ m = restarts'
          BY <4>2, <4>3
        <4>6. Daily => n <= 1 + m
          BY <4>4, <4>5
        <4> QED
          BY <1>3, <4>5, <4>6
      <3> HIDE DEF Filed
      <3> QED
        BY <3>1, <3>2 DEF FiledByPeriod, Filed
    <2> HIDE DEF Held, Filed, Few
    <2> QED
      BY <2>1, <2>3, <2>4
  <1>8. CASE Tick
    <2>1. /\ mtime' = mtime /\ rollover_at' = rollover_at /\ fraction' = fraction
          /\ backups' = backups /\ restarts' = restarts /\ Recorded' = Recorded
      BY <1>8 DEF Tick, Recorded
    <2> HIDE DEF Held, Filed, Few
    <2> QED
      BY <1>6, <1>7, <2>1
  <1>9. CASE Emit /\ shouldRollover
    <2>1. /\ mtime' = now /\ Recorded' \subseteq {now} /\ doRollover
          /\ restarts' = restarts
      BY <1>9 DEF Emit, Recorded
    <2>6. fraction' = 0
      BY <2>1 DEF doRollover
    <2>2. PICK r \in now + 1 .. now + interval : r = rollover_at'
      <3>1. rollover_at' = NextRollover
        BY <2>1 DEF doRollover
      <3> QED
        BY <1>1, <1>4, <3>1, NextIs
    <2>3. r - interval <= now /\ now < r + 0 /\ now \in r - interval .. now
      <3>1. PICK i \in Nat : i = interval
        BY <1>5
      <3>2. now \in Int /\ r \in now + 1 .. now + i /\ i \in Nat
        BY <1>1, <2>2, <3>1
      <3>3. r - i <= now /\ now < r + 0 /\ now \in r - i .. now
        BY <3>2
      <3> QED
        BY <3>1, <3>3
    <2>4. Held(Recorded', mtime', rollover_at', fraction')
      BY <2>1, <2>2, <2>3, <2>6
    <2>7. \A f \in DOMAIN backups' :
             \/ f = Destination /\ backups'[f] = Recorded
             \/ f \in DOMAIN backups /\ backups'[f] = backups[f]
      BY <2>1, RolloverEffect DEF Recorded
    <2>8. ASSUME NEW f \in DOMAIN backups', f = Destination, NEW t \in Recorded
          PROVE  /\ Filed(f, t)
                 /\ (Daily /\ fraction = 0 => ~ Age(t, f) >= interval)
      <3>1. t \in Int /\ rollover_at - interval <= t /\ t < rollover_at + fraction
        <4>1. t \in rollover_at - interval .. mtime /\ mtime < rollover_at + fraction
          BY <1>6, <2>8
        <4> QED
          BY <1>1, <1>5, <4>1
      <3>2. PICK d \in Int : d = f * Unit
        BY <1>1, <1>4, <2>8, DestinationIs
      <3>3. /\ d <= rollover_at - interval /\ rollover_at - interval < d + Unit
            /\ Daily => d + Offset + interval = rollover_at
        BY <1>1, <1>4, <1>5, <2>8, <3>2, DestinationIs DEF ScheduleFits
      <3>4. Age(t, f) = t - (IF Daily THEN Offset ELSE 0) - d
        BY <1>4, <3>2 DEF Age, Local, Offset
      <3> QED
        BY <1>1, <1>5, <3>1, <3>3, <3>4
    <2>5. ASSUME NEW f \in DOMAIN backups', NEW t \in backups'[f] PROVE Filed(f, t)
      <3> HIDE DEF Filed
      <3> QED
        BY <1>7, <2>5, <2>7, <2>8
    <2>9. Few(backups', fraction', restarts')
      <3>1. Late(backups') \in SUBSET
               (Late(backups) \cup (IF fraction = 1 THEN {Destination} ELSE {}))
          \/ ~ Daily
        BY <1>1, <2>7, <2>8
      <3>2. /\ IsFiniteSet(Late(backups) \cup {Destination})
            /\ Cardinality(Late(backups) \cup {Destination}) <= Cardinality(Late(backups)) + 1
        BY <1>12, FS_AddElement
      <3>3. CASE Daily /\ fraction = 0
        <4>1. Late(backups') \in SUBSET Late(backups)
          BY <3>1, <3>3
        <4>2. Cardinality(Late(backups')) <= Cardinality(Late(backups))
              /\ Cardinality(Late(backups')) \in Nat
          BY <1>12, <4>1, FS_Subset, FS_CardinalityType
        <4> HIDE DEF Late
        <4> QED
          BY <1>1, <1>7, <1>12, <2>1, <2>6, <3>3, <4>2
      <3>4. CASE Daily /\ fraction = 1
        <4>1. Late(backups') \in SUBSET (Late(backups) \cup {Destination})
          BY <3>1, <3>4
        <4> HIDE DEF Late
        <4>2. Cardinality(Late(backups')) <= Cardinality(Late(backups) \cup {Destination})
              /\ Cardinality(Late(backups')) \in Nat
              /\ Cardinality(Late(backups) \cup {Destination}) \in Nat
          BY <3>2, <4>1, FS_Subset, FS_CardinalityType
        <4> QED
          BY <1>1, <1>7, <1>12, <2>1, <2>6, <3>2, <3>4, <4>2
      <3> QED
        BY <1>1, <3>3, <3>4
    <2> QED
      BY <2>4, <2>5, <2>9
  <1>10. CASE Emit /\ ~ shouldRollover
    <2>1. /\ mtime' = now /\ Recorded' \subseteq Recorded \cup {now}
          /\ backups' = backups /\ rollover_at' = rollover_at /\ fraction' = fraction
          /\ restarts' = restarts /\ now < rollover_at + fraction
      BY <1>1, <1>10 DEF Emit, shouldRollover, Recorded
    <2>2. /\ rollover_at - interval <= now
          /\ rollover_at - interval .. mtime \subseteq rollover_at - interval .. now
          /\ now \in rollover_at - interval .. now
      BY <1>1, <1>5, <1>6
    <2>3. Held(Recorded', mtime', rollover_at', fraction')
      BY <1>6, <2>1, <2>2
    <2> HIDE DEF Held, Filed, Few
    <2> QED
      BY <1>7, <2>1, <2>3
  <1>11. CASE Restart
    <2>1. /\ mtime' \in IF base = NoFile THEN {now}
                         ELSE IF config.delay THEN {mtime, now} ELSE {mtime}
          /\ restarts' = restarts + 1 /\ Recorded' = Recorded /\ backups' = backups
          /\ fraction' \in {0, 1} /\ ~ (mtime' = rollover_at /\ Daily)
      BY <1>11 DEF Restart, Orderly, Recorded
    <2>7. Few(backups', fraction', restarts')
      <3> HIDE DEF Late
      <3> QED
        BY <1>1, <1>7, <1>12, <2>1
    <2>2. Daily /\ ~ config.delay
      <3>1. restarts' # 0
        BY <1>1, <2>1
      <3> QED
        BY <1>2, <1>3, <3>1, Zenon DEF Orderly
    <2>3. /\ mtime' \in Int /\ rollover_at' \in Int /\ Week \in Nat
          /\ mtime' < rollover_at' /\ rollover_at' <= mtime' + Week
          /\ Scheduled(rollover_at')
          /\ \A s \in mtime' + 1 .. rollover_at' - 1 : ~ Scheduled(s)
      BY <1>4, <1>11, <2>2, RestartIs DEF Orderly
    <2>4. rollover_at' - interval <= mtime'
      <3>1. PICK i \in Nat : i = interval /\ i = Week
        BY <1>5, <2>2
      <3>2. PICK r \in Int, m \in Int : r = rollover_at' /\ m = mtime'
        BY <2>3
      <3>3. r <= m + i
        BY <2>3, <3>1, <3>2
      <3>4. r - i <= m
        BY <3>3
      <3> QED
        BY <3>1, <3>2, <3>4
    <2>5. CASE Recorded # {}
      <3>1. mtime' = mtime /\ mtime < rollover_at
        <4>1. mtime' = mtime
          BY <2>1, <2>2, <2>5 DEF Recorded
        <4>2. mtime <= rollover_at
          BY <1>4, <2>2 DEF ScheduleFits
        <4> QED
          BY <1>1, <2>1, <2>2, <4>1, <4>2
      <3>2. PICK r \in Int : r = rollover_at'
        BY <2>3
      <3>3. /\ Scheduled(rollover_at)
            /\ \A s \in mtime + 1 .. rollover_at - 1 : ~ Scheduled(s)
        BY <1>4, <1>5, <2>2 DEF ScheduleFits
      <3>4. ~ r < rollover_at
        <4>1. r < rollover_at => r \in mtime + 1 .. rollover_at - 1
          BY <1>1, <2>3, <3>1, <3>2
        <4> QED
          BY <2>3, <3>2, <3>3, <4>1
      <3>5. ~ rollover_at < r
        <4>1. rollover_at < r => rollover_at \in mtime + 1 .. r - 1
          <5>1. rollover_at \in Int /\ mtime \in Int /\ mtime < rollover_at
            BY <1>1, <3>1
          <5>2. r \in Int
            BY <3>2
          <5> QED
            BY <5>1, <5>2
        <4> QED
          BY <2>3, <3>1, <3>2, <3>3, <4>1
      <3>6. rollover_at' = rollover_at
        BY <1>1, <3>2, <3>4, <3>5
      <3>7. mtime < rollover_at + fraction'
        <4>1. PICK e \in {0, 1} : e = fraction'
          BY <2>1
        <4>2. mtime < rollover_at + e
          BY <1>1, <3>1
        <4> QED
          BY <4>1, <4>2
      <3>8. Held(Recorded', mtime', rollover_at', fraction')
        BY <1>6, <2>1, <3>1, <3>6, <3>7
      <3> HIDE DEF Held, Filed, Few
      <3> QED
        BY <1>7, <2>1, <2>7, <3>8
    <2>6. CASE Recorded = {}
      BY <1>7, <2>1, <2>4, <2>6, <2>7
    <2> QED
      BY <2>5, <2>6
  <1> QED
    BY <1>8, <1>9, <1>10, <1>11 DEF TimedNext

LEMMA UtcStep == UtcInv /\ [TimedNext]_timedVars => UtcInv'
  <1>1. ASSUME UtcInv, TimedNext PROVE UtcInv'
    <2>1. TimedBase /\ ScheduleFits /\ NamesFit /\ PeriodFits
          /\ FiledByPeriod /\ LateFits
      BY <1>1 DEF UtcInv
    <2>2. TimedBase' /\ ScheduleFits' /\ NamesFit'
      BY <1>1, <2>1, TimedStepTypes, ScheduleStep, NamesStep
    <2>3. CASE Orderly'
      BY <1>1, <2>1, <2>2, <2>3, PeriodStep DEF UtcInv
    <2>4. CASE ~ Orderly'
      <3>1. PeriodFits' /\ FiledByPeriod' /\ LateFits'
        BY <2>4 DEF PeriodFits, FiledByPeriod, LateFits
      <3> QED
        BY <2>2, <3>1 DEF UtcInv
    <2> QED
      BY <2>3, <2>4
  <1>2. ASSUME UtcInv, UNCHANGED timedVars PROVE UtcInv'
    <2>1. TimedBase'
      BY <1>2, TimedStepTypes DEF UtcInv
    <2>2. /\ utc' = utc /\ (Daily' <=> Daily) /\ interval' = interval /\ Unit' = Unit
          /\ Offset' = Offset
          /\ \A t : Scheduled(t)' <=> Scheduled(t)
          /\ \A t, f : Age(t, f)' = Age(t, f)
      BY <1>2, ConfigStays DEF timedVars
    <2>3. ScheduleFits' /\ NamesFit'
      BY <1>2, <2>2 DEF UtcInv, ScheduleFits, NamesFit, timedVars
    <2>4. (Orderly' <=> Orderly) /\ Recorded' = Recorded /\ Overdue' = Overdue
      BY <1>2, <2>2, Zenon DEF Orderly, Recorded, Overdue, timedVars
    <2>5. PeriodFits' /\ FiledByPeriod' /\ LateFits'
      BY <1>2, <2>2, <2>4 DEF UtcInv, PeriodFits, FiledByPeriod, LateFits, timedVars
    <2> QED
      BY <2>1, <2>3, <2>5 DEF UtcInv
  <1> QED
    BY <1>1, <1>2

LEMMA UtcHolds == TimedSpec => []UtcInv
  BY UtcInit, UtcStep, PTL DEF TimedSpec

(* In universal time a daily handler rolls over at scheduled times only,    *)
(* or in the second after if it was just made, and with an interval of 1 it *)
(* passes none over (computeRollover, handlers.py:322), unless it was made  *)
(* again in the second of a rollover that was still due.                    *)
THEOREM UtcStaysOnSchedule == TimedSpec => [](utc => OnSchedule)
  <1>1. ASSUME UtcInv, utc PROVE OnSchedule
    <2> SUFFICES ASSUME Daily, DOMAIN backups # {}, ~ exact, ~ missed,
                        config.interval = 1,
                        NEW s \in IF config.delay /\ restarts > 0 THEN {mtime} ELSE Recorded,
                        NEW t \in s + 1 .. rollover_at - 1, Scheduled(t)
                 PROVE  FALSE
      <3>1. Daily => Scheduled(rollover_at)
        BY <1>1 DEF UtcInv, ScheduleFits
      <3>2. DOMAIN backups # {} /\ restarts = 0 => fraction = 0
        BY <1>1 DEF UtcInv, TimedBase, Rolled
      <3> QED
        BY <1>1, <3>1, <3>2 DEF OnSchedule
    <2>1. /\ config \in Configs /\ rollover_at \in Int /\ mtime \in Int /\ restarts \in Nat
      BY <1>1, TimedAssumption DEF UtcInv, TimedBase, TimedTypeOK
    <2>2. CASE config.delay /\ restarts > 0
      BY <1>1, <2>2 DEF UtcInv, ScheduleFits
    <2>3. CASE ~ (config.delay /\ restarts > 0)
      <3>1. Orderly /\ interval = Week /\ Week \in Nat
        BY <1>1, <2>1, <2>3, IntervalFits DEF Orderly
      <3>2. s \in rollover_at - interval .. mtime
        BY <1>1, <2>3, <3>1 DEF UtcInv, PeriodFits
      <3>3. PICK w \in Nat : w = Week /\ w = interval
        BY <3>1
      <3>4. s \in Int /\ rollover_at - w <= s
        BY <2>1, <3>2, <3>3
      <3>5. t \in Int /\ s < t /\ t < rollover_at
        BY <2>1, <3>4
      <3>6. t + w <= rollover_at
        BY <1>1, <2>1, <3>3, <3>5, WeekApart DEF UtcInv, ScheduleFits
      <3> QED
        BY <2>1, <3>4, <3>5, <3>6
    <2> QED
      BY <2>2, <2>3
  <1> QED
    BY <1>1, UtcHolds, PTL

(* In local time, at midnight.  Between the time at which a clock in summer *)
(* time shows a config's atTime and that at which one in winter time does,  *)
(* clocks do not change: no day skips atTime, and none has it twice.        *)
Spared(c) ==
    \A u \in Int : u % Day = c.atTime % Day =>
        \A t \in u - Hour .. u : IsSummer(t) <=> IsSummer(u)

AtTimesSpared ==
    /\ Hour <= Day
    /\ \A c \in Configs : c.when = "MIDNIGHT" /\ ~ c.utc => Spared(c)

(* The next rollover, corrected for a change of the clocks on the way, is   *)
(* when a clock shows atTime, and with an interval of 1 the first such time.*)
LEMMA LocalNextIs ==
    ASSUME AtTimesSpared, config \in Configs, ~ utc, when = "MIDNIGHT", now \in Int
    PROVE  /\ Scheduled(NextRollover)
           /\ config.interval = 1 =>
                 \A s \in now + 1 .. NextRollover - 1 : ~ Scheduled(s)
  <1> DEFINE h(t) == IF IsSummer(t) THEN Hour ELSE 0
  <1>1. /\ Day \in Nat \ {0} /\ Hour \in Nat \ {0} /\ Hour <= Day
        /\ interval \in Nat \ {0} /\ Offset \in 0 .. Day - 1
        /\ Daily /\ when # "W" /\ Unit = Day
    BY AttributesFit, IntervalFits, OffsetFits DEF AtTimesSpared, Daily, Unit
  <1>2. \A t \in Int : Local(t) = t + h(t) /\ h(t) \in {0, Hour} /\ Local(t) \in Int
    BY <1>1 DEF Local
  <1>3. \A t : Scheduled(t) <=> Local(t) % Day = Offset
    BY <1>1 DEF Scheduled, Offset
  <1>4. \A u \in Int : u % Day = Offset => \A t \in u - Hour .. u : h(t) = h(u)
    <2>1. Spared(config)
      BY DEF AtTimesSpared, utc, when
    <2> QED
      BY <2>1 DEF Spared, Offset
  <1>5. PICK g \in {0, Hour}, l \in Int : g = h(now) /\ l = now + g /\ l = Local(now)
    BY <1>1, <1>2
  (* The time it takes for the next, as a clock of now would show it.       *)
  <1>6. PICK P \in Int, next \in Int :
            /\ next = Day * P + Offset - g
            /\ NextRollover = next + Correction(now, next)
            /\ config.interval = 1 => \A p \in Int : p < P => Day * p + Offset <= l
    <2> DEFINE n == computeRollover(now)
               next == IF n > now THEN n ELSE n + ((now - n) \div interval + 1) * interval
    <2>1. PICK Q \in Int :
              /\ FirstAt(l) = Day * Q + Offset /\ FirstAt(l) \in l .. l + Day
              /\ \A p \in Int : p < Q => Day * p + Offset <= l
      BY FirstAtIs
    <2>2. n = FirstAt(l) - g /\ n \in Int
      <3>1. PICK f \in Int : f = IF config.atTime - (l % Day) < 0
                                 THEN config.atTime - (l % Day) + Day
                                 ELSE config.atTime - (l % Day)
        <4>1. l % Day \in Int /\ config.atTime \in Int
          BY <1>1, AttributesFit, Division
        <4> QED
          BY <1>1, <4>1
      <3>2. n = now + f
        BY <1>1, <1>5, <3>1 DEF computeRollover
      <3>3. FirstAt(l) = l + f
        BY <3>1 DEF FirstAt
      <3> QED
        BY <1>1, <1>5, <3>2, <3>3
    <2>3. NextRollover = next + Correction(now, next)
      BY <1>1 DEF NextRollover
    <2> HIDE DEF n
    <2>4. CASE n > now
      <3>1. next = n
        BY <2>4
      <3>2. next = Day * Q + Offset - g /\ next \in Int
        BY <1>1, <2>1, <2>2, <3>1
      <3>3. ASSUME config.interval = 1, NEW p \in Int, p < Q
            PROVE  Day * p + Offset <= l
        BY <2>1, <3>3
      <3> HIDE DEF next
      <3> QED
        BY <2>3, <3>2, <3>3
    <2>5. CASE ~ n > now
      <3>1. n = now /\ l = Day * Q + Offset
        BY <1>1, <1>5, <2>1, <2>2, <2>5
      <3>2. now - n = 0 /\ 0 \div interval = 0 /\ (0 + 1) * interval = interval
        BY <1>1, <3>1, DivisionIs
      <3>3. next = now + interval
        BY <1>1, <2>5, <3>1, <3>2
      <3>4. PICK k \in Nat : interval = Day * k
        BY <1>1, IntervalFits
      <3>5. Day * (Q + k) = Day * Q + Day * k
        BY <1>1
      <3> HIDE DEF next
      <3>6. next = Day * (Q + k) + Offset - g /\ Q + k \in Int /\ next \in Int
        <4>1. Day * Q \in Int /\ Day * k \in Int /\ Q + k \in Int
          BY <1>1, <2>1, <3>4
        <4>2. now = Day * Q + Offset - g /\ next = now + Day * k
          BY <1>1, <1>5, <2>1, <3>1, <3>3, <3>4
        <4> QED
          BY <1>1, <3>5, <4>1, <4>2
      <3>7. ASSUME config.interval = 1, NEW p \in Int, p < Q + k
            PROVE  Day * p + Offset <= l
        <4>1. k = 1
          <5>1. Day * k = Day
            BY <1>1, <3>4, <3>7, IntervalFits DEF Week
          <5>2. 1 < k => Day * 1 + Day <= Day * k
            BY <1>1, MultiplesApart
          <5>3. k = 0 => Day * k = 0
            BY <1>1
          <5> QED
            BY <1>1, <5>1, <5>2, <5>3
        <4> QED
          BY <2>1, <3>1, <3>7, <4>1
      <3> QED
        BY <2>3, <3>6, <3>7
    <2> QED
      BY <2>4, <2>5
  <1>7. PICK u \in Int : u = Day * P + Offset
    BY <1>1
  <1>8. u % Day = Offset /\ u \div Day = P
    BY <1>1, <1>7, DivisionIs
  <1>9. \A t \in u - Hour .. u : h(t) = h(u)
    BY <1>4, <1>8
  <1>10. PICK r \in u - Hour .. u : r = NextRollover /\ r = u - h(u)
    <2>1. next \in u - Hour .. u /\ next = u - g
      BY <1>1, <1>6, <1>7
    <2>2. h(next) = h(u)
      BY <1>9, <2>1
    <2>3. Correction(now, next) = g - h(next)
      BY <1>1, <1>5 DEF Correction
    <2> QED
      BY <1>1, <1>6, <2>1, <2>2, <2>3
  <1>11. Scheduled(NextRollover)
    <2>1. Local(r) = u
      BY <1>1, <1>2, <1>9, <1>10
    <2> QED
      BY <1>3, <1>8, <1>10, <2>1
  <1>12. ASSUME config.interval = 1, NEW s \in now + 1 .. r - 1, Scheduled(s)
         PROVE  FALSE
    <2>1. PICK v \in Int, p \in Int : v = Local(s) /\ v = Day * p + Offset /\ v % Day = Offset
      <3>1. s \in Int
        BY <1>10
      <3>2. Local(s) \in Int /\ Local(s) % Day = Offset
        BY <1>2, <1>3, <1>12, <3>1
      <3> QED
        BY <1>1, <3>2, Division
    <2>2. s \in v - Hour .. v /\ s = v - h(s) /\ h(s) = h(v)
      <3>0. s \in Int
        BY <1>1, <1>10
      <3>1. v = s + h(s) /\ h(s) \in {0, Hour}
        <4>1. Local(s) = s + h(s) /\ h(s) \in {0, Hour}
          BY <1>2, <3>0
        <4> QED
          BY <2>1, <4>1
      <3>2. s \in v - Hour .. v /\ s = v - h(s)
        BY <1>1, <2>1, <3>0, <3>1
      <3> QED
        BY <1>4, <2>1, <3>2
    <2>3. ~ P < p
      <3>1. P < p => u + Day <= v
        <4>1. P < p => Day * P + Day <= Day * p /\ Day * P \in Int /\ Day * p \in Int
          BY <1>1, MultiplesApart
        <4> QED
          BY <1>1, <1>7, <2>1, <4>1
      <3> QED
        BY <1>1, <1>10, <1>12, <2>2, <3>1
    <2>4. p # P
      <3>1. p = P => v = u
        BY <1>7, <2>1
      <3>2. v = u => s = r
        BY <1>10, <2>2
      <3> QED
        BY <1>10, <1>12, <3>1, <3>2
    <2>5. v <= now + g
      BY <1>5, <1>6, <1>12, <2>1, <2>3, <2>4
    <2>6. now \in v - Hour .. v => h(now) = h(v)
      BY <1>4, <2>1
    <2> HIDE DEF h
    <2>7. s \in Int /\ now < s
      BY <1>10, <1>12
    <2> QED
      BY <1>1, <1>5, <2>2, <2>5, <2>6, <2>7
  <1> QED
    BY <1>10, <1>11, <1>12

(* In local time no step leaves the schedule: no scheduled time is between  *)
(* a record of the base file, or its last change, and rollover_at.          *)
LocalFits ==
    /\ Daily /\ DOMAIN backups # {} /\ ~ utc /\ when = "MIDNIGHT" /\ restarts = 0
    => /\ Scheduled(rollover_at)
       /\ config.interval = 1 =>
             \A s \in Recorded \cup {mtime} :
                \A t \in s + 1 .. rollover_at - 1 : ~ Scheduled(t)

LEMMA MidnightStep ==
    ASSUME AtTimesSpared, TimedBase, LocalFits, [TimedNext]_timedVars
    PROVE  LocalFits'
  <1>1. /\ config \in Configs /\ now \in Int /\ rollover_at \in Int
        /\ mtime \in 0 .. now /\ restarts \in Nat
    BY TimedAssumption DEF TimedBase, TimedTypeOK
  <1>2. config' = config
    BY DEF TimedNext, Tick, Emit, Restart, timedVars
  <1>3. /\ utc' = utc /\ when' = when /\ (Daily' <=> Daily)
        /\ \A t : Scheduled(t)' <=> Scheduled(t)
    BY <1>2, ConfigStays DEF when
  <1> DEFINE Fits(b, m, r) ==
               /\ Scheduled(r)
               /\ config.interval = 1 =>
                     \A s \in b \cup {m} : \A t \in s + 1 .. r - 1 : ~ Scheduled(t)
  <1> SUFFICES ASSUME ~ utc, when = "MIDNIGHT", restarts' = 0, DOMAIN backups' # {}
               PROVE  Fits(Recorded', mtime', rollover_at')
    BY <1>2, <1>3 DEF LocalFits
  <1>4. CASE Emit /\ shouldRollover
    <2>1. mtime' = now /\ rollover_at' = NextRollover /\ Recorded' \subseteq {now}
      BY <1>4 DEF Emit, doRollover, Recorded
    <2> QED
      BY <1>1, <2>1, LocalNextIs
  <1>5. CASE Emit /\ ~ shouldRollover
    <2>1. /\ mtime' = now /\ Recorded' \subseteq Recorded \cup {now}
          /\ UNCHANGED <<backups, rollover_at, restarts>>
      BY <1>5 DEF Emit, Recorded
    <2>2. Fits(Recorded, mtime, rollover_at)
      BY <2>1 DEF LocalFits, Daily
    <2> QED
      BY <1>1, <2>1, <2>2
  <1>6. CASE Tick \/ UNCHANGED timedVars
    <2>1. UNCHANGED <<backups, rollover_at, restarts, mtime>> /\ Recorded' = Recorded
      BY <1>6 DEF Tick, timedVars, Recorded
    <2>2. Fits(Recorded, mtime, rollover_at)
      BY <2>1 DEF LocalFits, Daily
    <2> QED
      BY <2>1, <2>2
  <1>7. CASE Restart
    <2>1. restarts' = restarts + 1
      BY <1>7 DEF Restart
    <2> QED
      BY <1>1, <2>1
  <1> QED
    BY <1>4, <1>5, <1>6, <1>7 DEF TimedNext

(* A daily handler stays on schedule across changes of the clocks as well,  *)
(* as long as they spare its atTime (the corrections of doRollover,         *)
(* handlers.py:456).                                                        *)
THEOREM StaysOnSchedule ==
    ASSUME AtTimesSpared
    PROVE  TimedSpec => []OnSchedule
  <1>1. TimedInit => LocalFits
    BY DEF TimedInit, LocalFits
  <1>2. TimedBase /\ LocalFits /\ [TimedNext]_timedVars => LocalFits'
    BY MidnightStep
  <1>3. UtcInv => TimedBase
    BY DEF UtcInv
  <1>4. TimedBase /\ LocalFits => (~ utc => OnSchedule)
    BY DEF TimedBase, Rolled, LocalFits, OnSchedule
  <1> QED
    BY <1>1, <1>2, <1>3, <1>4, UtcHolds, UtcStaysOnSchedule, PTL DEF TimedSpec

(* A rolled over file holds the records of the period it is named for, and  *)
(* of daily ones at most one for each start of the program those of the     *)
(* second after (__init__, handlers.py:317; doRollover, handlers.py:456).   *)
THEOREM FilesHoldTheirPeriod == TimedSpec => []FiledByPeriod
  <1>1. UtcInv => FiledByPeriod
    BY DEF UtcInv
  <1> QED
    BY <1>1, UtcHolds, PTL

LEMMA RolloverKeeps ==
    ASSUME UtcInv, utc, ~ exact, doRollover
    PROVE  BaseKept /\ \A f \in DOMAIN backups : KeptOrOldest(f)
  <1>1. /\ TimedBase /\ config \in Configs /\ IsFiniteSet(DOMAIN backups)
        /\ config.backupCount > 0 => Cardinality(DOMAIN backups) <= config.backupCount
        /\ \A f \in DOMAIN backups : f \in Int
    BY DEF UtcInv, TimedBase, TimedTypeOK
  <1>2. \A f \in DOMAIN backups : f < Destination
    BY <1>1, NamesAreBefore DEF UtcInv
  <1>3. /\ Destination \in Int /\ Names \in SUBSET Int /\ IsFiniteSet(Names)
        /\ DOMAIN backups' = Names \ Deleted
        /\ \A f \in Names \ Deleted :
              backups'[f] = IF f = Destination THEN base ELSE backups[f]
    BY <1>1, RolloverEffect
  <1>4. Names \ {Destination} \subseteq DOMAIN backups
    BY <1>1, RolloverEffect
  <1>5. ASSUME base # NoFile PROVE base \in Range(backups')
    <2>1. Destination \in Names
      BY <1>5 DEF Names
    <2>2. \A g \in Names : g <= Destination
      BY <1>2, <1>3, <1>4
    <2>3. Destination \notin Deleted
      BY <1>1, <1>3, <2>1, <2>2, NewestStays DEF Deleted
    <2> QED
      BY <1>3, <2>1, <2>3 DEF Range
  <1>6. ASSUME NEW f \in DOMAIN backups PROVE KeptOrOldest(f)
    <2>1. f # Destination
      BY <1>1, <1>2, <1>3, <1>6
    <2>2. f \in Names
      BY <1>6, <2>1 DEF Names
    <2>3. CASE f \notin Deleted
      BY <1>3, <2>1, <2>2, <2>3 DEF KeptOrOldest
    <2>4. CASE f \in Deleted
      <3>1. config.backupCount > 0 /\ Deleted = FilesToDelete(Names)
        BY <2>4 DEF Deleted
      <3>2. Cardinality(Names) <= config.backupCount + 1
        <4> DEFINE D == DOMAIN backups
        <4>1. /\ IsFiniteSet(D \cup {Destination})
              /\ Cardinality(D \cup {Destination}) <= Cardinality(D) + 1
              /\ Cardinality(D) \in Nat
          <5>1. IsFiniteSet(D) /\ Cardinality(D) \in Nat
            BY <1>1, FS_CardinalityType
          <5>2. /\ IsFiniteSet(D \cup {Destination})
                /\ Cardinality(D \cup {Destination}) =
                      IF Destination \in D THEN Cardinality(D) ELSE Cardinality(D) + 1
            BY <5>1, FS_AddElement
          <5> QED
            BY <5>1, <5>2
        <4>2. Names \in SUBSET (D \cup {Destination})
          BY DEF Names
        <4>3. /\ Cardinality(Names) <= Cardinality(D \cup {Destination})
              /\ Cardinality(Names) \in Nat /\ Cardinality(D \cup {Destination}) \in Nat
          BY <1>3, <4>1, <4>2, FS_Subset, FS_CardinalityType
        <4>4. config.backupCount \in Nat
          BY <1>1, AttributesFit
        <4> QED
          BY <1>1, <3>1, <4>1, <4>3, <4>4
      <3>3. Cardinality(Later(Names \ FilesToDelete(Names), f)) = config.backupCount
        BY <1>1, <1>3, <2>4, <3>1, <3>2, OldestGoes
      <3> QED
        BY <1>3, <3>1, <3>3 DEF KeptOrOldest, Later
    <2> QED
      BY <2>3, <2>4
  <1> QED
    BY <1>5, <1>6 DEF BaseKept

(* In universal time, with no restart on a file last changed at the very    *)
(* atTime of a rollover, a rollover loses no record but those of the oldest *)
(* file (doRollover, handlers.py:456, and getFilesToDelete, handlers.py:411). *)
THEOREM UtcBackupsSurvive == TimedSpec => BackupsSurviveInUtc
  <1>1. ASSUME UtcInv, TimedNext, utc, ~ exact
        PROVE  BaseKept /\ \A f \in DOMAIN backups : KeptOrOldest(f)
    <2>1. CASE Emit /\ shouldRollover
      BY <1>1, <2>1, RolloverKeeps DEF Emit
    <2>2. CASE Tick \/ Restart \/ (Emit /\ ~ shouldRollover)
      <3>1. backups' = backups /\ (base = NoFile \/ base \subseteq base')
        BY <2>2 DEF Tick, Restart, Emit, Recorded
      <3> QED
        BY <3>1 DEF BaseKept, KeptOrOldest
    <2> QED
      BY <1>1, <2>1, <2>2 DEF TimedNext
  <1>2. UtcInv /\ [TimedNext]_timedVars =>
          [utc /\ ~ exact =>
             BaseKept /\ \A f \in DOMAIN backups : KeptOrOldest(f)]_timedVars
    BY <1>1
  <1> QED
    BY <1>2, UtcHolds, PTL DEF TimedSpec, BackupsSurviveInUtc
================================================================================
