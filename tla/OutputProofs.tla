----------------------------- MODULE OutputProofs -----------------------------
(***************************************************************************)
(* Proofs about what records become on their way out.                       *)
(*                                                                         *)
(* About SocketHandler, for any back-off, timeout, clock and peer: its      *)
(* types, what its connections carry, and how far apart its attempts to     *)
(* connect are.                                                             *)
(*                                                                         *)
(* About FormatStyle and RecordText, for any format, defaults, values,      *)
(* filters, paths and exceptions: the fragments of a format are as many as  *)
(* were counted and write what Python's formatting writes; what a Formatter *)
(* makes of a record is what the application put into it; and what a        *)
(* QueueHandler formatted arrives once.                                     *)
(***************************************************************************)
EXTENDS SocketHandler, RecordText, SequenceTheorems, FiniteSetTheorems,
        WellFoundedInduction, TLAPS

-----------------------------------------------------------------------------
(* Induction: a property of numbers that fails fails for a smallest one.    *)
LEMMA NatMin ==
    ASSUME NEW T, T \subseteq Nat, T # {}
    PROVE  \E m \in T : \A k \in T : m <= k
  <1>1. PICK m \in T : \A k \in T : ~ (<<k, m>> \in OpToRel(<, Nat))
    BY NatLessThanWellFounded, WFMin
  <1>2. \A k \in T : <<k, m>> \in OpToRel(<, Nat) <=> k < m
    BY DEF OpToRel
  <1>3. \A k \in T : ~ (k < m)
    BY <1>1, <1>2, Zenon
  <1>4. T \subseteq Nat
    OBVIOUS
  <1> QED
    BY <1>3, <1>4

-----------------------------------------------------------------------------
Frames == [rec : Nat, whole : BOOLEAN]
Streams == Seq([frames : Seq(Frames), closed : BOOLEAN])

(* A period has been computed before there is a time to wait for, and emit  *)
(* sends over a socket it has and connects for want of one.                 *)
PlacesFit ==
    /\ streams \in Streams
    /\ retryTime # None => retryPeriod # None
    /\ pc = "sending" => sock # None
    /\ pc = "connecting" => sock = None

-----------------------------------------------------------------------------
LEMMA SocketInit == Init => TypeOK /\ PlacesFit
  <1> SUFFICES ASSUME Init PROVE TypeOK /\ PlacesFit
    OBVIOUS
  <1>1. streams \in Streams /\ failed \in Seq(0 .. Horizon) /\ Len(streams) = 0
    BY EmptySeq DEF Init, Streams
  <1> QED
    BY <1>1, SocketAssumption DEF Init, TypeOK, PlacesFit, SocketAssumption, Connections

(* A stream that is changed leaves the others as they are.                  *)
LEMMA OneStream ==
    ASSUME TypeOK, PlacesFit, sock # None,
           NEW t \in [frames : Seq(Frames), closed : BOOLEAN]
    PROVE  /\ sock \in Connections
           /\ streams[sock] \in [frames : Seq(Frames), closed : BOOLEAN]
           /\ [streams EXCEPT ![sock] = t] \in Streams
           /\ Len([streams EXCEPT ![sock] = t]) = Len(streams)
           /\ \A c \in Connections :
                 [streams EXCEPT ![sock] = t][c] = IF c = sock THEN t ELSE streams[c]
  <1>1. sock \in 1 .. Len(streams)
        /\ streams \in Seq([frames : Seq(Frames), closed : BOOLEAN])
    BY DEF TypeOK, Connections, PlacesFit, Streams
  <1>2. streams[sock] \in [frames : Seq(Frames), closed : BOOLEAN]
    BY <1>1, ElementOfSeq
  <1> QED
    BY <1>1, <1>2, ExceptSeq DEF Connections, Streams

(* Closing the connection in use changes nothing else.                      *)
LEMMA Closing ==
    ASSUME TypeOK, PlacesFit, CloseSocket
    PROVE  /\ sock' = None
           /\ streams' \in Streams /\ Len(streams') = Len(streams)
           /\ \A c \in Connections :
                 streams'[c] = IF c = sock THEN [streams[c] EXCEPT !.closed = TRUE]
                               ELSE streams[c]
  <1>1. CASE sock = None
    <2>1. \A c \in Connections : c # sock
      BY <1>1, SocketAssumption, LenProperties
         DEF PlacesFit, Streams, SocketAssumption, Connections
    <2> QED
      BY <1>1, <2>1 DEF CloseSocket, PlacesFit
  <1>2. CASE sock # None
    <2> DEFINE t == [streams[sock] EXCEPT !.closed = TRUE]
    <2>1. streams[sock] \in [frames : Seq(Frames), closed : BOOLEAN]
      BY <1>2, ElementOfSeq DEF TypeOK, Connections, PlacesFit, Streams
    <2>2. t \in [frames : Seq(Frames), closed : BOOLEAN]
      BY <2>1
    <2>3. streams' = [streams EXCEPT ![sock] = t]
      BY <1>2 DEF CloseSocket, Closed
    <2> HIDE DEF t
    <2>4. /\ streams' \in Streams /\ Len(streams') = Len(streams)
          /\ \A c \in Connections : streams'[c] = IF c = sock THEN t ELSE streams[c]
      BY <1>2, <2>2, <2>3, OneStream
    <2> QED
      BY <2>4 DEF CloseSocket, t
  <1> QED
    BY <1>1, <1>2

(* sendall adds a frame, whole or broken off, to the connection in use; and *)
(* the connection may be closed after that.                                 *)
LEMMA SendingFrame ==
    ASSUME TypeOK, PlacesFit, pc = "sending", NEW whole \in BOOLEAN
    PROVE  /\ sock \in Connections /\ sock # None
           /\ streams[sock] \in [frames : Seq(Frames), closed : BOOLEAN]
           /\ Frame(whole) \in Frames
           /\ Sending(Frame(whole)) \in Streams
           /\ Len(Sending(Frame(whole))) = Len(streams)
           /\ \A c \in Connections :
                 Sending(Frame(whole))[c] =
                     IF c = sock
                     THEN [streams[c] EXCEPT !.frames = Append(@, Frame(whole))]
                     ELSE streams[c]
  <1> DEFINE t == [streams[sock] EXCEPT !.frames = Append(@, Frame(whole))]
  <1>1. sock # None /\ Frame(whole) \in Frames
    BY SocketAssumption DEF PlacesFit, Frame, Frames, TypeOK, SocketAssumption
  <1>2. streams[sock] \in [frames : Seq(Frames), closed : BOOLEAN]
    BY <1>1, ElementOfSeq DEF TypeOK, Connections, PlacesFit, Streams
  <1>3. Append(streams[sock].frames, Frame(whole)) \in Seq(Frames)
    BY <1>1, <1>2, AppendProperties
  <1>4. t \in [frames : Seq(Frames), closed : BOOLEAN]
    BY <1>2, <1>3
  <1>5. Sending(Frame(whole)) = [streams EXCEPT ![sock] = t]
    BY DEF Sending
  <1>6. sock \in Connections
    BY <1>1 DEF TypeOK
  <1> HIDE DEF t
  <1>7. /\ [streams EXCEPT ![sock] = t] \in Streams
        /\ Len([streams EXCEPT ![sock] = t]) = Len(streams)
        /\ \A c \in Connections :
              [streams EXCEPT ![sock] = t][c] = IF c = sock THEN t ELSE streams[c]
    BY <1>1, <1>4, OneStream
  <1> QED
    BY <1>1, <1>2, <1>5, <1>6, <1>7 DEF t

(* The back-off stays within its limits.                                    *)
LEMMA PeriodWithin ==
    ASSUME TypeOK, PlacesFit PROVE NextPeriod \in RetryStart .. RetryMax
  <1> USE SocketAssumption DEF SocketAssumption
  <1>1. CASE retryTime = None
    BY <1>1 DEF NextPeriod
  <1>2. CASE retryTime # None
    <2>1. retryPeriod \in RetryStart .. RetryMax
      BY <1>2 DEF TypeOK, PlacesFit
    <2>2. \A p \in Nat, k \in Nat \ {0} : p * k \in Nat /\ p * k >= p
      OBVIOUS
    <2>3. retryPeriod * RetryFactor \in Nat /\ retryPeriod * RetryFactor >= retryPeriod
      BY <2>1, <2>2
    <2> QED
      BY <1>2, <2>1, <2>3 DEF NextPeriod
  <1> QED
    BY <1>1, <1>2

(* A new connection comes behind the others.                                *)
LEMMA Connecting ==
    ASSUME TypeOK, PlacesFit, Connect
    PROVE  /\ streams' \in Streams /\ Len(streams') = Len(streams) + 1
           /\ sock' = Len(streams) + 1
           /\ \A c \in Connections : streams'[c] = streams[c]
           /\ streams'[Len(streams) + 1] = [frames |-> <<>>, closed |-> FALSE]
           /\ Len(streams) \in Nat
  <1> DEFINE new == [frames |-> <<>>, closed |-> FALSE]
  <1>1. new \in [frames : Seq(Frames), closed : BOOLEAN]
    BY EmptySeq
  <1>2. streams' = Append(streams, new) /\ sock' = Len(streams')
    BY DEF Connect
  <1>3. streams \in Seq([frames : Seq(Frames), closed : BOOLEAN])
    BY DEF PlacesFit, Streams
  <1> HIDE DEF new
  <1>4. /\ Append(streams, new) \in Streams
        /\ Len(Append(streams, new)) = Len(streams) + 1
        /\ \A c \in 1 .. Len(streams) : Append(streams, new)[c] = streams[c]
        /\ Append(streams, new)[Len(streams) + 1] = new
    BY <1>1, <1>3, AppendProperties DEF Streams
  <1>5. Len(streams) \in Nat
    BY <1>3, LenProperties
  <1> QED
    BY <1>2, <1>4, <1>5 DEF new, Connections

(* Once the streams are, the rest of the types are.                         *)
LEMMA FromStreams ==
    ASSUME streams' \in Streams
    PROVE  \A c \in Connections' : streams'[c].closed \in BOOLEAN
  <1>1. \A c \in 1 .. Len(streams') :
            streams'[c] \in [frames : Seq(Frames), closed : BOOLEAN]
    BY ElementOfSeq DEF Streams
  <1> QED
    BY <1>1 DEF Connections

LEMMA SocketStep == TypeOK /\ PlacesFit /\ [Next]_vars => TypeOK' /\ PlacesFit'
  <1> SUFFICES ASSUME TypeOK, PlacesFit, [Next]_vars PROVE TypeOK' /\ PlacesFit'
    OBVIOUS
  <1> USE SocketAssumption DEF SocketAssumption, backoff, clock
  <1>0. ASSUME UNCHANGED streams
        PROVE  /\ streams' \in Streams /\ Connections' = Connections
               /\ \A c \in Connections' : streams'[c].closed \in BOOLEAN
    BY <1>0, FromStreams DEF PlacesFit, Connections
  <1>1. ASSUME Log PROVE emits' \in 0 .. MaxRecords
    BY <1>1 DEF Log, TypeOK
  <1>2. CASE EmitUnpicklable \/ Close
    <2>1. /\ streams' \in Streams /\ Connections' = Connections
          /\ \A c \in Connections' : streams'[c].closed \in BOOLEAN
          /\ sock' \in {sock, None}
      <3>1. CASE CloseSocket
        BY <3>1, Closing, FromStreams DEF Connections
      <3>2. CASE UNCHANGED <<sock, streams>>
        BY <1>0, <3>2
      <3> QED
        BY <1>2, <3>1, <3>2 DEF EmitUnpicklable, Close
    <2>2. emits' \in 0 .. MaxRecords /\ pc = "idle" /\ UNCHANGED <<backoff, clock, pc, up, closeOnError>>
      BY <1>1, <1>2 DEF EmitUnpicklable, Close, Log, TypeOK
    <2> QED
      BY <2>1, <2>2 DEF TypeOK, PlacesFit
  <1>3. CASE Connect
    <2>1. /\ streams' \in Streams /\ sock' \in Connections' /\ sock' # None
          /\ \A c \in Connections' : streams'[c].closed \in BOOLEAN
      BY <1>3, Connecting, FromStreams DEF Connections
    <2>2. failed' \in Seq(0 .. Horizon)
      BY <1>3, EmptySeq DEF Connect
    <2> QED
      BY <1>3, <2>1, <2>2 DEF Connect, TypeOK, PlacesFit
  <1>4. CASE ConnectFails
    <2>1. failed' \in Seq(0 .. Horizon)
      BY <1>4, AppendProperties DEF ConnectFails, TypeOK
    <2>2. retryPeriod' \in RetryStart .. RetryMax /\ retryTime' \in Nat
      BY <1>4, PeriodWithin DEF ConnectFails, TypeOK
    <2> QED
      BY <1>4, <2>1, <2>2 DEF ConnectFails, TypeOK, PlacesFit, Connections
  <1>5. CASE Send
    <2>1. streams' \in Streams /\ Len(streams') = Len(streams)
      BY <1>5, SendingFrame DEF Send, PlacesFit
    <2> QED
      BY <1>5, <2>1, FromStreams DEF Send, TypeOK, PlacesFit, Connections
  <1>6. CASE SendFails
    <2>1. PICK written \in {Sending(Frame(FALSE)), streams} :
              streams' = [written EXCEPT ![sock].closed = TRUE]
      BY <1>6 DEF SendFails
    <2>2. /\ written \in Seq([frames : Seq(Frames), closed : BOOLEAN])
          /\ Len(written) = Len(streams) /\ sock \in 1 .. Len(written)
      BY <1>6, <2>1, SendingFrame DEF SendFails, PlacesFit, Streams, Connections
    <2>3. streams' \in Streams /\ Len(streams') = Len(streams)
      <3>1. [written[sock] EXCEPT !.closed = TRUE] \in [frames : Seq(Frames), closed : BOOLEAN]
        <4>1. written[sock] \in [frames : Seq(Frames), closed : BOOLEAN]
          BY <2>2, ElementOfSeq
        <4> QED
          BY <4>1
      <3> QED
        BY <2>1, <2>2, <3>1, ExceptSeq DEF Streams
    <2> QED
      BY <1>6, <2>3, FromStreams DEF SendFails, TypeOK, PlacesFit, Connections
  <1>7. CASE Tick \/ SetBack \/ Peer
    <2>1. now' \in 0 .. Horizon /\ setBacks' \in 0 .. MaxSetBacks
      BY <1>7 DEF Tick, SetBack, Peer, TypeOK
    <2>2. up' \in BOOLEAN
      BY <1>7 DEF Tick, SetBack, Peer, TypeOK
    <2> QED
      BY <1>0, <1>7, <2>1, <2>2 DEF Tick, SetBack, Peer, TypeOK, PlacesFit
  <1>8. CASE EmitConnected
    BY <1>0, <1>1, <1>8 DEF EmitConnected, TypeOK, PlacesFit
  <1>9. CASE EmitAttempts
    BY <1>0, <1>1, <1>9 DEF EmitAttempts, TypeOK, PlacesFit
  <1>10. CASE EmitTooEarly
    BY <1>0, <1>1, <1>10 DEF EmitTooEarly, TypeOK, PlacesFit
  <1>11. CASE UNCHANGED vars
    BY <1>0, <1>11 DEF TypeOK, PlacesFit, vars
  <1> QED
    BY <1>2, <1>3, <1>4, <1>5, <1>6, <1>7, <1>8, <1>9, <1>10, <1>11 DEF Next

(* Every reachable state is well typed: the period stays between its start  *)
(* and its limit, and the socket is one of the connections made.            *)
THEOREM SocketTypesHold == Spec => []TypeOK
  BY SocketInit, SocketStep, PTL DEF Spec

-----------------------------------------------------------------------------
Intact(t) ==
    \A i \in 1 .. Len(t.frames) :
        t.frames[i].whole \/ (i = Len(t.frames) /\ t.closed)

(* A frame behind whole ones keeps a stream intact if it is whole itself or *)
(* the stream is closed.                                                    *)
LEMMA FrameAdded ==
    ASSUME NEW t \in [frames : Seq(Frames), closed : BOOLEAN], Intact(t), ~ t.closed,
           NEW f \in Frames, NEW u, u.frames = Append(t.frames, f), f.whole \/ u.closed
    PROVE  Intact(u)
  <1>1. t.frames \in Seq(Frames)
    OBVIOUS
  <1>2. /\ Len(u.frames) = Len(t.frames) + 1
        /\ \A i \in 1 .. Len(t.frames) : u.frames[i] = t.frames[i]
        /\ u.frames[Len(t.frames) + 1] = f
    BY <1>1, AppendProperties
  <1>3. Len(t.frames) \in Nat
    BY <1>1, LenProperties
  <1>4. \A i \in 1 .. Len(t.frames) : t.frames[i].whole
    BY DEF Intact
  <1>5. ASSUME NEW i \in 1 .. Len(u.frames)
        PROVE  u.frames[i].whole \/ (i = Len(u.frames) /\ u.closed)
    <2>1. CASE i \in 1 .. Len(t.frames)
      BY <1>2, <1>4, <2>1
    <2>2. CASE i = Len(t.frames) + 1
      BY <1>2, <2>2
    <2> QED
      BY <1>2, <1>3, <1>5, <2>1, <2>2
  <1> QED
    BY <1>5 DEF Intact

Sound == \A c \in Connections : Intact(streams[c]) /\ (streams[c].closed <=> c # sock)

LEMMA SoundStep == TypeOK /\ PlacesFit /\ Sound /\ [Next]_vars => Sound'
  <1> SUFFICES ASSUME TypeOK, PlacesFit, Sound, [Next]_vars PROVE Sound'
    OBVIOUS
  <1>0. /\ \A c \in Connections : streams[c] \in [frames : Seq(Frames), closed : BOOLEAN]
        /\ Len(streams) \in Nat
    BY ElementOfSeq, LenProperties DEF PlacesFit, Streams, Connections
  <1>1. CASE UNCHANGED <<sock, streams>>
    BY <1>1 DEF Sound, Connections, Intact
  <1>2. CASE CloseSocket
    <2>1. /\ sock' = None /\ Len(streams') = Len(streams)
          /\ \A c \in Connections :
                streams'[c] = IF c = sock THEN [streams[c] EXCEPT !.closed = TRUE]
                              ELSE streams[c]
      BY <1>2, Closing
    <2>2. Connections' = Connections /\ None \notin Connections
      BY <1>0, <2>1, SocketAssumption DEF Connections, SocketAssumption
    <2>3. ASSUME NEW c \in Connections PROVE Intact(streams'[c]) /\ streams'[c].closed
      <3>1. CASE c = sock
        <4>1. streams'[c].frames = streams[c].frames /\ streams'[c].closed
          BY <1>0, <2>1, <3>1
        <4> QED
          BY <4>1 DEF Sound, Intact
      <3>2. CASE c # sock
        BY <2>1, <3>2 DEF Sound
      <3> QED
        BY <3>1, <3>2
    <2>4. Sound' <=> \A c \in Connections' :
                        Intact(streams'[c]) /\ (streams'[c].closed <=> c # sock')
      BY DEF Sound, Intact
    <2> QED
      BY <2>1, <2>2, <2>3, <2>4
  <1>3. CASE Connect
    <2> DEFINE n == Len(streams) + 1
    <2>1. /\ sock' = n /\ Connections' = 1 .. n
          /\ \A c \in Connections : streams'[c] = streams[c]
          /\ streams'[n] = [frames |-> <<>>, closed |-> FALSE]
      BY <1>3, Connecting DEF Connections
    <2>2. sock = None /\ None \notin Connections
      BY <1>3, SocketAssumption DEF Connect, PlacesFit, SocketAssumption, Connections
    <2>3. ASSUME NEW c \in 1 .. n
          PROVE  Intact(streams'[c]) /\ (streams'[c].closed <=> c # n)
      <3>1. CASE c = n
        BY <2>1, <3>1, EmptySeq DEF Intact
      <3>2. CASE c # n
        BY <1>0, <2>1, <2>2, <3>2 DEF Sound, Connections
      <3> QED
        BY <3>1, <3>2
    <2>4. Sound' <=> \A c \in Connections' :
                        Intact(streams'[c]) /\ (streams'[c].closed <=> c # sock')
      BY DEF Sound, Intact
    <2> QED
      BY <2>1, <2>3, <2>4
  <1>4. CASE Send
    <2>1. CASE streams' = streams
      BY <1>1, <1>4, <2>1 DEF Send
    <2>2. CASE streams' = Sending(Frame(TRUE))
      <3>1. /\ sock' = sock /\ Connections' = Connections /\ sock \in Connections
            /\ Frame(TRUE) \in Frames /\ Frame(TRUE).whole
            /\ \A c \in Connections :
                  streams'[c] = IF c = sock
                                THEN [streams[c] EXCEPT !.frames = Append(@, Frame(TRUE))]
                                ELSE streams[c]
        BY <1>4, <2>2, SendingFrame DEF Send, Connections, Frame
      <3>2. ASSUME NEW c \in Connections
            PROVE  Intact(streams'[c]) /\ (streams'[c].closed <=> c # sock)
        <4>1. CASE c = sock
          <5>1. /\ ~ streams[c].closed /\ Intact(streams[c])
                /\ streams'[c].frames = Append(streams[c].frames, Frame(TRUE))
                /\ streams'[c].closed = streams[c].closed
            BY <1>0, <3>1, <4>1 DEF Sound
          <5> QED
            BY <1>0, <3>1, <4>1, <5>1, FrameAdded
        <4>2. CASE c # sock
          BY <3>1, <4>2 DEF Sound
        <4> QED
          BY <4>1, <4>2
      <3>3. Sound' <=> \A c \in Connections' :
                          Intact(streams'[c]) /\ (streams'[c].closed <=> c # sock')
        BY DEF Sound, Intact
      <3> QED
        BY <3>1, <3>2, <3>3
    <2> QED
      BY <1>4, <2>1, <2>2 DEF Send
  <1>5. CASE SendFails
    <2>1. PICK written \in {Sending(Frame(FALSE)), streams} :
              streams' = [written EXCEPT ![sock].closed = TRUE]
      BY <1>5 DEF SendFails
    <2>2. /\ sock \in Connections /\ sock' = None
          /\ Frame(FALSE) \in Frames
          /\ written \in Streams /\ Len(written) = Len(streams)
          /\ \A c \in Connections \ {sock} : written[c] = streams[c]
          /\ written[sock].frames \in {streams[sock].frames,
                                    Append(streams[sock].frames, Frame(FALSE))}
          /\ written[sock] \in [frames : Seq(Frames), closed : BOOLEAN]
      <3>1. /\ pc = "sending" /\ sock' = None /\ sock \in Connections
            /\ Frame(FALSE) \in Frames
        BY <1>5, SendingFrame DEF SendFails
      <3>2. CASE written = streams
        BY <1>0, <3>1, <3>2 DEF PlacesFit
      <3>3. CASE written = Sending(Frame(FALSE))
        <4>1. /\ written \in Streams /\ Len(written) = Len(streams)
              /\ \A c \in Connections :
                    written[c] = IF c = sock
                              THEN [streams[c] EXCEPT !.frames = Append(@, Frame(FALSE))]
                              ELSE streams[c]
          BY <3>1, <3>3, SendingFrame
        <4>2. written[sock].frames = Append(streams[sock].frames, Frame(FALSE))
          BY <1>0, <3>1, <4>1
        <4>3. written[sock] \in [frames : Seq(Frames), closed : BOOLEAN]
          BY <3>1, <4>1, ElementOfSeq DEF Streams, Connections
        <4> QED
          BY <3>1, <4>1, <4>2, <4>3
      <3> QED
        BY <3>2, <3>3
    <2>3. /\ Len(streams') = Len(streams)
          /\ \A c \in Connections :
                streams'[c] = IF c = sock THEN [written[sock] EXCEPT !.closed = TRUE]
                              ELSE streams[c]
      <3> DEFINE t == [written[sock] EXCEPT !.closed = TRUE]
      <3>1. t \in [frames : Seq(Frames), closed : BOOLEAN]
        BY <2>2
      <3>2. streams' = [written EXCEPT ![sock] = t]
        BY <2>1
      <3>3. written \in Seq([frames : Seq(Frames), closed : BOOLEAN]) /\ sock \in 1 .. Len(written)
        BY <2>2 DEF Streams, Connections
      <3> HIDE DEF t
      <3>4. /\ Len(streams') = Len(written)
            /\ \A c \in 1 .. Len(written) : streams'[c] = IF c = sock THEN t ELSE written[c]
        BY <3>1, <3>2, <3>3, ExceptSeq
      <3> QED
        BY <2>2, <3>4 DEF t, Connections
    <2>4. ASSUME NEW c \in Connections PROVE Intact(streams'[c]) /\ streams'[c].closed
      <3>1. CASE c = sock
        <4>1. /\ ~ streams[c].closed /\ Intact(streams[c])
              /\ streams'[c].frames = written[c].frames /\ streams'[c].closed
          BY <2>2, <2>3, <3>1 DEF Sound
        <4>2. CASE written[c].frames = streams[c].frames
          BY <4>1, <4>2 DEF Intact
        <4>3. CASE written[c].frames = Append(streams[c].frames, Frame(FALSE))
          BY <1>0, <2>2, <4>1, <4>3, FrameAdded
        <4> QED
          BY <2>2, <3>1, <4>2, <4>3
      <3>2. CASE c # sock
        BY <2>3, <3>2 DEF Sound
      <3> QED
        BY <3>1, <3>2
    <2>5. Connections' = Connections /\ None \notin Connections
      BY <1>0, <2>3, SocketAssumption DEF Connections, SocketAssumption
    <2>6. Sound' <=> \A c \in Connections' :
                        Intact(streams'[c]) /\ (streams'[c].closed <=> c # sock')
      BY DEF Sound, Intact
    <2> QED
      BY <2>2, <2>4, <2>5, <2>6
  <1> QED
    BY <1>1, <1>2, <1>3, <1>4, <1>5
       DEF Next, Tick, SetBack, Peer, EmitUnpicklable, EmitConnected, EmitAttempts,
           EmitTooEarly, ConnectFails, Close, vars

(* On every connection a frame that was broken off is the last, and the     *)
(* handler has closed every connection but the one it uses, however sends,  *)
(* failures, close() and the peer's comings and goings follow on each other *)
(* (handlers.py:913).                                                       *)
THEOREM StreamsStaySound == Spec => []StreamsSound
  <1>1. Init => Sound
    BY DEF Init, Sound, Connections
  <1>2. Sound => StreamsSound
    BY DEF Sound, Intact, StreamsSound
  <1> QED
    BY <1>1, <1>2, SocketInit, SocketStep, SoundStep, PTL DEF Spec

-----------------------------------------------------------------------------
(* The waits before they are limited: u[k] is retryStart multiplied k - 1   *)
(* times by retryFactor.                                                    *)
GrownTo(n, u) ==
    u = [k \in 1 .. n |-> IF k = 1 THEN RetryStart ELSE u[k - 1] * RetryFactor]

LEMMA GrownStep ==
    ASSUME NEW n \in Nat, NEW u, GrownTo(n, u)
    PROVE  \A k \in 1 .. n : u[k] = IF k = 1 THEN RetryStart ELSE u[k - 1] * RetryFactor
  BY DEF GrownTo

LEMMA GrownExists ==
    ASSUME NEW n \in Nat
    PROVE  \E u : GrownTo(n, u)
  <1> DEFINE T == {m \in Nat : ~ \E u : GrownTo(m, u)}
  <1> SUFFICES ASSUME T # {} PROVE FALSE
    OBVIOUS
  <1>1. T \subseteq Nat
    OBVIOUS
  <1>2. PICK m \in T : \A k \in T : m <= k
    BY <1>1, NatMin
  <1>3. m # 0
    <2> DEFINE z == [k \in 1 .. 0 |-> RetryStart]
    <2>1. z = [k \in 1 .. 0 |-> IF k = 1 THEN RetryStart ELSE z[k - 1] * RetryFactor]
      OBVIOUS
    <2>2. GrownTo(0, z)
      BY <2>1 DEF GrownTo
    <2> QED
      BY <2>2
  <1>4. m - 1 \in Nat /\ m - 1 \notin T
    BY <1>2, <1>3
  <1>5. PICK u : GrownTo(m - 1, u)
    BY <1>4
  <1> DEFINE longest == IF m = 1 THEN RetryStart ELSE u[m - 1] * RetryFactor
             v == [k \in 1 .. m |-> IF k = m THEN longest ELSE u[k]]
             w == [k \in 1 .. m |-> IF k = 1 THEN RetryStart ELSE v[k - 1] * RetryFactor]
  <1>6. ASSUME NEW k \in 1 .. m PROVE v[k] = w[k]
    <2>1. CASE k = m
      <3>1. m # 1 => m - 1 \in 1 .. m /\ v[m - 1] = u[m - 1]
        BY <1>3, <1>4
      <3> QED
        BY <1>3, <2>1, <3>1
    <2>2. CASE k # m
      <3>1. k \in 1 .. m - 1 /\ (k # 1 => k - 1 \in 1 .. m /\ k - 1 # m)
        BY <1>4, <2>2
      <3>2. u[k] = IF k = 1 THEN RetryStart ELSE u[k - 1] * RetryFactor
        BY <1>4, <1>5, <3>1, GrownStep
      <3> QED
        BY <2>2, <3>1, <3>2
    <2> QED
      BY <2>1, <2>2
  <1>7. v = w
    BY <1>6
  <1>8. GrownTo(m, v)
    BY <1>7 DEF GrownTo
  <1> QED
    BY <1>2, <1>8

LEMMA GrownAgree ==
    ASSUME NEW n \in Nat \ {0}, NEW m \in Nat, n <= m,
           NEW u, GrownTo(n, u), NEW v, GrownTo(m, v)
    PROVE  u[n] = v[n] /\ u[n] \in Nat
  <1> DEFINE T == {k \in 1 .. n : ~ (u[k] = v[k] /\ u[k] \in Nat)}
  <1> SUFFICES ASSUME T # {} PROVE FALSE
    OBVIOUS
  <1>1. T \subseteq Nat
    OBVIOUS
  <1>2. PICK k \in T : \A j \in T : k <= j
    BY <1>1, NatMin
  <1>3. /\ u[k] = IF k = 1 THEN RetryStart ELSE u[k - 1] * RetryFactor
        /\ v[k] = IF k = 1 THEN RetryStart ELSE v[k - 1] * RetryFactor
    <2>1. k \in 1 .. n /\ k \in 1 .. m
      BY <1>2
    <2> QED
      BY <2>1, GrownStep
  <1>4. k # 1
    BY <1>2, <1>3, SocketAssumption DEF SocketAssumption
  <1>5. k - 1 \in 1 .. n /\ k - 1 \notin T
    BY <1>2, <1>4
  <1>6. u[k - 1] = v[k - 1] /\ u[k - 1] \in Nat
    BY <1>5
  <1>7. \A p \in Nat : p * RetryFactor \in Nat
    BY SocketAssumption DEF SocketAssumption
  <1> QED
    BY <1>2, <1>3, <1>4, <1>6, <1>7

LEMMA WaitGrown ==
    ASSUME NEW n \in Nat \ {0}
    PROVE  \E u : /\ GrownTo(n, u) /\ u[n] \in Nat
                  /\ Wait(n) = IF u[n] > RetryMax THEN RetryMax ELSE u[n]
  <1> DEFINE c == CHOOSE u : GrownTo(n, u)
  <1>1. GrownTo(n, c)
    BY GrownExists
  <1>2. Wait(n) = IF c[n] > RetryMax THEN RetryMax ELSE c[n]
    BY DEF Wait, GrownTo
  <1>3. c[n] \in Nat
    BY <1>1, GrownAgree
  <1> QED
    BY <1>1, <1>2, <1>3

(* The wait grows as retryPeriod does.                                      *)
LEMMA WaitFirst == Wait(1) = RetryStart
  <1>1. PICK u : /\ GrownTo(1, u) /\ u[1] \in Nat
                 /\ Wait(1) = IF u[1] > RetryMax THEN RetryMax ELSE u[1]
    BY WaitGrown
  <1>2. u[1] = RetryStart
    BY <1>1, GrownStep
  <1> QED
    BY <1>1, <1>2, SocketAssumption DEF SocketAssumption

LEMMA WaitNext ==
    ASSUME NEW n \in Nat \ {0}
    PROVE  /\ Wait(n) \in Nat
           /\ Wait(n + 1) = IF Wait(n) * RetryFactor > RetryMax THEN RetryMax
                            ELSE Wait(n) * RetryFactor
  <1>1. PICK u : /\ GrownTo(n, u) /\ u[n] \in Nat
                 /\ Wait(n) = IF u[n] > RetryMax THEN RetryMax ELSE u[n]
    BY WaitGrown
  <1>2. PICK v : /\ GrownTo(n + 1, v) /\ v[n + 1] \in Nat
                 /\ Wait(n + 1) = IF v[n + 1] > RetryMax THEN RetryMax ELSE v[n + 1]
    BY WaitGrown
  <1>3. v[n + 1] = u[n] * RetryFactor
    <2> DEFINE m == n + 1
    <2>1. m \in Nat /\ n <= m /\ m \in 1 .. m /\ m # 1 /\ m - 1 = n
      OBVIOUS
    <2>2. GrownTo(m, v)
      BY <1>2
    <2> HIDE DEF m
    <2>3. u[n] = v[n]
      BY <1>1, <2>1, <2>2, GrownAgree
    <2>4. v[m] = v[m - 1] * RetryFactor
      BY <2>1, <2>2, GrownStep
    <2>5. v[m] = u[n] * RetryFactor
      BY <2>1, <2>3, <2>4
    <2> QED
      BY <2>5 DEF m
  <1>4. \A p \in Nat : p * RetryFactor \in Nat /\ p * RetryFactor >= p
    BY SocketAssumption DEF SocketAssumption
  <1>5. RetryMax \in Nat
    BY SocketAssumption DEF SocketAssumption
  <1>6. CASE u[n] > RetryMax
    BY <1>1, <1>2, <1>3, <1>4, <1>5, <1>6
  <1>7. CASE ~ (u[n] > RetryMax)
    BY <1>1, <1>2, <1>3, <1>5, <1>7
  <1> QED
    BY <1>6, <1>7

-----------------------------------------------------------------------------
(* The period is the wait after the failures so far, counted from the       *)
(* beginning of the last attempt; an attempt that goes on began after it.   *)
BackOffFits ==
    /\ retryTime = None <=> failed = <<>>
    /\ failed # <<>> =>
          /\ retryPeriod = Wait(Len(failed))
          /\ retryTime = failed[Len(failed)] + Wait(Len(failed))
    /\ pc = "connecting" /\ retryTime # None => began >= retryTime
    /\ \A n \in 1 .. Len(failed) - 1 : failed[n + 1] - failed[n] >= Wait(n)

LEMMA FailureAdded ==
    ASSUME TypeOK, BackOffFits, ConnectFails
    PROVE  BackOffFits'
  <1> DEFINE m == Len(failed)
             later == failed'
  <1>1. /\ failed \in Seq(0 .. Horizon) /\ m \in Nat /\ began \in Nat
        /\ None \notin Nat /\ RetryStart \in Nat
        /\ (failed = <<>> <=> m = 0)
    BY LenProperties, EmptySeq, SocketAssumption DEF TypeOK, SocketAssumption
  <1>2. /\ later = Append(failed, began) /\ pc' = "idle" /\ pc = "connecting"
        /\ retryPeriod' = NextPeriod /\ retryTime' = began + NextPeriod
    BY DEF ConnectFails
  <1>3. /\ Len(later) = m + 1 /\ later[m + 1] = began
        /\ \A n \in 1 .. m : later[n] = failed[n]
        /\ later \in Seq(0 .. Horizon)
    BY <1>1, <1>2, AppendProperties DEF TypeOK
  <1>4. later # <<>>
    BY <1>1, <1>3, EmptySeq
  <1>5. NextPeriod = Wait(m + 1) /\ Wait(m + 1) \in Nat
    <2>1. CASE m = 0
      <3>1. retryTime = None /\ m + 1 = 1
        BY <1>1, <2>1 DEF BackOffFits
      <3> QED
        BY <1>1, <3>1, WaitFirst DEF NextPeriod
    <2>2. CASE m # 0
      <3>1. retryTime # None /\ retryPeriod = Wait(m) /\ m \in Nat \ {0}
        BY <1>1, <2>2 DEF BackOffFits
      <3>2. Wait(m + 1) = IF Wait(m) * RetryFactor > RetryMax THEN RetryMax
                          ELSE Wait(m) * RetryFactor
        BY <3>1, WaitNext
      <3>3. m + 1 \in Nat \ {0}
        BY <1>1
      <3>4. Wait(m + 1) \in Nat
        BY <3>3, WaitNext
      <3> QED
        BY <3>1, <3>2, <3>4 DEF NextPeriod
    <2> QED
      BY <2>1, <2>2
  <1>6. retryTime' # None
    BY <1>1, <1>2, <1>5
  <1>7. ASSUME NEW n \in 1 .. (m + 1) - 1 PROVE later[n + 1] - later[n] >= Wait(n)
    <2>1. CASE n = m
      <3>1. /\ retryTime = failed[m] + Wait(m) /\ began >= retryTime
            /\ retryTime # None
        BY <1>1, <1>2, <2>1 DEF BackOffFits
      <3>2. failed[m] \in Nat
        <4>1. m \in 1 .. Len(failed)
          BY <1>1, <2>1
        <4>2. failed[m] \in 0 .. Horizon
          BY <1>1, <4>1, ElementOfSeq
        <4> QED
          BY <4>2
      <3>3. Wait(m) \in Nat
        BY <1>1, <2>1, WaitNext
      <3>4. later[n + 1] = began /\ later[n] = failed[m]
        BY <1>1, <1>3, <2>1
      <3> QED
        BY <1>1, <2>1, <3>1, <3>2, <3>3, <3>4
    <2>2. CASE n # m
      <3>1. n \in 1 .. m - 1 /\ n \in 1 .. m /\ n + 1 \in 1 .. m
        BY <1>1, <2>2
      <3>2. failed[n + 1] - failed[n] >= Wait(n)
        BY <3>1 DEF BackOffFits
      <3> QED
        BY <1>3, <3>1, <3>2
    <2> QED
      BY <2>1, <2>2
  <1>8. /\ later # <<>> =>
              /\ retryPeriod' = Wait(Len(later))
              /\ retryTime' = later[Len(later)] + Wait(Len(later))
        /\ \A n \in 1 .. Len(later) - 1 : later[n + 1] - later[n] >= Wait(n)
    BY <1>2, <1>3, <1>5, <1>7
  <1> QED
    BY <1>2, <1>4, <1>6, <1>8 DEF BackOffFits, Wait

LEMMA BackOffStep == TypeOK /\ PlacesFit /\ BackOffFits /\ [Next]_vars => BackOffFits'
  <1> SUFFICES ASSUME TypeOK, PlacesFit, BackOffFits, [Next]_vars PROVE BackOffFits'
    OBVIOUS
  <1> USE DEF backoff, clock
  <1>1. ASSUME UNCHANGED backoff, pc' = "connecting" => pc = "connecting" PROVE BackOffFits'
    BY <1>1 DEF BackOffFits, Wait
  <1>2. CASE EmitAttempts
    <2>1. /\ UNCHANGED <<retryTime, retryPeriod, failed>> /\ began' = now
          /\ retryTime # None => now >= retryTime
      BY <1>2 DEF EmitAttempts, MayAttempt
    <2> QED
      BY <2>1 DEF BackOffFits, Wait
  <1>3. CASE Connect
    <2>1. retryTime' = None /\ failed' = <<>> /\ pc' = "sending"
      BY <1>3 DEF Connect
    <2>2. \A n \in 1 .. Len(<<>>) - 1 : FALSE
      BY EmptySeq
    <2> QED
      BY <2>1, <2>2 DEF BackOffFits, Wait
  <1>4. CASE ConnectFails
    BY <1>4, FailureAdded
  <1>5. CASE Tick \/ SetBack \/ Peer \/ EmitConnected \/ EmitTooEarly \/ Send \/ SendFails
    BY <1>1, <1>5 DEF Tick, SetBack, Peer, EmitConnected, EmitTooEarly, Send, SendFails
  <1>6. CASE EmitUnpicklable \/ Close \/ UNCHANGED vars
    BY <1>1, <1>6 DEF EmitUnpicklable, Close, vars
  <1> QED
    BY <1>2, <1>3, <1>4, <1>5, <1>6 DEF Next

(* Two attempts to connect are as far apart as the back-off says, whatever  *)
(* is logged, however long an attempt takes and wherever the clock is set;  *)
(* and a record is dropped without an attempt no later than that            *)
(* (handlers.py:882).                                                       *)
THEOREM AttemptsKeepBackingOff == Spec => []AttemptsBackOff
  <1>1. Init => BackOffFits
    <2>1. \A n \in 1 .. Len(<<>>) - 1 : FALSE
      BY EmptySeq
    <2> QED
      BY <2>1 DEF Init, BackOffFits
  <1>2. BackOffFits => AttemptsBackOff
    BY DEF BackOffFits, AttemptsBackOff
  <1> QED
    BY <1>1, <1>2, SocketInit, SocketStep, BackOffStep, PTL DEF Spec

-----------------------------------------------------------------------------
(* While the clock has not been set back, no attempt begins in the future.  *)
ClockFits == setBacks = 0 => began <= now /\ SilenceBounded

LEMMA ClockStep == TypeOK /\ PlacesFit /\ ClockFits /\ [Next]_vars => ClockFits'
  <1> SUFFICES ASSUME TypeOK, PlacesFit, ClockFits, [Next]_vars, setBacks' = 0
               PROVE  began' <= now' /\ (retryTime' # None => retryTime' - now' <= RetryMax)
    BY DEF ClockFits, SilenceBounded
  <1> USE SocketAssumption DEF SocketAssumption, backoff, clock
  <1>0. /\ now \in Nat /\ began \in Nat /\ retryTime \in Nat \cup {None} /\ RetryMax \in Nat
        /\ setBacks \in Nat
    BY DEF TypeOK
  <1>1. CASE Tick
    BY <1>0, <1>1 DEF Tick, ClockFits, SilenceBounded
  <1>2. CASE SetBack
    BY <1>0, <1>2 DEF SetBack
  <1>3. CASE EmitAttempts
    BY <1>0, <1>3 DEF EmitAttempts, ClockFits, SilenceBounded
  <1>4. CASE Connect
    BY <1>0, <1>4 DEF Connect, ClockFits
  <1>5. CASE ConnectFails
    <2>1. NextPeriod \in RetryStart .. RetryMax
      BY PeriodWithin
    <2> QED
      BY <1>0, <1>5, <2>1 DEF ConnectFails, ClockFits
  <1>6. CASE Peer \/ EmitConnected \/ EmitTooEarly \/ Send \/ SendFails
    BY <1>6 DEF Peer, EmitConnected, EmitTooEarly, Send, SendFails, ClockFits, SilenceBounded
  <1>7. CASE EmitUnpicklable \/ Close \/ UNCHANGED vars
    BY <1>7 DEF EmitUnpicklable, Close, vars, ClockFits, SilenceBounded
  <1> QED
    BY <1>1, <1>2, <1>3, <1>4, <1>5, <1>6, <1>7 DEF Next

(* Until the clock is set back, the handler drops records without trying to *)
(* connect for no longer than retryMax (handlers.py:898).                   *)
THEOREM SilenceIsBounded == Spec => [](setBacks = 0 => SilenceBounded)
  <1>1. Init => ClockFits
    BY DEF Init, ClockFits, SilenceBounded
  <1>2. ClockFits => (setBacks = 0 => SilenceBounded)
    BY DEF ClockFits
  <1> QED
    BY <1>1, <1>2, SocketInit, SocketStep, ClockStep, PTL DEF Spec

-----------------------------------------------------------------------------
(* What writing a text comes to: the text, or None when it raises.          *)
Outcomes == Optional(Text)

LEMMA JoinedType ==
    ASSUME NEW a \in Outcomes, NEW b \in Outcomes
    PROVE  /\ Joined(a, b) \in Outcomes
           /\ a = Py_None \/ b = Py_None <=> Joined(a, b) = Py_None
           /\ Joined(<<>>, a) = a /\ Joined(a, <<>>) = a
  <1>1. CASE a = Py_None \/ b = Py_None
    <2>1. Joined(a, b) = Py_None
      BY <1>1 DEF Joined
    <2>2. <<>> # Py_None
      BY FormatStyleAssumption, EmptySeq DEF Text
    <2>3. Joined(<<>>, a) = a /\ Joined(a, <<>>) = a
      <3>1. CASE a = Py_None
        BY <3>1 DEF Joined
      <3>2. CASE a # Py_None
        <4>1. a \in Seq(Part)
          BY <3>2 DEF Outcomes, Optional, Text
        <4> QED
          BY <2>2, <3>2, <4>1, ConcatEmptySeq DEF Joined
      <3> QED
        BY <3>1, <3>2
    <2> QED
      BY <1>1, <2>1, <2>3 DEF Outcomes, Optional
  <1>2. CASE a # Py_None /\ b # Py_None
    <2>1. a \in Seq(Part) /\ b \in Seq(Part) /\ <<>> \in Seq(Part)
      BY <1>2, EmptySeq DEF Outcomes, Optional, Text
    <2>2. a \o b \in Seq(Part)
      BY <2>1, ConcatProperties
    <2>3. a \o b # Py_None /\ <<>> # Py_None
      BY <2>1, <2>2, FormatStyleAssumption DEF Text
    <2>4. <<>> \o a = a /\ a \o <<>> = a
      BY <2>1, ConcatEmptySeq
    <2> QED
      BY <1>2, <2>2, <2>3, <2>4 DEF Joined, Outcomes, Optional, Text
  <1> QED
    BY <1>1, <1>2

LEMMA JoinedAssociates ==
    ASSUME NEW a \in Outcomes, NEW b \in Outcomes, NEW c \in Outcomes
    PROVE  Joined(Joined(a, b), c) = Joined(a, Joined(b, c))
  <1>1. CASE Py_None \in {a, b, c}
    <2>1. Joined(a, b) = Py_None <=> a = Py_None \/ b = Py_None
      BY JoinedType
    <2>2. Joined(b, c) = Py_None <=> b = Py_None \/ c = Py_None
      BY JoinedType
    <2>3. Joined(a, b) \in Outcomes /\ Joined(b, c) \in Outcomes
      BY JoinedType
    <2> QED
      BY <1>1, <2>1, <2>2 DEF Joined
  <1>2. CASE Py_None \notin {a, b, c}
    <2>1. a \in Seq(Part) /\ b \in Seq(Part) /\ c \in Seq(Part)
      BY <1>2 DEF Outcomes, Optional, Text
    <2>2. (a \o b) \o c = a \o (b \o c)
      BY <2>1, ConcatAssociative
    <2>3. a \o b # Py_None /\ b \o c # Py_None
      BY <2>1, ConcatProperties, FormatStyleAssumption DEF Text
    <2>4. Joined(a, b) = a \o b /\ Joined(b, c) = b \o c
      BY <1>2 DEF Joined
    <2>5. Joined(a \o b, c) = (a \o b) \o c /\ Joined(a, b \o c) = a \o (b \o c)
      BY <1>2, <2>3 DEF Joined
    <2> QED
      BY <2>2, <2>4, <2>5
  <1> QED
    BY <1>1, <1>2

-----------------------------------------------------------------------------
(* Join writes the texts one by one: w[n] is what the first n come to.      *)
Writing(texts, n, w) ==
    w = [i \in 0 .. n |-> IF i = 0 THEN <<>> ELSE Joined(w[i - 1], texts[i])]

LEMMA JoinIsWritten ==
    ASSUME NEW texts
    PROVE  Join(texts) = (CHOOSE w : Writing(texts, Len(texts), w))[Len(texts)]
  BY DEF Join, Writing

LEMMA WritingStep ==
    ASSUME NEW texts, NEW n \in Nat, NEW w, Writing(texts, n, w)
    PROVE  \A i \in 0 .. n : w[i] = IF i = 0 THEN <<>> ELSE Joined(w[i - 1], texts[i])
  BY DEF Writing

LEMMA WritingExists ==
    ASSUME NEW texts, NEW n \in Nat
    PROVE  \E w : Writing(texts, n, w)
  <1> DEFINE T == {m \in Nat : ~ \E w : Writing(texts, m, w)}
  <1> SUFFICES ASSUME T # {} PROVE FALSE
    OBVIOUS
  <1>1. T \subseteq Nat
    OBVIOUS
  <1>2. PICK m \in T : \A k \in T : m <= k
    BY <1>1, NatMin
  <1>3. m # 0
    <2> DEFINE z == [i \in 0 .. 0 |-> <<>>]
    <2>1. z = [i \in 0 .. 0 |-> IF i = 0 THEN <<>> ELSE Joined(z[i - 1], texts[i])]
      OBVIOUS
    <2>2. Writing(texts, 0, z)
      BY <2>1 DEF Writing
    <2> QED
      BY <2>2
  <1>4. m - 1 \in Nat /\ m - 1 \notin T
    BY <1>2, <1>3
  <1>5. PICK w : Writing(texts, m - 1, w)
    BY <1>4
  <1> DEFINE v == [i \in 0 .. m |-> IF i = m THEN Joined(w[m - 1], texts[m]) ELSE w[i]]
             u == [i \in 0 .. m |-> IF i = 0 THEN <<>> ELSE Joined(v[i - 1], texts[i])]
  <1>6. ASSUME NEW i \in 0 .. m PROVE v[i] = u[i]
    <2>1. CASE i = m
      <3>1. v[m - 1] = w[m - 1] /\ m - 1 \in 0 .. m
        BY <1>3, <1>4
      <3> QED
        BY <1>3, <2>1, <3>1
    <2>2. CASE i # m /\ i # 0
      <3>1. i \in 0 .. m - 1 /\ i - 1 \in 0 .. m /\ i - 1 # m
        BY <1>4, <2>2
      <3>2. w[i] = Joined(w[i - 1], texts[i])
        BY <1>4, <1>5, <2>2, <3>1, WritingStep
      <3> QED
        BY <2>2, <3>1, <3>2
    <2>3. CASE i = 0
      <3>1. 0 \in 0 .. m - 1
        BY <1>4
      <3>2. w[0] = <<>>
        BY <1>4, <1>5, <3>1, WritingStep
      <3> QED
        BY <1>3, <2>3, <3>2
    <2> QED
      BY <2>1, <2>2, <2>3
  <1>7. v = u
    BY <1>6
  <1>8. Writing(texts, m, v)
    BY <1>7 DEF Writing
  <1> QED
    BY <1>2, <1>8

LEMMA WritingsAgree ==
    ASSUME NEW s, NEW t, NEW n \in Nat, NEW m \in Nat, n <= m,
           \A j \in 1 .. n : s[j] = t[j],
           NEW w, Writing(s, n, w), NEW v, Writing(t, m, v)
    PROVE  w[n] = v[n]
  <1> DEFINE T == {k \in 0 .. n : w[k] # v[k]}
  <1> SUFFICES ASSUME T # {} PROVE FALSE
    OBVIOUS
  <1>1. T \subseteq Nat
    OBVIOUS
  <1>2. PICK k \in T : \A j \in T : k <= j
    BY <1>1, NatMin
  <1>3. /\ w[k] = IF k = 0 THEN <<>> ELSE Joined(w[k - 1], s[k])
        /\ v[k] = IF k = 0 THEN <<>> ELSE Joined(v[k - 1], t[k])
    <2>1. k \in 0 .. n /\ k \in 0 .. m
      BY <1>2
    <2> QED
      BY <2>1, WritingStep, ZenonT(30)
  <1>4. k # 0
    BY <1>2, <1>3
  <1>5. k - 1 \in 0 .. n /\ k - 1 \notin T /\ k \in 1 .. n
    BY <1>2, <1>4
  <1>6. w[k - 1] = v[k - 1] /\ s[k] = t[k]
    BY <1>5
  <1> QED
    BY <1>2, <1>3, <1>4, <1>6

LEMMA JoinWriting ==
    ASSUME NEW s, Len(s) \in Nat
    PROVE  \E w : Writing(s, Len(s), w) /\ Join(s) = w[Len(s)]
  <1>1. \E w : Writing(s, Len(s), w)
    BY WritingExists
  <1> DEFINE c == CHOOSE w : Writing(s, Len(s), w)
  <1>2. Writing(s, Len(s), c)
    BY <1>1
  <1>3. Join(s) = c[Len(s)]
    BY JoinIsWritten
  <1> QED
    BY <1>2, <1>3

LEMMA JoinEmpty ==
    ASSUME NEW s \in Seq(Outcomes), Len(s) = 0
    PROVE  Join(s) = <<>>
  <1>1. PICK w : Writing(s, Len(s), w) /\ Join(s) = w[Len(s)]
    BY JoinWriting
  <1>2. 0 \in 0 .. Len(s) /\ Len(s) \in Nat
    OBVIOUS
  <1>3. w[0] = <<>>
    BY <1>1, <1>2, WritingStep
  <1> QED
    BY <1>1, <1>3

LEMMA JoinAppend ==
    ASSUME NEW s \in Seq(Outcomes), NEW x \in Outcomes
    PROVE  Join(Append(s, x)) = Joined(Join(s), x)
  <1>1. PICK t \in Seq(Outcomes) :
           /\ t = Append(s, x) /\ Len(t) = Len(s) + 1
           /\ \A j \in 1 .. Len(s) : s[j] = t[j]
           /\ t[Len(s) + 1] = x
    BY AppendProperties
  <1>2. Len(s) \in Nat /\ Len(t) \in Nat /\ Len(s) <= Len(t)
    BY <1>1, LenProperties
  <1>3. PICK w : Writing(s, Len(s), w) /\ Join(s) = w[Len(s)]
    BY <1>2, JoinWriting
  <1>4. PICK v : Writing(t, Len(t), v) /\ Join(t) = v[Len(t)]
    BY <1>2, JoinWriting
  <1>5. w[Len(s)] = v[Len(s)]
    <2> DEFINE n == Len(s)
               m == Len(t)
    <2>1. /\ n \in Nat /\ m \in Nat /\ n <= m /\ \A j \in 1 .. n : s[j] = t[j]
          /\ Writing(s, n, w) /\ Writing(t, m, v)
      BY <1>1, <1>2, <1>3, <1>4
    <2> HIDE DEF n, m
    <2>2. w[n] = v[n]
      BY <2>1, WritingsAgree
    <2> QED
      BY <2>2 DEF n
  <1>6. v[Len(t)] = Joined(v[Len(t) - 1], t[Len(t)])
    <2>1. Len(t) \in 0 .. Len(t) /\ Len(t) # 0
      BY <1>1, <1>2
    <2> QED
      BY <1>2, <1>4, <2>1, WritingStep
  <1>7. Len(t) - 1 = Len(s)
    BY <1>1, <1>2
  <1> QED
    BY <1>1, <1>3, <1>4, <1>5, <1>6, <1>7

LEMMA JoinType ==
    ASSUME NEW s \in Seq(Outcomes)
    PROVE  Join(s) \in Outcomes
  <1> DEFINE T == {n \in Nat : \E t \in Seq(Outcomes) : Len(t) = n /\ Join(t) \notin Outcomes}
  <1> SUFFICES ASSUME T # {} PROVE FALSE
    <2>1. Len(s) \in Nat
      BY LenProperties
    <2> QED
      BY <2>1
  <1>1. T \subseteq Nat
    OBVIOUS
  <1>2. PICK n \in T : \A k \in T : n <= k
    BY <1>1, NatMin
  <1>3. PICK t \in Seq(Outcomes) : Len(t) = n /\ Join(t) \notin Outcomes
    BY <1>2
  <1>4. t # <<>>
    <2>1. SUFFICES ASSUME t = <<>> PROVE FALSE
      OBVIOUS
    <2>2. Join(t) = <<>> /\ <<>> \in Outcomes
      BY <2>1, EmptySeq, JoinEmpty DEF Outcomes, Optional, Text
    <2> QED
      BY <1>3, <2>2
  <1>5. PICK u \in Seq(Outcomes), x \in Outcomes : t = Append(u, x)
    BY <1>4, SequenceEmptyOrAppend
  <1>6. Len(u) \in Nat /\ Len(t) = Len(u) + 1
    BY <1>5, AppendProperties, LenProperties
  <1>7. Join(u) \in Outcomes
    BY <1>2, <1>3, <1>6
  <1> QED
    BY <1>3, <1>5, <1>7, JoinAppend, JoinedType

LEMMA JoinConcat ==
    ASSUME NEW s \in Seq(Outcomes), NEW t \in Seq(Outcomes)
    PROVE  Join(s \o t) = Joined(Join(s), Join(t))
  <1> DEFINE Bad(v) == Join(s \o v) # Joined(Join(s), Join(v))
             T == {n \in Nat : \E v \in Seq(Outcomes) : Len(v) = n /\ Bad(v)}
  <1> SUFFICES ASSUME T # {} PROVE FALSE
    <2>1. Len(t) \in Nat
      BY LenProperties
    <2> QED
      BY <2>1
  <1>1. T \subseteq Nat
    OBVIOUS
  <1>2. PICK n \in T : \A k \in T : n <= k
    BY <1>1, NatMin
  <1>3. PICK v \in Seq(Outcomes) : Len(v) = n /\ Bad(v)
    BY <1>2
  <1>4. v # <<>>
    <2>1. SUFFICES ASSUME v = <<>> PROVE FALSE
      OBVIOUS
    <2>2. Join(v) = <<>> /\ s \o v = s
      BY <2>1, EmptySeq, JoinEmpty, ConcatEmptySeq
    <2>3. Joined(Join(s), <<>>) = Join(s)
      BY JoinType, JoinedType
    <2> QED
      BY <1>3, <2>2, <2>3
  <1>5. PICK u \in Seq(Outcomes), x \in Outcomes : v = Append(u, x)
    BY <1>4, SequenceEmptyOrAppend
  <1>6. Len(u) \in Nat /\ Len(v) = Len(u) + 1
    BY <1>5, AppendProperties, LenProperties
  <1>7. Join(s \o u) = Joined(Join(s), Join(u))
    <2>1. Len(u) \notin T
      BY <1>2, <1>3, <1>6
    <2> QED
      BY <1>6, <2>1
  <1>8. s \o v = Append(s \o u, x)
    <2>1. <<x>> \in Seq(Outcomes) /\ s \o u \in Seq(Outcomes)
      BY ConcatProperties
    <2>2. v = u \o <<x>> /\ Append(s \o u, x) = (s \o u) \o <<x>>
      BY <1>5, <2>1, AppendIsConcat
    <2> QED
      BY <2>1, <2>2, ConcatAssociative
  <1>9. Join(s \o v) = Joined(Join(s \o u), x)
    BY <1>8, JoinAppend, ConcatProperties
  <1>10. Join(v) = Joined(Join(u), x)
    BY <1>5, JoinAppend
  <1>11. Joined(Joined(Join(s), Join(u)), x) = Joined(Join(s), Joined(Join(u), x))
    BY JoinType, JoinedAssociates
  <1> QED
    BY <1>3, <1>7, <1>9, <1>10, <1>11

LEMMA JoinOne ==
    ASSUME NEW x \in Outcomes
    PROVE  Join(<<x>>) = x
  <1>1. <<>> \in Seq(Outcomes) /\ <<x>> = Append(<<>>, x)
    BY EmptySeq
  <1>2. Join(<<>>) = <<>>
    BY EmptySeq, JoinEmpty
  <1> QED
    BY <1>1, <1>2, JoinAppend, JoinedType

-----------------------------------------------------------------------------
(* The walk of FormatStyle_init: w[i] is how it stands behind piece i.      *)
WalkStart == [cursor |-> 1, found |-> <<>>]

Walking(fmt, style, n, w) ==
    w = [i \in 0 .. n |-> IF i = 0 THEN WalkStart ELSE Past(w[i - 1], i, fmt, style)]

LEMMA FragmentsWalked ==
    ASSUME NEW fmt, NEW style
    PROVE  LET end == (CHOOSE w : Walking(fmt, style, Len(fmt), w))[Len(fmt)]
           IN  Fragments(fmt, style) =
                   end.found \o LiteralFragment(SubSeq(fmt, end.cursor, Len(fmt)))
  BY DEF Fragments, Walking, WalkStart

LEMMA WalkingStep ==
    ASSUME NEW fmt, NEW style, NEW n \in Nat, NEW w, Walking(fmt, style, n, w)
    PROVE  /\ w[0] = WalkStart
           /\ \A i \in 1 .. n : w[i] = Past(w[i - 1], i, fmt, style)
  BY DEF Walking

LEMMA WalkingExists ==
    ASSUME NEW fmt, NEW style, NEW n \in Nat
    PROVE  \E w : Walking(fmt, style, n, w)
  <1> DEFINE T == {m \in Nat : ~ \E w : Walking(fmt, style, m, w)}
  <1> SUFFICES ASSUME T # {} PROVE FALSE
    OBVIOUS
  <1>1. T \subseteq Nat
    OBVIOUS
  <1>2. PICK m \in T : \A k \in T : m <= k
    BY <1>1, NatMin
  <1>3. m # 0
    <2> DEFINE z == [i \in 0 .. 0 |-> WalkStart]
    <2>1. z = [i \in 0 .. 0 |-> IF i = 0 THEN WalkStart ELSE Past(z[i - 1], i, fmt, style)]
      OBVIOUS
    <2>2. Walking(fmt, style, 0, z)
      BY <2>1 DEF Walking
    <2> QED
      BY <2>2
  <1>4. m - 1 \in Nat /\ m - 1 \notin T
    BY <1>2, <1>3
  <1>5. PICK w : Walking(fmt, style, m - 1, w)
    BY <1>4
  <1> DEFINE v == [i \in 0 .. m |-> IF i = m THEN Past(w[m - 1], m, fmt, style) ELSE w[i]]
             u == [i \in 0 .. m |-> IF i = 0 THEN WalkStart ELSE Past(v[i - 1], i, fmt, style)]
  <1>6. ASSUME NEW i \in 0 .. m PROVE v[i] = u[i]
    <2>1. CASE i = m
      <3>1. v[m - 1] = w[m - 1] /\ m - 1 \in 0 .. m
        BY <1>3, <1>4
      <3> QED
        BY <1>3, <2>1, <3>1
    <2>2. CASE i # m /\ i # 0
      <3>1. i \in 1 .. m - 1 /\ i - 1 \in 0 .. m /\ i - 1 # m
        BY <1>4, <2>2
      <3>2. w[i] = Past(w[i - 1], i, fmt, style)
        BY <1>4, <1>5, <2>2, <3>1, WalkingStep
      <3> QED
        BY <2>2, <3>1, <3>2
    <2>3. CASE i = 0
      <3>1. 0 \in 0 .. m - 1
        BY <1>4
      <3>2. w[0] = WalkStart
        BY <1>4, <1>5, WalkingStep
      <3> QED
        BY <1>3, <2>3, <3>2
    <2> QED
      BY <2>1, <2>2, <2>3
  <1>7. v = u
    BY <1>6
  <1>8. Walking(fmt, style, m, v)
    BY <1>7 DEF Walking
  <1> QED
    BY <1>2, <1>8

(* What FormatStyle_init puts into a fragment.                              *)
FragmentSet ==
    [field : {"LiteralFragment"}, of : Seq(Piece)]
    \cup [field : field_map \cup {"Field_Unknown"}, of : Word]

Gaps(M) == {i \in M : i > 1 /\ i - 1 \notin M}

Upto(S, k) == {j \in S : j <= k}

(* Behind piece i the cursor is behind the last match, and there are as     *)
(* many fragments as there are matches and texts before them.               *)
WalkFits(walk, i, fmt, style) ==
    LET M == Matches(fmt, style)
    IN  /\ walk \in [cursor : 1 .. i + 1, found : Seq(FragmentSet)]
        /\ walk.cursor = 1 \/ walk.cursor - 1 \in M
        /\ \A j \in walk.cursor .. i : j \notin M
        /\ Len(walk.found) = Cardinality(Upto(M, i)) + Cardinality(Upto(Gaps(M), i))

LEMMA UptoGrows ==
    ASSUME NEW n \in Nat, NEW S \in SUBSET (1 .. n)
    PROVE  /\ IsFiniteSet(S) /\ Cardinality(S) \in Nat
           /\ Cardinality(Upto(S, 0)) = 0 /\ Upto(S, n) = S
           /\ \A i : Cardinality(Upto(S, i)) \in Nat
           /\ \A i \in 1 .. n :
                 Cardinality(Upto(S, i))
                     = Cardinality(Upto(S, i - 1)) + (IF i \in S THEN 1 ELSE 0)
  <1>1. \A T \in SUBSET (1 .. n) : IsFiniteSet(T) /\ Cardinality(T) \in Nat
    <2>1. IsFiniteSet(1 .. n)
      BY FS_Interval
    <2> QED
      BY <2>1, FS_Subset, FS_CardinalityType
  <1>2. \A i : Upto(S, i) \in SUBSET (1 .. n)
    BY DEF Upto
  <1>3. \A j \in S : j \in Int /\ 1 <= j /\ j <= n
    OBVIOUS
  <1>4. Cardinality(Upto(S, 0)) = 0
    <2>1. \A j \in S : ~ (j <= 0)
      BY <1>3
    <2>2. Upto(S, 0) = {}
      BY <2>1 DEF Upto
    <2> QED
      BY <2>2, FS_EmptySet
  <1>5. Upto(S, n) = S
    <2>1. ASSUME NEW j PROVE j \in Upto(S, n) <=> j \in S
      BY <1>3 DEF Upto
    <2> QED
      BY <2>1
  <1>6. ASSUME NEW i \in 1 .. n
        PROVE  Cardinality(Upto(S, i))
                   = Cardinality(Upto(S, i - 1)) + (IF i \in S THEN 1 ELSE 0)
    <2>1. IsFiniteSet(Upto(S, i - 1)) /\ Cardinality(Upto(S, i - 1)) \in Nat
      BY <1>1, <1>2
    <2>2. \A j \in S : j <= i <=> j <= i - 1 \/ j = i
      BY <1>3
    <2>3. CASE i \in S
      <3>1. i \notin Upto(S, i - 1) /\ i <= i
        BY DEF Upto
      <3>2. Upto(S, i) = Upto(S, i - 1) \cup {i}
        BY <2>3, <2>2, <3>1, Zenon DEF Upto
      <3> QED
        BY <2>1, <2>3, <3>1, <3>2, FS_AddElement
    <2>4. CASE i \notin S
      <3>1. Upto(S, i) = Upto(S, i - 1)
        BY <2>4, <2>2, Zenon DEF Upto
      <3> QED
        BY <2>1, <2>4, <3>1
    <2> QED
      BY <2>3, <2>4
  <1> QED
    BY <1>1, <1>2, <1>4, <1>5, <1>6

LEMMA PieceParts ==
    ASSUME NEW p \in Piece
    PROVE  /\ p.kind \in {"field", "padded", "escaped", "malformed", "text"}
           /\ p.kind = "text" => p.part \in Part
           /\ p.kind # "text" =>
                 /\ p.style \in Styles /\ p.style \in Word /\ p.name \in Word
                 /\ p.kind \in Word /\ p.conversion \in Word
  <1> DEFINE kinds == {"field", "padded", "escaped", "malformed"}
             conversions == {"s", "r", "d", "f"}
  <1>1. CASE p \in [kind : kinds, style : Styles, name : Word, conversion : conversions]
    <2>1. /\ p.kind \in kinds /\ p.style \in Styles /\ p.name \in Word
          /\ p.conversion \in conversions
      BY <1>1
    <2>2. \A word \in kinds \cup conversions \cup Styles : word \in Word
      BY Zenon DEF Styles, Word
    <2>3. "text" \notin kinds
      OBVIOUS
    <2> HIDE DEF conversions
    <2> QED
      BY <2>1, <2>2, <2>3
  <1>2. CASE p \in [kind : {"text"}, part : {<<"literal">>, <<"\n">>}]
    <2>1. p.kind = "text" /\ p.part \in {<<"literal">>, <<"\n">>}
      BY <1>2
    <2>2. "literal" \in Word /\ "\n" \in Word
      BY DEF Word
    <2>3. \A a \in Word : <<a>> \in Part
      BY DEF Part, Optional
    <2> QED
      BY <2>1, <2>2, <2>3
  <1> QED
    BY <1>1, <1>2 DEF Piece

LEMMA MatchesFit ==
    ASSUME NEW fmt \in Seq(Piece), NEW style
    PROVE  /\ Len(fmt) \in Nat
           /\ Matches(fmt, style) \in SUBSET (1 .. Len(fmt))
           /\ Gaps(Matches(fmt, style)) \in SUBSET (1 .. Len(fmt))
  BY LenProperties DEF Matches, Gaps

LEMMA LiteralFits ==
    ASSUME NEW fmt \in Seq(Piece), NEW c \in 1 .. Len(fmt) + 1, NEW e \in 0 .. Len(fmt)
    PROVE  LET pieces == SubSeq(fmt, c, e)
           IN  /\ LiteralFragment(pieces) \in Seq(FragmentSet)
               /\ pieces \in Seq(Piece)
               /\ c <= e => LiteralFragment(pieces) = <<[field |-> "LiteralFragment", of |-> pieces]>>
               /\ c > e => LiteralFragment(pieces) = <<>>
               /\ Len(LiteralFragment(pieces)) = IF c <= e THEN 1 ELSE 0
  <1> DEFINE pieces == SubSeq(fmt, c, e)
             literal == [field |-> "LiteralFragment", of |-> pieces]
  <1>1. c \in Int /\ e \in Int /\ \A j \in c .. e : fmt[j] \in Piece
    BY ElementOfSeq
  <1>2. /\ pieces \in Seq(Piece)
        /\ Len(pieces) = IF c <= e THEN e - c + 1 ELSE 0
    BY <1>1, SubSeqProperties
  <1>3. CASE c <= e
    <2>1. pieces # <<>>
      BY <1>1, <1>2, <1>3, EmptySeq
    <2>2. LiteralFragment(pieces) = <<literal>>
      BY <2>1 DEF LiteralFragment
    <2>3. literal \in FragmentSet
      BY <1>2 DEF FragmentSet
    <2>4. <<literal>> \in Seq(FragmentSet) /\ Len(<<literal>>) = 1
      BY <2>3
    <2> QED
      BY <1>1, <1>2, <1>3, <2>2, <2>4
  <1>4. CASE ~ (c <= e)
    <2>1. pieces = <<>>
      BY <1>1, <1>4, SubSeqEmpty
    <2>2. LiteralFragment(pieces) = <<>>
      BY <2>1 DEF LiteralFragment
    <2> QED
      BY <1>1, <1>2, <1>4, <2>2, EmptySeq
  <1> QED
    BY <1>3, <1>4

LEMMA StartFits ==
    ASSUME NEW fmt \in Seq(Piece), NEW style
    PROVE  WalkFits(WalkStart, 0, fmt, style)
  <1> DEFINE M == Matches(fmt, style)
             start == WalkStart
  <1>1. Cardinality(Upto(M, 0)) = 0 /\ Cardinality(Upto(Gaps(M), 0)) = 0
    BY MatchesFit, UptoGrows
  <1>2. /\ start \in [cursor : 1 .. 0 + 1, found : Seq(FragmentSet)]
        /\ start.cursor = 1 /\ Len(start.found) = 0
    BY EmptySeq DEF WalkStart
  <1>3. \A j \in start.cursor .. 0 : j \notin M
    BY <1>2
  <1> HIDE DEF start
  <1>4. WalkFits(start, 0, fmt, style)
    BY <1>1, <1>2, <1>3 DEF WalkFits
  <1> QED
    BY <1>4 DEF start

LEMMA PastFits ==
    ASSUME NEW fmt \in Seq(Piece), NEW style, NEW i \in 1 .. Len(fmt),
           NEW walk, WalkFits(walk, i - 1, fmt, style)
    PROVE  WalkFits(Past(walk, i, fmt, style), i, fmt, style)
  <1> DEFINE M == Matches(fmt, style)
             G == Gaps(M)
             past == Past(walk, i, fmt, style)
             a == Cardinality(Upto(M, i - 1))
             b == Cardinality(Upto(G, i - 1))
  <1>1. i - 1 \in Nat /\ i \in Nat /\ (i - 1) + 1 = i /\ Len(fmt) \in Nat
    BY LenProperties
  <1>2. /\ a \in Nat /\ Cardinality(Upto(M, i)) = a + (IF i \in M THEN 1 ELSE 0)
        /\ b \in Nat /\ Cardinality(Upto(G, i)) = b + (IF i \in G THEN 1 ELSE 0)
    <2>1. M \in SUBSET (1 .. Len(fmt)) /\ G \in SUBSET (1 .. Len(fmt)) /\ i - 1 \in 0 .. Len(fmt)
      BY <1>1, MatchesFit
    <2> HIDE DEF M, G
    <2>2. \A S \in SUBSET (1 .. Len(fmt)) : \A k \in 1 .. Len(fmt) :
             Cardinality(Upto(S, k))
                 = Cardinality(Upto(S, k - 1)) + (IF k \in S THEN 1 ELSE 0)
      BY <1>1, UptoGrows
    <2>3. \A S \in SUBSET (1 .. Len(fmt)) : \A k : Cardinality(Upto(S, k)) \in Nat
      BY <1>1, UptoGrows
    <2>4. Cardinality(Upto(M, i)) = Cardinality(Upto(M, i - 1)) + (IF i \in M THEN 1 ELSE 0)
      BY <2>1, <2>2
    <2>5. Cardinality(Upto(G, i)) = Cardinality(Upto(G, i - 1)) + (IF i \in G THEN 1 ELSE 0)
      BY <2>1, <2>2
    <2>6. Cardinality(Upto(M, i - 1)) \in Nat /\ Cardinality(Upto(G, i - 1)) \in Nat
      BY <2>1, <2>3
    <2> QED
      BY <2>4, <2>5, <2>6
  <1>3. /\ walk \in [cursor : 1 .. i, found : Seq(FragmentSet)]
        /\ walk.cursor = 1 \/ walk.cursor - 1 \in M
        /\ \A j \in walk.cursor .. i - 1 : j \notin M
        /\ Len(walk.found) = a + b
    BY <1>1 DEF WalkFits
  <1>4. CASE i \notin M
    <2>1. past = walk
      BY <1>4 DEF Past
    <2>2. i \notin G
      BY <1>4 DEF Gaps
    <2>3. \A j \in walk.cursor .. i : j \notin M
      BY <1>1, <1>3, <1>4
    <2>4. walk \in [cursor : 1 .. i + 1, found : Seq(FragmentSet)]
      BY <1>1, <1>3
    <2>5. Len(walk.found) = Cardinality(Upto(M, i)) + Cardinality(Upto(G, i))
      <3> HIDE DEF M, G, a, b
      <3> QED
        BY <1>2, <1>3, <1>4, <2>2
    <2> QED
      BY <1>3, <2>1, <2>3, <2>4, <2>5 DEF WalkFits
  <1>5. CASE i \in M
    <2> DEFINE c == walk.cursor
               literal == LiteralFragment(SubSeq(fmt, c, i - 1))
               field == <<FieldFragment(fmt[i].name)>>
    <2>1. past = [cursor |-> i + 1, found |-> walk.found \o literal \o field]
      BY <1>5 DEF Past
    <2>2. c \in 1 .. i /\ walk.found \in Seq(FragmentSet) /\ Len(walk.found) \in Nat
      BY <1>3, LenProperties
    <2>3. /\ literal \in Seq(FragmentSet)
          /\ Len(literal) = IF c <= i - 1 THEN 1 ELSE 0
      <3>1. c \in 1 .. Len(fmt) + 1 /\ i - 1 \in 0 .. Len(fmt)
        BY <1>1, <2>2
      <3> HIDE DEF c
      <3> QED
        BY <3>1, LiteralFits
    <2>4. field \in Seq(FragmentSet) /\ Len(field) = 1
      <3>1. fmt[i] \in Piece /\ fmt[i].kind = "field"
        BY <1>5, ElementOfSeq DEF Matches
      <3>2. fmt[i].name \in Word
        BY <3>1, PieceParts
      <3>3. FieldFragment(fmt[i].name) \in FragmentSet
        BY <3>2 DEF FieldFragment, FragmentSet
      <3> QED
        BY <3>3
    <2>5. past.found \in Seq(FragmentSet)
      BY <2>1, <2>2, <2>3, <2>4, ConcatProperties
    <2>6. Len(past.found) = Len(walk.found) + Len(literal) + 1
      BY <2>1, <2>2, <2>3, <2>4, ConcatProperties
    <2>7. c <= i - 1 <=> i \in G
      <3>1. c - 1 \in M \/ c = 1
        BY <1>3
      <3>2. \A j \in c .. i - 1 : j \notin M
        BY <1>3
      <3> HIDE DEF M, c
      <3> QED
        BY <1>1, <1>5, <2>2, <3>1, <3>2 DEF Gaps
    <2>8. past.cursor = i + 1
      BY <2>1
    <2>9. past \in [cursor : 1 .. i + 1, found : Seq(FragmentSet)]
      BY <1>1, <2>1, <2>5
    <2>10. Len(past.found) = Cardinality(Upto(M, i)) + Cardinality(Upto(G, i))
      <3>1. Len(past.found) = (a + b) + (IF i \in G THEN 1 ELSE 0) + 1
        BY <1>3, <2>3, <2>6, <2>7
      <3> HIDE DEF past, M, G, a, b
      <3> QED
        BY <1>2, <1>5, <3>1
    <2>11. \A j \in i + 1 .. i : j \notin M
      BY <1>1
    <2> QED
      BY <1>1, <1>5, <2>8, <2>9, <2>10, <2>11 DEF WalkFits
  <1> QED
    BY <1>4, <1>5

(* The walk fits at every piece.                                            *)
LEMMA WalkKept ==
    ASSUME NEW fmt \in Seq(Piece), NEW style, NEW w, Walking(fmt, style, Len(fmt), w)
    PROVE  \A i \in 0 .. Len(fmt) : WalkFits(w[i], i, fmt, style)
  <1> DEFINE T == {k \in 0 .. Len(fmt) : ~ WalkFits(w[k], k, fmt, style)}
  <1> SUFFICES ASSUME T # {} PROVE FALSE
    OBVIOUS
  <1>1. T \subseteq Nat /\ Len(fmt) \in Nat
    BY LenProperties
  <1>2. PICK k \in T : \A j \in T : k <= j
    BY <1>1, NatMin
  <1>3. k # 0
    <2>1. w[0] = WalkStart
      BY <1>1, WalkingStep
    <2>2. WalkFits(w[0], 0, fmt, style)
      BY <2>1, StartFits
    <2> QED
      BY <2>2
  <1>4. k \in 1 .. Len(fmt) /\ k - 1 \in 0 .. Len(fmt) /\ k - 1 \notin T
    BY <1>1, <1>2, <1>3
  <1>5. WalkFits(w[k - 1], k - 1, fmt, style)
    BY <1>4
  <1>6. w[k] = Past(w[k - 1], k, fmt, style)
    BY <1>1, <1>4, WalkingStep
  <1>7. WalkFits(w[k], k, fmt, style)
    BY <1>4, <1>5, <1>6, PastFits
  <1> QED
    BY <1>2, <1>7

(* What FormatStyle_init returns, from where the walk ends.                 *)
LEMMA FragmentsEnd ==
    ASSUME NEW fmt \in Seq(Piece), NEW style
    PROVE  \E w : /\ Walking(fmt, style, Len(fmt), w)
                  /\ Fragments(fmt, style) =
                        w[Len(fmt)].found
                            \o LiteralFragment(SubSeq(fmt, w[Len(fmt)].cursor, Len(fmt)))
  <1> DEFINE c == CHOOSE w : Walking(fmt, style, Len(fmt), w)
  <1>1. Walking(fmt, style, Len(fmt), c)
    BY LenProperties, WalkingExists
  <1>2. Fragments(fmt, style) =
            c[Len(fmt)].found \o LiteralFragment(SubSeq(fmt, c[Len(fmt)].cursor, Len(fmt)))
    BY FragmentsWalked
  <1> QED
    BY <1>1, <1>2

(* FormatStyle_init finds as many fragments as FormatStyle_new made room    *)
(* for.                                                                     *)
LEMMA FragmentsFill ==
    ASSUME NEW fmt \in Seq(Piece), NEW style
    PROVE  /\ Fragments(fmt, style) \in Seq(FragmentSet)
           /\ Len(Fragments(fmt, style)) = FragmentLen(fmt, style)
  <1> DEFINE n == Len(fmt)
             M == Matches(fmt, style)
             G == Gaps(M)
  <1>1. n \in Nat /\ M \in SUBSET (1 .. n) /\ G \in SUBSET (1 .. n)
    BY MatchesFit
  <1>2. PICK w : /\ Walking(fmt, style, n, w)
                 /\ Fragments(fmt, style) =
                       w[n].found \o LiteralFragment(SubSeq(fmt, w[n].cursor, n))
    BY FragmentsEnd
  <1>3. WalkFits(w[n], n, fmt, style)
    BY <1>1, <1>2, WalkKept
  <1> DEFINE c == w[n].cursor
             tail == LiteralFragment(SubSeq(fmt, c, n))
  <1>4. /\ c \in 1 .. n + 1 /\ w[n].found \in Seq(FragmentSet)
        /\ c = 1 \/ c - 1 \in M
        /\ \A j \in c .. n : j \notin M
        /\ Len(w[n].found) = Cardinality(Upto(M, n)) + Cardinality(Upto(G, n))
    BY <1>3 DEF WalkFits
  <1>5. Upto(M, n) = M /\ Upto(G, n) = G
    <2> HIDE DEF M, G, n
    <2> QED
      BY <1>1, UptoGrows
  <1>6. IsFiniteSet(G) /\ Cardinality(G) \in Nat /\ Cardinality(M) \in Nat
    <2> HIDE DEF M, G, n
    <2> QED
      BY <1>1, UptoGrows
  <1>7. tail \in Seq(FragmentSet) /\ Len(tail) = IF c <= n THEN 1 ELSE 0
    <2>1. n \in 0 .. Len(fmt)
      BY <1>1
    <2> HIDE DEF c
    <2> QED
      BY <1>4, <2>1, LiteralFits
  <1>8. c <= n <=> n + 1 > 1 /\ n \notin M
    <2> HIDE DEF M, c, n
    <2> QED
      BY <1>1, <1>4
  <1> DEFINE E == {i \in M \cup {n + 1} : i > 1 /\ i - 1 \notin M}
  <1>9. Cardinality(E) = Cardinality(G) + IF c <= n THEN 1 ELSE 0
    <2>1. n + 1 \notin G /\ (n + 1) - 1 = n
      BY <1>1
    <2>2. CASE c <= n
      <3>1. E = G \cup {n + 1}
        <4> HIDE DEF M, c, n
        <4> QED
          BY <1>1, <1>8, <2>1, <2>2, Zenon DEF Gaps
      <3> QED
        BY <1>6, <2>1, <2>2, <3>1, FS_AddElement
    <2>3. CASE ~ (c <= n)
      <3>1. E = G
        <4> HIDE DEF M, c, n
        <4> QED
          BY <1>1, <1>8, <2>1, <2>3, Zenon DEF Gaps
      <3> HIDE DEF G, E, c, n
      <3> QED
        BY <1>6, <2>3, <3>1
    <2> QED
      BY <2>2, <2>3
  <1>10. FragmentLen(fmt, style) = Cardinality(M) + Cardinality(E)
    BY DEF FragmentLen
  <1>11. /\ Fragments(fmt, style) \in Seq(FragmentSet)
         /\ Len(Fragments(fmt, style)) = Len(w[n].found) + Len(tail)
    BY <1>2, <1>4, <1>7, ConcatProperties
  <1> QED
    <2> HIDE DEF M, G, E, c, n, tail
    <2> QED
      BY <1>4, <1>5, <1>6, <1>7, <1>9, <1>10, <1>11

-----------------------------------------------------------------------------
(* What fragments and pieces are written as.                                *)
FragmentTexts(fragments, values) ==
    [i \in 1 .. Len(fragments) |-> WriteFragment(fragments[i], values)]

PieceTexts(fmt, style, values) ==
    [i \in 1 .. Len(fmt) |-> WritePiece(fmt[i], style, values)]

Verbatims(pieces) == [i \in 1 .. Len(pieces) |-> Verbatim(pieces[i])]

LEMMA PartsAreTexts ==
    /\ \A a \in Optional(Word) : <<<<a>>>> \in Text
    /\ \A a, b \in Optional(Word) : <<<<a, b>>>> \in Text
    /\ \A a, b, c \in Optional(Word) : <<<<a, b, c>>>> \in Text
    /\ \A a, b, c, d, e \in Optional(Word) : <<<<a, b, c, d, e>>>> \in Text
  <1>1. \A a, b, c \in Optional(Word) :
            <<a>> \in Part /\ <<a, b>> \in Part /\ <<a, b, c>> \in Part
    BY DEF Part
  <1>2. \A a, b, c, d, e \in Optional(Word) : <<a, b, c, d, e>> \in Part
    BY DEF Part
  <1>3. \A p \in Part : <<p>> \in Text
    BY DEF Text
  <1> QED
    BY <1>1, <1>2, <1>3, Zenon

LEMMA GetOutcome ==
    ASSUME NEW values, AreTexts(values), NEW name
    PROVE  Get(values, name) \in Outcomes
  BY DEF Get, AreTexts, Outcomes, Optional

LEMMA ConvertedOutcome ==
    ASSUME NEW text \in Outcomes, NEW conversion \in Word
    PROVE  Converted(text, conversion) \in Outcomes
  <1>1. text = Py_None => Converted(text, conversion) = Py_None
    BY DEF Converted
  <1>2. ASSUME text # Py_None PROVE Converted(text, conversion) \in Outcomes
    <2>1. text \in Text /\ <<conversion>> \in Part
      BY <1>2 DEF Outcomes, Optional, Part
    <2>2. Append(text, <<conversion>>) \in Text
      BY <2>1, AppendProperties DEF Text
    <2> QED
      BY <2>1, <2>2 DEF Converted, Outcomes, Optional
  <1> QED
    BY <1>1, <1>2 DEF Outcomes, Optional

LEMMA WriteOutcomes ==
    ASSUME NEW values, AreTexts(values)
    PROVE  /\ \A p \in Piece : Verbatim(p) \in Outcomes
           /\ \A pieces \in Seq(Piece) : Verbatims(pieces) \in Seq(Outcomes)
           /\ \A f \in FragmentSet : WriteFragment(f, values) \in Outcomes
           /\ \A p \in Piece : \A style : WritePiece(p, style, values) \in Outcomes
  <1>1. ASSUME NEW p \in Piece PROVE Verbatim(p) \in Outcomes
    <2>1. CASE p.kind = "text"
      <3>1. p.part \in Part
        BY <2>1, PieceParts
      <3> QED
        BY <2>1, <3>1 DEF Verbatim, Outcomes, Optional, Text
    <2>2. CASE p.kind # "text"
      <3>1. /\ "verbatim" \in Optional(Word) /\ p.kind \in Optional(Word)
            /\ p.style \in Optional(Word) /\ p.name \in Optional(Word)
            /\ p.conversion \in Optional(Word)
        <4>1. p.style \in Word /\ p.name \in Word /\ p.kind \in Word /\ p.conversion \in Word
          BY <2>2, PieceParts
        <4>2. "verbatim" \in Word
          BY Zenon DEF Word
        <4> QED
          BY <4>1, <4>2 DEF Optional
      <3>2. <<<<"verbatim", p.kind, p.style, p.name, p.conversion>>>> \in Text
        BY <3>1, PartsAreTexts, Zenon
      <3> QED
        BY <2>2, <3>2 DEF Verbatim, Outcomes, Optional
    <2> QED
      BY <2>1, <2>2
  <1>2. ASSUME NEW pieces \in Seq(Piece) PROVE Verbatims(pieces) \in Seq(Outcomes)
    <2>1. Len(pieces) \in Nat /\ \A i \in 1 .. Len(pieces) : pieces[i] \in Piece
      BY LenProperties, ElementOfSeq
    <2> QED
      BY <1>1, <2>1 DEF Verbatims
  <1>3. ASSUME NEW f \in FragmentSet PROVE WriteFragment(f, values) \in Outcomes
    <2>1. CASE f.field = "LiteralFragment"
      <3>1. f.of \in Seq(Piece)
        BY <2>1 DEF FragmentSet, field_map
      <3>2. WriteFragment(f, values) = Join(Verbatims(f.of))
        BY <2>1 DEF WriteFragment, Verbatims
      <3> QED
        BY <1>2, <3>1, <3>2, JoinType
    <2>2. CASE f.field # "LiteralFragment"
      BY <2>2, GetOutcome DEF WriteFragment
    <2> QED
      BY <2>1, <2>2
  <1>4. ASSUME NEW p \in Piece, NEW style PROVE WritePiece(p, style, values) \in Outcomes
    <2> DEFINE value == Converted(Get(values, p.name), p.conversion)
    <2>1. CASE ~ Of(p, style)
      BY <1>1, <2>1 DEF WritePiece
    <2>2. CASE Of(p, style)
      <3>1. /\ p.kind \in {"field", "padded", "escaped", "malformed"}
            /\ p.name \in Word /\ p.conversion \in Word
        BY <2>2, PieceParts DEF Of
      <3>2. value \in Outcomes
        BY <3>1, GetOutcome, ConvertedOutcome
      <3>3. "padded" \in Optional(Word) /\ p.name \in Optional(Word)
        BY <3>1, Zenon DEF Optional, Word
      <3>4. <<<<"padded">>>> \in Outcomes /\ <<<<p.name>>>> \in Outcomes
        BY <3>3, PartsAreTexts, Zenon DEF Outcomes, Optional
      <3>5. Joined(value, <<<<"padded">>>>) \in Outcomes
        BY <3>2, <3>4, JoinedType
      <3>6. WritePiece(p, style, values)
                \in {value, Joined(value, <<<<"padded">>>>), <<<<p.name>>>>, Py_None}
        <4> HIDE DEF value
        <4> QED
          BY <2>2, <3>1 DEF WritePiece, value
      <3>7. Py_None \in Outcomes
        BY DEF Outcomes, Optional
      <3> HIDE DEF value
      <3> QED
        BY <3>2, <3>4, <3>5, <3>6, <3>7, Zenon
    <2> QED
      BY <2>1, <2>2
  <1> QED
    BY <1>1, <1>2, <1>3, <1>4

LEMMA TextsFit ==
    ASSUME NEW values, AreTexts(values)
    PROVE  /\ \A f \in Seq(FragmentSet) :
                 /\ FragmentTexts(f, values) \in Seq(Outcomes)
                 /\ Len(FragmentTexts(f, values)) = Len(f)
           /\ \A fmt \in Seq(Piece) : \A style :
                 /\ PieceTexts(fmt, style, values) \in Seq(Outcomes)
                 /\ Len(PieceTexts(fmt, style, values)) = Len(fmt)
  <1>1. ASSUME NEW f \in Seq(FragmentSet)
        PROVE  /\ FragmentTexts(f, values) \in Seq(Outcomes)
               /\ Len(FragmentTexts(f, values)) = Len(f)
    <2>1. Len(f) \in Nat /\ \A i \in 1 .. Len(f) : f[i] \in FragmentSet
      BY LenProperties, ElementOfSeq
    <2>2. \A i \in 1 .. Len(f) : WriteFragment(f[i], values) \in Outcomes
      BY <2>1, WriteOutcomes
    <2> QED
      BY <2>1, <2>2 DEF FragmentTexts
  <1>2. ASSUME NEW fmt \in Seq(Piece), NEW style
        PROVE  /\ PieceTexts(fmt, style, values) \in Seq(Outcomes)
               /\ Len(PieceTexts(fmt, style, values)) = Len(fmt)
    <2>1. Len(fmt) \in Nat /\ \A i \in 1 .. Len(fmt) : fmt[i] \in Piece
      BY LenProperties, ElementOfSeq
    <2>2. \A i \in 1 .. Len(fmt) : WritePiece(fmt[i], style, values) \in Outcomes
      BY <2>1, WriteOutcomes
    <2> QED
      BY <2>1, <2>2 DEF PieceTexts
  <1> QED
    BY <1>1, <1>2

LEMMA TextsConcat ==
    ASSUME NEW values, AreTexts(values), NEW f \in Seq(FragmentSet), NEW g \in Seq(FragmentSet)
    PROVE  FragmentTexts(f \o g, values) = FragmentTexts(f, values) \o FragmentTexts(g, values)
  <1> DEFINE s == FragmentTexts(f \o g, values)
             u == FragmentTexts(f, values)
             v == FragmentTexts(g, values)
  <1>1. /\ f \o g \in Seq(FragmentSet) /\ Len(f \o g) = Len(f) + Len(g)
        /\ \A i \in 1 .. Len(f) + Len(g) :
              (f \o g)[i] = IF i <= Len(f) THEN f[i] ELSE g[i - Len(f)]
    BY ConcatProperties
  <1>2. /\ s \in Seq(Outcomes) /\ Len(s) = Len(f) + Len(g)
        /\ u \in Seq(Outcomes) /\ Len(u) = Len(f)
        /\ v \in Seq(Outcomes) /\ Len(v) = Len(g)
        /\ Len(f) \in Nat /\ Len(g) \in Nat
    BY <1>1, TextsFit, LenProperties
  <1>3. /\ u \o v \in Seq(Outcomes) /\ Len(u \o v) = Len(f) + Len(g)
        /\ \A i \in 1 .. Len(f) + Len(g) :
              (u \o v)[i] = IF i <= Len(f) THEN u[i] ELSE v[i - Len(f)]
    <2> HIDE DEF u, v
    <2>1. /\ u \o v \in Seq(Outcomes) /\ Len(u \o v) = Len(u) + Len(v)
          /\ \A i \in 1 .. Len(u) + Len(v) :
                (u \o v)[i] = IF i <= Len(u) THEN u[i] ELSE v[i - Len(u)]
      BY <1>2, ConcatProperties
    <2> QED
      BY <1>2, <2>1
  <1>4. ASSUME NEW i \in 1 .. Len(f) + Len(g) PROVE s[i] = (u \o v)[i]
    <2>1. s[i] = WriteFragment((f \o g)[i], values)
      BY <1>1 DEF FragmentTexts
    <2>2. CASE i <= Len(f)
      <3>1. u[i] = WriteFragment(f[i], values)
        BY <1>2, <2>2 DEF FragmentTexts
      <3> QED
        BY <1>1, <1>3, <2>1, <2>2, <3>1
    <2>3. CASE ~ (i <= Len(f))
      <3>1. i - Len(f) \in 1 .. Len(g)
        BY <1>2, <2>3
      <3>2. v[i - Len(f)] = WriteFragment(g[i - Len(f)], values)
        BY <3>1 DEF FragmentTexts
      <3> QED
        BY <1>1, <1>3, <2>1, <2>3, <3>2
    <2> QED
      BY <2>2, <2>3
  <1> HIDE DEF s, u, v
  <1>5. s = u \o v
    BY <1>2, <1>3, <1>4, SeqEqual
  <1> QED
    BY <1>5 DEF s, u, v

(* A fragment of text writes the pieces it was made of.                     *)
LEMMA LiteralWrites ==
    ASSUME NEW v, AreTexts(v), NEW w, AreTexts(w), NEW fmt \in Seq(Piece), NEW style,
           NEW c \in 1 .. Len(fmt) + 1, NEW e \in 0 .. Len(fmt),
           \A j \in c .. e : ~ Of(fmt[j], style)
    PROVE  Join(FragmentTexts(LiteralFragment(SubSeq(fmt, c, e)), v))
               = Join(SubSeq(PieceTexts(fmt, style, w), c, e))
  <1> DEFINE pieces == SubSeq(fmt, c, e)
             texts == PieceTexts(fmt, style, w)
             literal == [field |-> "LiteralFragment", of |-> pieces]
             part == SubSeq(texts, c, e)
  <1>1. c \in Int /\ e \in Int /\ Len(fmt) \in Nat
    BY LenProperties
  <1>2. texts \in Seq(Outcomes) /\ Len(texts) = Len(fmt)
    BY TextsFit
  <1>3. \A j \in c .. e : fmt[j] \in Piece /\ texts[j] \in Outcomes
    BY <1>1, <1>2, ElementOfSeq
  <1>4. CASE c <= e
    <2>1. LiteralFragment(pieces) = <<literal>> /\ pieces \in Seq(Piece)
      BY <1>4, LiteralFits
    <2>2. /\ Len(pieces) = e - c + 1
          /\ \A i \in 1 .. e - c + 1 : pieces[i] = fmt[c + i - 1]
      BY <1>1, <1>3, <1>4, SubSeqProperties
    <2>3. /\ part \in Seq(Outcomes) /\ Len(part) = e - c + 1
          /\ \A i \in 1 .. e - c + 1 : part[i] = texts[c + i - 1]
      <3> HIDE DEF texts
      <3> QED
        BY <1>1, <1>3, <1>4, SubSeqProperties
    <2>4. /\ Verbatims(pieces) \in Seq(Outcomes) /\ Len(Verbatims(pieces)) = e - c + 1
          /\ \A i \in 1 .. e - c + 1 : Verbatims(pieces)[i] = Verbatim(pieces[i])
      <3>1. Verbatims(pieces) \in Seq(Outcomes)
        BY <2>1, WriteOutcomes
      <3> HIDE DEF pieces
      <3> QED
        BY <1>1, <1>4, <2>2, <3>1 DEF Verbatims
    <2>5. ASSUME NEW i \in 1 .. e - c + 1 PROVE Verbatims(pieces)[i] = part[i]
      <3>1. c + i - 1 \in c .. e /\ c + i - 1 \in 1 .. Len(fmt)
        BY <1>1
      <3>2. texts[c + i - 1] = WritePiece(fmt[c + i - 1], style, w)
        BY <3>1 DEF PieceTexts
      <3>3. WritePiece(fmt[c + i - 1], style, w) = Verbatim(fmt[c + i - 1])
        BY <3>1 DEF WritePiece
      <3> QED
        BY <2>2, <2>3, <2>4, <3>2, <3>3
    <2>6. Verbatims(pieces) = part
      <3> HIDE DEF pieces, part
      <3> QED
        BY <2>3, <2>4, <2>5, SeqEqual
    <2>7. FragmentTexts(<<literal>>, v) = <<Join(Verbatims(pieces))>>
      <3>1. WriteFragment(literal, v) = Join(Verbatims(pieces))
        BY DEF WriteFragment, Verbatims
      <3> HIDE DEF literal
      <3> QED
        BY <3>1 DEF FragmentTexts
    <2>8. Join(<<Join(Verbatims(pieces))>>) = Join(Verbatims(pieces))
      BY <2>4, JoinType, JoinOne
    <2> QED
      BY <2>1, <2>6, <2>7, <2>8
  <1>5. CASE ~ (c <= e)
    <2>1. LiteralFragment(pieces) = <<>>
      BY <1>1, <1>5, SubSeqEmpty DEF LiteralFragment
    <2>2. part = <<>>
      <3> HIDE DEF texts
      <3> QED
        BY <1>1, <1>5, SubSeqEmpty
    <2>3. FragmentTexts(<<>>, v) = <<>>
      BY DEF FragmentTexts
    <2> QED
      BY <2>1, <2>2, <2>3
  <1> QED
    BY <1>4, <1>5

(* With v for the fragments and w for Python: the format has only fields,   *)
(* and what Python writes of them is the value that the fragments write.    *)
Alikes(fmt, style, v, w) ==
    \A i \in 1 .. Len(fmt) :
        Of(fmt[i], style) =>
            /\ fmt[i].kind = "field"
            /\ Converted(Get(w, fmt[i].name), fmt[i].conversion) = Get(v, fmt[i].name)

(* The fragments of the walk write the pieces before the cursor.            *)
WalkWrites(walk, fmt, style, v, w) ==
    Join(FragmentTexts(walk.found, v))
        = Join(SubSeq(PieceTexts(fmt, style, w), 1, walk.cursor - 1))

LEMMA FieldWrites ==
    ASSUME NEW v, AreTexts(v), NEW w, AreTexts(w), NEW fmt \in Seq(Piece), NEW style,
           Alikes(fmt, style, v, w), NEW i \in Matches(fmt, style)
    PROVE  /\ FieldFragment(fmt[i].name) \in FragmentSet
           /\ FragmentTexts(<<FieldFragment(fmt[i].name)>>, v)
                  = <<PieceTexts(fmt, style, w)[i]>>
  <1>1. /\ i \in 1 .. Len(fmt) /\ fmt[i] \in Piece
        /\ fmt[i].kind = "field" /\ Of(fmt[i], style)
    BY ElementOfSeq DEF Matches, Of
  <1>2. fmt[i].name \in Word
    BY <1>1, PieceParts
  <1>3. FieldFragment(fmt[i].name) \in FragmentSet
    BY <1>2 DEF FieldFragment, FragmentSet
  <1>4. WriteFragment(FieldFragment(fmt[i].name), v) = Get(v, fmt[i].name)
    BY DEF WriteFragment, FieldFragment, field_map
  <1>5. PieceTexts(fmt, style, w)[i] = Get(v, fmt[i].name)
    <2>1. WritePiece(fmt[i], style, w) = Converted(Get(w, fmt[i].name), fmt[i].conversion)
      BY <1>1 DEF WritePiece
    <2>2. Converted(Get(w, fmt[i].name), fmt[i].conversion) = Get(v, fmt[i].name)
      BY <1>1 DEF Alikes
    <2> QED
      BY <1>1, <2>1, <2>2 DEF PieceTexts
  <1>6. \A f : FragmentTexts(<<f>>, v) = <<WriteFragment(f, v)>>
    BY DEF FragmentTexts
  <1> QED
    BY <1>3, <1>4, <1>5, <1>6

LEMMA PastWrites ==
    ASSUME NEW v, AreTexts(v), NEW w, AreTexts(w), NEW fmt \in Seq(Piece), NEW style,
           Alikes(fmt, style, v, w), NEW i \in 1 .. Len(fmt), NEW walk,
           WalkFits(walk, i - 1, fmt, style), WalkWrites(walk, fmt, style, v, w)
    PROVE  WalkWrites(Past(walk, i, fmt, style), fmt, style, v, w)
  <1> DEFINE M == Matches(fmt, style)
             texts == PieceTexts(fmt, style, w)
             c == walk.cursor
             literal == LiteralFragment(SubSeq(fmt, c, i - 1))
             field == <<FieldFragment(fmt[i].name)>>
             past == Past(walk, i, fmt, style)
  <1>1. CASE i \notin M
    BY <1>1 DEF Past
  <1>2. CASE i \in M
    <2>1. /\ i - 1 \in Nat /\ (i - 1) + 1 = i /\ Len(fmt) \in Nat
          /\ c \in 1 .. i /\ walk.found \in Seq(FragmentSet)
          /\ \A j \in c .. i - 1 : j \notin M
      <3>1. i - 1 \in Nat /\ (i - 1) + 1 = i /\ Len(fmt) \in Nat
        BY LenProperties
      <3> QED
        BY <3>1 DEF WalkFits
    <2>2. past.found = (walk.found \o literal) \o field /\ past.cursor - 1 = i
      <3> DEFINE all == (walk.found \o literal) \o field
      <3>1. past = [cursor |-> i + 1, found |-> all]
        BY <1>2 DEF Past
      <3> HIDE DEF past, all
      <3>2. past.found = all /\ past.cursor - 1 = i
        BY <2>1, <3>1
      <3> QED
        BY <3>2 DEF all
    <2>3. c \in 1 .. Len(fmt) + 1 /\ i - 1 \in 0 .. Len(fmt)
      BY <2>1
    <2>4. literal \in Seq(FragmentSet)
      <3> HIDE DEF c
      <3> QED
        BY <2>3, LiteralFits
    <2>5. field \in Seq(FragmentSet) /\ FragmentTexts(field, v) = <<texts[i]>>
      <3>1. FieldFragment(fmt[i].name) \in FragmentSet
        BY <1>2, FieldWrites
      <3> QED
        BY <1>2, <3>1, FieldWrites
    <2>6. texts \in Seq(Outcomes) /\ Len(texts) = Len(fmt) /\ texts[i] \in Outcomes
      <3>1. texts \in Seq(Outcomes) /\ Len(texts) = Len(fmt)
        BY TextsFit
      <3> HIDE DEF texts
      <3> QED
        BY <3>1, ElementOfSeq
    <2> DEFINE J1 == Join(FragmentTexts(walk.found, v))
               J2 == Join(FragmentTexts(literal, v))
    <2>7. Join(FragmentTexts(past.found, v)) = Joined(Joined(J1, J2), texts[i])
      <3>1. FragmentTexts(past.found, v)
                = (FragmentTexts(walk.found, v) \o FragmentTexts(literal, v))
                      \o FragmentTexts(field, v)
        <4>1. walk.found \o literal \in Seq(FragmentSet)
          BY <2>1, <2>4, ConcatProperties
        <4>2. past.found = (walk.found \o literal) \o field
          BY <2>2
        <4> HIDE DEF past, literal, field
        <4>3. FragmentTexts((walk.found \o literal) \o field, v)
                  = FragmentTexts(walk.found \o literal, v) \o FragmentTexts(field, v)
          BY <2>5, <4>1, TextsConcat, Zenon
        <4>4. FragmentTexts(walk.found \o literal, v)
                  = FragmentTexts(walk.found, v) \o FragmentTexts(literal, v)
          BY <2>1, <2>4, TextsConcat, Zenon
        <4> QED
          BY <4>2, <4>3, <4>4, Zenon
      <3>2. /\ FragmentTexts(walk.found, v) \in Seq(Outcomes)
            /\ FragmentTexts(literal, v) \in Seq(Outcomes)
            /\ FragmentTexts(field, v) \in Seq(Outcomes)
        BY <2>1, <2>4, <2>5, TextsFit
      <3>3. FragmentTexts(walk.found, v) \o FragmentTexts(literal, v)
                \in Seq(Outcomes)
        BY <3>2, ConcatProperties
      <3>4. Join(FragmentTexts(field, v)) = texts[i]
        BY <2>5, <2>6, JoinOne
      <3> QED
        BY <3>1, <3>2, <3>3, <3>4, JoinConcat
    <2>8. J1 = Join(SubSeq(texts, 1, c - 1))
      BY DEF WalkWrites
    <2>9. J2 = Join(SubSeq(texts, c, i - 1))
      <3>1. ASSUME NEW j \in c .. i - 1 PROVE ~ Of(fmt[j], style)
        <4>1. j \in 1 .. Len(fmt) /\ j \notin M
          BY <2>1
        <4> QED
          BY <4>1 DEF Alikes, Matches, Of
      <3> HIDE DEF c
      <3> QED
        BY <2>3, <3>1, LiteralWrites
    <2>10. Join(SubSeq(texts, 1, i)) = Joined(Join(SubSeq(texts, 1, i - 1)), texts[i])
      <3> HIDE DEF texts
      <3>1. /\ \A j \in 1 .. i - 1 : texts[j] \in Outcomes
            /\ 1 \in Int /\ i - 1 \in Int /\ 1 \in 1 .. Len(texts) /\ i \in 1 .. Len(texts)
        BY <2>1, <2>6, ElementOfSeq
      <3>2. SubSeq(texts, 1, i - 1) \in Seq(Outcomes)
        BY <3>1, SubSeqProperties
      <3>3. SubSeq(texts, 1, i) = SubSeq(texts, 1, i - 1) \o <<texts[i]>>
        BY <2>6, <3>1, SubSeqRecursiveSecond
      <3> QED
        BY <2>6, <3>2, <3>3, AppendIsConcat, JoinAppend
    <2>11. Join(SubSeq(texts, 1, i - 1))
               = Joined(Join(SubSeq(texts, 1, c - 1)), Join(SubSeq(texts, c, i - 1)))
      <3> HIDE DEF texts, c
      <3>1. /\ 1 \in 1 .. Len(texts) + 1 /\ c - 1 \in 1 - 1 .. Len(texts)
            /\ i - 1 \in c - 1 .. Len(texts) /\ (c - 1) + 1 = c
        BY <2>1, <2>6
      <3>2. SubSeq(texts, 1, c - 1) \o SubSeq(texts, c, i - 1) = SubSeq(texts, 1, i - 1)
        BY <2>6, <3>1, ConcatAdjacentSubSeq
      <3>3. /\ c \in Int /\ i - 1 \in Int /\ c - 1 \in Int /\ 1 \in Int
            /\ \A j \in c .. i - 1 : texts[j] \in Outcomes
            /\ \A j \in 1 .. c - 1 : texts[j] \in Outcomes
        BY <2>1, <2>6, ElementOfSeq
      <3>4. SubSeq(texts, 1, c - 1) \in Seq(Outcomes) /\ SubSeq(texts, c, i - 1) \in Seq(Outcomes)
        BY <3>3, SubSeqProperties
      <3> QED
        BY <3>2, <3>4, JoinConcat
    <2> QED
      <3> HIDE DEF J1, J2, texts, c, past
      <3>1. Join(FragmentTexts(past.found, v)) = Join(SubSeq(texts, 1, past.cursor - 1))
        BY <2>2, <2>7, <2>8, <2>9, <2>10, <2>11
      <3> QED
        BY <3>1 DEF WalkWrites, texts, past
  <1> QED
    BY <1>1, <1>2

(* The walk writes them at every piece.                                     *)
LEMMA WalkWriteKept ==
    ASSUME NEW v, AreTexts(v), NEW w, AreTexts(w), NEW fmt \in Seq(Piece), NEW style,
           Alikes(fmt, style, v, w), NEW walk, Walking(fmt, style, Len(fmt), walk)
    PROVE  \A i \in 0 .. Len(fmt) : WalkWrites(walk[i], fmt, style, v, w)
  <1> DEFINE T == {k \in 0 .. Len(fmt) : ~ WalkWrites(walk[k], fmt, style, v, w)}
  <1> SUFFICES ASSUME T # {} PROVE FALSE
    OBVIOUS
  <1>1. T \subseteq Nat /\ Len(fmt) \in Nat
    BY LenProperties
  <1>2. PICK k \in T : \A j \in T : k <= j
    BY <1>1, NatMin
  <1>3. k # 0
    <2>1. walk[0] = WalkStart
      BY <1>1, WalkingStep
    <2>2. /\ FragmentTexts(WalkStart.found, v) = <<>>
          /\ WalkStart.cursor - 1 = 0
      BY DEF WalkStart, FragmentTexts
    <2>3. SubSeq(PieceTexts(fmt, style, w), 1, 0) = <<>>
      BY SubSeqEmpty
    <2>4. WalkWrites(walk[0], fmt, style, v, w)
      BY <2>1, <2>2, <2>3 DEF WalkWrites
    <2> QED
      BY <2>4
  <1>4. k \in 1 .. Len(fmt) /\ k - 1 \in 0 .. Len(fmt) /\ k - 1 \notin T
    BY <1>1, <1>2, <1>3
  <1>5. WalkWrites(walk[k - 1], fmt, style, v, w) /\ WalkFits(walk[k - 1], k - 1, fmt, style)
    BY <1>4, WalkKept
  <1>6. walk[k] = Past(walk[k - 1], k, fmt, style)
    BY <1>1, <1>4, WalkingStep
  <1>7. WalkWrites(walk[k], fmt, style, v, w)
    BY <1>4, <1>5, <1>6, PastWrites
  <1> QED
    BY <1>2, <1>7

-----------------------------------------------------------------------------
(* A FormatStyle as FormatStyle_init leaves it.                             *)
StyleFits(self) ==
    /\ self.fmt \in Seq(Piece)
    /\ self.defaults # Py_None => AreTexts(self.defaults)
    /\ self.fragments = Fragments(self.fmt, self.style)
    /\ self.size = Len(self.fragments)

LEMMA OneFieldLen ==
    ASSUME NEW p, p.kind = "field", NEW style
    PROVE  FragmentLen(<<p>>, style) = 1
  <1> DEFINE fmt == <<p>>
             M == Matches(fmt, style)
             E == {i \in M \cup {Len(fmt) + 1} : i > 1 /\ i - 1 \notin M}
  <1>1. Len(fmt) = 1 /\ fmt[1] = p
    OBVIOUS
  <1>2. \A i : i \in M <=> i = 1 /\ p.style = style
    <2>1. \A i : i \in 1 .. 1 <=> i = 1
      OBVIOUS
    <2> HIDE DEF fmt
    <2> QED
      BY <1>1, <2>1, Zenon DEF Matches
  <1>3. \A i : i \in E <=> i = 2 /\ p.style # style
    <2>1. 1 + 1 = 2 /\ 2 > 1 /\ 2 - 1 = 1 /\ ~ (1 > 1) /\ 2 # 1
      OBVIOUS
    <2> HIDE DEF fmt, M
    <2> QED
      BY <1>1, <1>2, <2>1, Zenon
  <1>4. Cardinality({}) = 0 /\ Cardinality({1}) = 1 /\ Cardinality({2}) = 1
    BY FS_EmptySet, FS_Singleton, Zenon
  <1> HIDE DEF M, E
  <1>5. CASE p.style = style
    <2>1. M = {1} /\ E = {}
      BY <1>2, <1>3, <1>5
    <2>2. Cardinality(M) = 1 /\ Cardinality(E) = 0
      BY <1>4, <2>1, Zenon
    <2> QED
      BY <2>2 DEF FragmentLen, M, E
  <1>6. CASE p.style # style
    <2>1. M = {} /\ E = {2}
      BY <1>2, <1>3, <1>6
    <2>2. Cardinality(M) = 0 /\ Cardinality(E) = 1
      BY <1>4, <2>1, Zenon
    <2> QED
      BY <2>2 DEF FragmentLen, M, E
  <1> QED
    BY <1>5, <1>6

LEMMA DefaultLen ==
    ASSUME NEW style
    PROVE  default_fmt \in Seq(Piece) /\ FragmentLen(default_fmt, style) = 1
  <1>1. default_fmt \in Seq(Piece)
    <2>1. "message" \in Word
      BY DEF Word
    <2>2. Field("%", "message") \in Piece
      BY <2>1, Zenon DEF Field, PieceOf, Piece, Styles
    <2>3. \A p \in Piece : <<p>> \in Seq(Piece)
      OBVIOUS
    <2> QED
      BY <2>2, <2>3, Zenon DEF default_fmt
  <1>2. Field("%", "message").kind = "field"
    BY Zenon DEF Field, PieceOf
  <1> QED
    BY <1>1, <1>2, OneFieldLen, Zenon DEF default_fmt

LEMMA NewStyleFits ==
    ASSUME NEW f, FormatterFits(f)
    PROVE  StyleFits(NewFormatStyle(f.fmt, f.defaults, f.style))
  <1> DEFINE self == NewFormatStyle(f.fmt, f.defaults, f.style)
             given == IF f.fmt = Py_None THEN default_fmt ELSE f.fmt
  <1>1. /\ self.fmt = given /\ self.style = f.style /\ self.defaults = f.defaults
        /\ self.size = IF f.fmt = Py_None THEN 1 ELSE FragmentLen(f.fmt, f.style)
        /\ self.fragments = Fragments(given, f.style)
    BY DEF NewFormatStyle
  <1>2. /\ f.fmt \in Optional(Seq(Piece))
        /\ f.defaults # Py_None => AreTexts(f.defaults)
    BY DEF FormatterFits
  <1>3. given \in Seq(Piece) /\ self.size = FragmentLen(given, f.style)
    <2>1. CASE f.fmt = Py_None
      BY <1>1, <1>2, <2>1, DefaultLen
    <2>2. CASE f.fmt # Py_None
      BY <1>1, <1>2, <2>2 DEF Optional
    <2> QED
      BY <2>1, <2>2
  <1>4. Len(Fragments(given, f.style)) = FragmentLen(given, f.style)
    <2> HIDE DEF given
    <2> QED
      BY <1>3, FragmentsFill
  <1> QED
    <2> HIDE DEF self, given
    <2>1. StyleFits(self)
      BY <1>1, <1>2, <1>3, <1>4 DEF StyleFits
    <2> QED
      BY <2>1 DEF self

(* FormatStyle_format makes of the fragments what Python makes of the       *)
(* format, if Python writes each value that the format names as it is.      *)
LEMMA FormatsAgree ==
    ASSUME NEW self, StyleFits(self), NEW v, AreTexts(v), NEW w, AreTexts(w)
    PROVE  /\ FormatFragments(self, v) \in Outcomes
           /\ FormatByPython(self, w) \in Outcomes
           /\ Alikes(self.fmt, self.style, v, w) =>
                 FormatFragments(self, v) = FormatByPython(self, w)
  <1> DEFINE fmt == self.fmt
             style == self.style
             n == Len(fmt)
             texts == PieceTexts(fmt, style, w)
             fragments == self.fragments
  <1>1. /\ fmt \in Seq(Piece) /\ n \in Nat /\ fragments = Fragments(fmt, style)
        /\ fragments \in Seq(FragmentSet) /\ self.size = Len(fragments)
    BY FragmentsFill, LenProperties DEF StyleFits
  <1>2. FormatFragments(self, v) = Join(FragmentTexts(fragments, v))
    <2>1. [i \in 1 .. self.size |->
              IF i \in 1 .. Len(fragments) THEN WriteFragment(fragments[i], v)
              ELSE Py_None] = FragmentTexts(fragments, v)
      BY <1>1 DEF FragmentTexts
    <2> QED
      BY <2>1 DEF FormatFragments
  <1>3. FormatByPython(self, w) = Join(texts)
    BY DEF FormatByPython, PieceTexts
  <1>4. texts \in Seq(Outcomes) /\ Len(texts) = n
    BY <1>1, TextsFit
  <1>5. FragmentTexts(fragments, v) \in Seq(Outcomes)
    BY <1>1, TextsFit
  <1>6. ASSUME Alikes(fmt, style, v, w)
        PROVE  Join(FragmentTexts(fragments, v)) = Join(texts)
    <2>1. PICK walk : /\ Walking(fmt, style, n, walk)
                   /\ fragments = walk[n].found
                         \o LiteralFragment(SubSeq(fmt, walk[n].cursor, n))
      <3>1. \E walk : /\ Walking(fmt, style, n, walk)
                   /\ Fragments(fmt, style)
                         = walk[n].found \o LiteralFragment(SubSeq(fmt, walk[n].cursor, n))
        BY <1>1, FragmentsEnd, Zenon
      <3> QED
        BY <1>1, <3>1, Zenon
    <2> DEFINE c == walk[n].cursor
               found == walk[n].found
               tail == LiteralFragment(SubSeq(fmt, c, n))
    <2>2. WalkFits(walk[n], n, fmt, style) /\ WalkWrites(walk[n], fmt, style, v, w)
      BY <1>1, <1>6, <2>1, WalkKept, WalkWriteKept
    <2>3. /\ c \in 1 .. n + 1 /\ found \in Seq(FragmentSet)
          /\ \A j \in c .. n : j \notin Matches(fmt, style)
      BY <2>2 DEF WalkFits
    <2>4. tail \in Seq(FragmentSet)
      <3>1. n \in 0 .. Len(fmt)
        BY <1>1
      <3> HIDE DEF c
      <3> QED
        BY <1>1, <2>3, <3>1, LiteralFits
    <2>5. Join(FragmentTexts(found, v)) = Join(SubSeq(texts, 1, c - 1))
      BY <2>2 DEF WalkWrites
    <2>6. Join(FragmentTexts(tail, v)) = Join(SubSeq(texts, c, n))
      <3>1. ASSUME NEW j \in c .. n PROVE ~ Of(fmt[j], style)
        <4>1. j \in 1 .. n /\ j \notin Matches(fmt, style)
          BY <1>1, <2>3
        <4> QED
          BY <1>6, <4>1 DEF Alikes, Matches, Of
      <3>2. n \in 0 .. Len(fmt)
        BY <1>1
      <3> HIDE DEF c
      <3> QED
        BY <1>1, <2>3, <3>1, <3>2, LiteralWrites
    <2>7. Join(FragmentTexts(fragments, v))
              = Joined(Join(FragmentTexts(found, v)), Join(FragmentTexts(tail, v)))
      <3>1. FragmentTexts(fragments, v)
                = FragmentTexts(found, v) \o FragmentTexts(tail, v)
        BY <2>1, <2>3, <2>4, TextsConcat
      <3>2. /\ FragmentTexts(found, v) \in Seq(Outcomes)
            /\ FragmentTexts(tail, v) \in Seq(Outcomes)
        BY <2>3, <2>4, TextsFit
      <3> QED
        BY <3>1, <3>2, JoinConcat
    <2>8. Join(texts) = Joined(Join(SubSeq(texts, 1, c - 1)), Join(SubSeq(texts, c, n)))
      <3> HIDE DEF texts, c, n
      <3>1. /\ 1 \in 1 .. Len(texts) + 1 /\ c - 1 \in 1 - 1 .. Len(texts)
            /\ n \in c - 1 .. Len(texts) /\ (c - 1) + 1 = c
        BY <1>1, <1>4, <2>3
      <3>2. SubSeq(texts, 1, c - 1) \o SubSeq(texts, c, n) = SubSeq(texts, 1, n)
        BY <1>4, <3>1, ConcatAdjacentSubSeq
      <3>3. SubSeq(texts, 1, n) = texts
        BY <1>4, SubSeqFull
      <3>4. /\ c \in Int /\ n \in Int /\ c - 1 \in Int /\ 1 \in Int
            /\ \A j \in c .. n : texts[j] \in Outcomes
            /\ \A j \in 1 .. c - 1 : texts[j] \in Outcomes
        BY <1>1, <1>4, <2>3, ElementOfSeq
      <3>5. SubSeq(texts, 1, c - 1) \in Seq(Outcomes) /\ SubSeq(texts, c, n) \in Seq(Outcomes)
        BY <3>4, SubSeqProperties
      <3> QED
        BY <3>2, <3>3, <3>5, JoinConcat
    <2> QED
      BY <2>5, <2>6, <2>7, <2>8
  <1> QED
    BY <1>2, <1>3, <1>4, <1>5, <1>6, JoinType

(* The text depends on the values that the format names.                    *)
LEMMA SameValues ==
    ASSUME NEW self, NEW v, NEW w, self.fmt \in Seq(Piece),
           \A i \in 1 .. Len(self.fmt) :
               Of(self.fmt[i], self.style) /\ self.fmt[i].kind \in {"field", "padded"} =>
                   Get(v, self.fmt[i].name) = Get(w, self.fmt[i].name)
    PROVE  FormatByPython(self, v) = FormatByPython(self, w)
  <1>1. ASSUME NEW i \in 1 .. Len(self.fmt)
        PROVE  WritePiece(self.fmt[i], self.style, v) = WritePiece(self.fmt[i], self.style, w)
    <2> DEFINE p == self.fmt[i]
    <2>1. p.kind \in {"field", "padded", "escaped", "malformed", "text"}
      BY ElementOfSeq, PieceParts
    <2>2. CASE ~ Of(p, self.style)
      BY <2>2 DEF WritePiece
    <2>3. CASE Of(p, self.style) /\ p.kind \in {"field", "padded"}
      <3>1. Get(v, p.name) = Get(w, p.name)
        BY <2>3
      <3>2. p.kind = "field" \/ p.kind = "padded"
        BY <2>3
      <3> QED
        BY <2>3, <3>1, <3>2 DEF WritePiece
    <2>4. CASE Of(p, self.style) /\ p.kind \notin {"field", "padded"}
      <3>1. p.kind \in {"escaped", "malformed"}
        BY <2>1, <2>4 DEF Of
      <3> QED
        BY <2>4, <3>1 DEF WritePiece
    <2> QED
      BY <2>2, <2>3, <2>4
  <1>2. [i \in 1 .. Len(self.fmt) |-> WritePiece(self.fmt[i], self.style, v)]
            = [i \in 1 .. Len(self.fmt) |-> WritePiece(self.fmt[i], self.style, w)]
    BY <1>1
  <1> QED
    BY <1>2 DEF FormatByPython

-----------------------------------------------------------------------------
(* Lookup finds the name of a path of the same hash.                        *)
CacheEntries == {<<Hash[p], Stem[p]>> : p \in Paths}

CacheFits(entries) ==
    /\ entries \in Seq(CacheEntries)
    /\ \A i, j \in 1 .. Len(entries) : entries[i][1] = entries[j][1] => i = j

LEMMA CacheKept ==
    ASSUME CacheFits(cache), NEW p \in Paths
    PROVE  /\ CacheFits(CacheWith(p))
           /\ \E i \in 1 .. Len(CacheWith(p)) : CacheWith(p)[i][1] = Hash[p]
  <1> DEFINE entry == <<Hash[p], Stem[p]>>
  <1>1. entry \in CacheEntries /\ entry[1] = Hash[p]
    BY DEF CacheEntries
  <1>2. cache \in Seq(CacheEntries) /\ Len(cache) \in Nat
    BY LenProperties DEF CacheFits
  <1>3. CASE Cached(p)
    BY <1>3 DEF CacheWith, Cached
  <1>4. CASE ~ Cached(p)
    <2> DEFINE all == Append(cache, entry)
    <2>1. CacheWith(p) = all
      BY <1>4 DEF CacheWith
    <2>2. /\ all \in Seq(CacheEntries) /\ Len(all) = Len(cache) + 1
          /\ \A i \in 1 .. Len(cache) : all[i] = cache[i]
          /\ all[Len(cache) + 1] = entry
      <3> HIDE DEF entry
      <3> QED
        BY <1>1, <1>2, AppendProperties
    <2>3. \A i \in 1 .. Len(all) : i \in 1 .. Len(cache) \/ i = Len(cache) + 1
      BY <1>2, <2>2
    <2>4. \A i \in 1 .. Len(cache) : all[i][1] # Hash[p]
      BY <1>4, <2>2 DEF Cached
    <2>5. all[Len(cache) + 1][1] = Hash[p] /\ Len(cache) + 1 \in 1 .. Len(all)
      BY <1>1, <1>2, <2>2
    <2>6. ASSUME NEW i \in 1 .. Len(all), NEW j \in 1 .. Len(all), all[i][1] = all[j][1]
          PROVE  i = j
      <3>1. CASE i \in 1 .. Len(cache) /\ j \in 1 .. Len(cache)
        <4>1. cache[i][1] = cache[j][1]
          BY <2>2, <2>6, <3>1
        <4> QED
          BY <3>1, <4>1 DEF CacheFits
      <3>2. CASE ~ (i \in 1 .. Len(cache) /\ j \in 1 .. Len(cache))
        BY <2>3, <2>4, <2>5, <2>6, <3>2, Zenon
      <3> QED
        BY <3>1, <3>2
    <2> HIDE DEF all
    <2> QED
      BY <2>1, <2>2, <2>5, <2>6 DEF CacheFits
  <1> QED
    BY <1>3, <1>4

LEMMA LookupFinds ==
    ASSUME CacheFits(cache), NEW p \in Paths
    PROVE  \E q \in Paths : Hash[q] = Hash[p] /\ Lookup(p) = Stem[q]
  <1> DEFINE entries == CacheWith(p)
             I == {i \in 1 .. Len(entries) : entries[i][1] = Hash[p]}
             first == SelectInSeq(entries, LAMBDA e : e[1] = Hash[p])
  <1>1. entries \in Seq(CacheEntries) /\ Len(entries) \in Nat /\ I # {}
    BY CacheKept, LenProperties DEF CacheFits
  <1>2. first = Min(I)
    BY <1>1 DEF SelectInSeq
  <1>3. Min(I) \in I
    <2>1. I \subseteq Nat
      BY <1>1
    <2>2. \E m \in I : \A k \in I : m <= k
      BY <1>1, <2>1, NatMin
    <2> HIDE DEF I
    <2> QED
      BY <2>2 DEF Min
  <1>4. first \in 1 .. Len(entries) /\ entries[first][1] = Hash[p]
    BY <1>2, <1>3
  <1>5. entries[first] \in CacheEntries
    <2> HIDE DEF first, entries
    <2> QED
      BY <1>1, <1>4, ElementOfSeq
  <1>6. PICK q \in Paths : entries[first] = <<Hash[q], Stem[q]>>
    BY <1>5 DEF CacheEntries
  <1>7. Lookup(p) = entries[first][2]
    BY DEF Lookup
  <1> QED
    BY <1>4, <1>6, <1>7

-----------------------------------------------------------------------------
(* What a record holds.  The text of an exception is that of the exception  *)
(* the record has.                                                          *)
RecordFits(r) ==
    /\ r \in [msg : Messages, args : {"()", "(value)", "mapping", Py_None},
              hasArgs : BOOLEAN, levelno : Word, levelname : {<<<<"level", r.levelno>>>>},
              pathname : Paths, filename : Text, excInfo : ExcInfos({"tuple", "other"}),
              excText : Outcomes, stackInfo : Optional(Word), message : Outcomes,
              asctime : Outcomes, created : {"logged", "prepared"}, dict : {r.dict}]
    /\ AreTexts(r.dict)
    /\ r.excText # Py_None =>
          /\ r.excInfo # Py_None /\ r.excInfo.kind = "tuple"
          /\ r.excText = Traceback(r.excInfo)

LEMMA MergedTexts ==
    ASSUME NEW v, AreTexts(v), NEW w, AreTexts(w)
    PROVE  /\ AreTexts(Merged(v, w))
           /\ \A name : Get(Merged(v, w), name) =
                 IF name \in DOMAIN v THEN v[name] ELSE Get(w, name)
  BY DEF Merged, AreTexts, Get

LEMMA StrIsText ==
    ASSUME NEW text \in Outcomes
    PROVE  Str(text) \in Text
  <1>1. "None" \in Optional(Word)
    BY DEF Word, Optional
  <1>2. <<<<"None">>>> \in Text
    BY <1>1, PartsAreTexts
  <1> QED
    BY <1>2 DEF Str, Outcomes, Optional

LEMMA MessageOutcome ==
    ASSUME NEW r, RecordFits(r)
    PROVE  Message(r) \in Outcomes
  <1>1. /\ r.msg \in Messages /\ r.args \in {"()", "(value)", "mapping", Py_None}
        /\ r.msg.text \in Text
    BY DEF RecordFits, Messages
  <1>2. r.args \in Optional(Word) /\ "with" \in Optional(Word)
    BY <1>1 DEF Word, Optional
  <1>3. <<"with", r.args>> \in Part
    BY <1>2 DEF Part
  <1>4. Append(r.msg.text, <<"with", r.args>>) \in Text
    BY <1>1, <1>3, AppendProperties DEF Text
  <1> QED
    BY <1>1, <1>4 DEF Message, PyUnicode_Format, Outcomes, Optional

LEMMA SlotText ==
    ASSUME NEW r, RecordFits(r), NEW name \in SlotNames
    PROVE  Slot(r, name) \in Text
  <1>1. /\ r.message \in Outcomes /\ r.asctime \in Outcomes /\ r.excText \in Outcomes
        /\ r.levelname = <<<<"level", r.levelno>>>> /\ r.levelno \in Word
        /\ r.filename \in Text
    BY DEF RecordFits
  <1>2. /\ name \in Optional(Word) /\ r.levelno \in Optional(Word)
        /\ "level" \in Optional(Word) /\ "integer" \in Optional(Word)
        /\ "float" \in Optional(Word)
    BY <1>1, Zenon DEF SlotNames, Word, Optional
  <1>3. /\ r.levelname \in Text /\ <<<<"integer", name>>>> \in Text
        /\ <<<<"float", name>>>> \in Text /\ <<<<name>>>> \in Text
    BY <1>1, <1>2, PartsAreTexts, Zenon
  <1>4. Str(r.message) \in Text /\ Str(r.asctime) \in Text /\ Str(r.excText) \in Text
    BY <1>1, StrIsText
  <1> QED
    BY <1>1, <1>3, <1>4 DEF Slot

LEMMA DictTexts ==
    ASSUME NEW r, RecordFits(r)
    PROVE  /\ AreTexts(LogRecord_getDict(r)) /\ AreTexts(Attributes(r))
           /\ \A name : name \notin {"funcname", "msecs"} =>
                 Get(Attributes(r), name) = Get(LogRecord_getDict(r), name)
  <1> DEFINE slots == [name \in SlotNames |-> Slot(r, name)]
             others == FragmentSlots(r)
             dict == LogRecord_getDict(r)
  <1>1. AreTexts(slots) /\ AreTexts(r.dict)
    BY SlotText DEF AreTexts, RecordFits
  <1>2. AreTexts(dict)
    <2> HIDE DEF slots
    <2>1. AreTexts(Merged(slots, r.dict))
      BY <1>1, MergedTexts
    <2> QED
      BY <2>1 DEF LogRecord_getDict, slots
  <1>3. AreTexts(others) /\ DOMAIN others = {"funcname", "msecs"}
    <2>1. "funcName" \in SlotNames
      BY DEF SlotNames
    <2>2. Slot(r, "funcName") \in Text
      BY <2>1, SlotText
    <2>3. "int" \in Optional(Word) /\ "msecs" \in Optional(Word)
      BY Zenon DEF Word, field_map, Optional
    <2>4. <<<<"int", "msecs">>>> \in Text
      BY <2>3, PartsAreTexts, Zenon
    <2> QED
      BY <2>2, <2>4 DEF FragmentSlots, AreTexts
  <1> HIDE DEF others, dict
  <1>4. /\ AreTexts(Merged(others, dict))
        /\ \A name : name \notin {"funcname", "msecs"} =>
              Get(Merged(others, dict), name) = Get(dict, name)
    BY <1>2, <1>3, MergedTexts
  <1> QED
    BY <1>2, <1>4 DEF Attributes, others, dict

(* A name is looked up among the slots, then among what else has been set.  *)
LEMMA DictValue ==
    ASSUME NEW r, NEW name
    PROVE  Get(LogRecord_getDict(r), name)
               = IF name \in SlotNames THEN Slot(r, name) ELSE Get(r.dict, name)
  BY DEF LogRecord_getDict, Merged, Get

(* The parts of a record that no formatter changes.                         *)
SameCall(r, s) ==
    /\ s.msg = r.msg /\ s.args = r.args /\ s.hasArgs = r.hasArgs
    /\ s.levelno = r.levelno /\ s.pathname = r.pathname /\ s.filename = r.filename
    /\ s.excInfo = r.excInfo /\ s.stackInfo = r.stackInfo /\ s.created = r.created

StampedWith(r, message, asctime) == [r EXCEPT !.message = message, !.asctime = asctime]

LEMMA StampedFits ==
    ASSUME NEW r, RecordFits(r), NEW message \in Outcomes, NEW asctime \in Outcomes
    PROVE  LET s == StampedWith(r, message, asctime)
           IN  /\ RecordFits(s) /\ SameCall(r, s)
               /\ s.message = message /\ s.asctime = asctime
               /\ s.excText = r.excText /\ s.dict = r.dict /\ s.levelname = r.levelname
  BY DEF RecordFits, SameCall, StampedWith

LEMMA UpdatedFits ==
    ASSUME NEW r, RecordFits(r), NEW dict, AreTexts(dict)
    PROVE  LET s == [r EXCEPT !.dict = dict]
           IN  /\ RecordFits(s) /\ SameCall(r, s)
               /\ s.excText = r.excText /\ s.dict = dict
  BY DEF RecordFits, SameCall

LEMMA TracebackIsText ==
    ASSUME NEW r, RecordFits(r), r.excInfo # Py_None
    PROVE  /\ Traceback(r.excInfo) \in Text /\ Traceback(r.excInfo) # Py_None
           /\ r.excInfo.kind \in {"tuple", "other"}
  <1>1. r.excInfo \in [kind : {"tuple", "other"}, exception : Optional(Word)]
    BY DEF RecordFits, ExcInfos, Optional
  <1>2. "traceback" \in Optional(Word) /\ r.excInfo.exception \in Optional(Word)
    BY <1>1 DEF Word, Optional
  <1>3. Traceback(r.excInfo) \in Text
    BY <1>2, PartsAreTexts, Zenon DEF Traceback
  <1> QED
    BY <1>1, <1>3, FormatStyleAssumption

LEMMA TracedFits ==
    ASSUME NEW r, RecordFits(r), r.excInfo # Py_None, r.excInfo.kind = "tuple"
    PROVE  LET s == [r EXCEPT !.excText = Traceback(r.excInfo)]
           IN  /\ RecordFits(s) /\ SameCall(r, s)
               /\ s.excText = Traceback(r.excInfo) /\ s.dict = r.dict
  <1>1. Traceback(r.excInfo) \in Outcomes
    BY TracebackIsText DEF Outcomes, Optional
  <1> QED
    BY <1>1 DEF RecordFits, SameCall

LEMMA LinesFit ==
    ASSUME NEW text \in Text, NEW more \in Outcomes
    PROVE  WithLines(text, more) \in Text
  <1>1. <<"\n">> \in Part
    <2>1. "\n" \in Optional(Word)
      BY DEF Word, Optional
    <2> QED
      BY <2>1 DEF Part
  <1>2. Append(text, <<"\n">>) \in Text
    BY <1>1, AppendProperties DEF Text
  <1>3. \A s, t \in Text : s \o t \in Text
    BY ConcatProperties DEF Text
  <1> QED
    BY <1>2, <1>3 DEF WithLines, Outcomes, Optional

LEMMA StackFits ==
    ASSUME NEW sinfo \in Optional(Word)
    PROVE  StackLines(sinfo) \in Outcomes
  BY PartsAreTexts, Zenon DEF StackLines, Outcomes, Optional

(* A formatter as the application or Handler_format leaves it.              *)
Usable(self) ==
    /\ self.kind \in {"Formatter", "FormatStyle"}
    /\ StyleFits(self.style)
    /\ self.usesTime = UsesTime(self.style)
    /\ self.style.usesDefaultFmt => self.style.fmt = default_fmt
    /\ self.dateFmt \in Optional(Word)
    /\ self.style.defaults # Py_None =>
          \E g \in UNION Range(Formatters) : g.defaults = self.style.defaults

(* The attributes that the defaults of a style do not name are kept.        *)
OthersKept(self, r, s) ==
    \A name : self.defaults = Py_None \/ name \notin DOMAIN self.defaults =>
        Get(s.dict, name) = Get(r.dict, name)

LEMMA StyleFormats ==
    ASSUME NEW self, StyleFits(self), NEW r, RecordFits(r)
    PROVE  LET out == FormatStyle_format(self, r)
           IN  /\ out.text \in Outcomes
               /\ RecordFits(out.record) /\ SameCall(r, out.record)
               /\ out.record.excText = r.excText
               /\ OthersKept(self, r, out.record)
  <1> DEFINE out == FormatStyle_format(self, r)
             values == LogRecord_getDict(r)
  <1>1. AreTexts(values) /\ AreTexts(Attributes(r)) /\ AreTexts(r.dict)
    BY DictTexts DEF RecordFits
  <1>2. CASE self.defaults = Py_None
    <2>1. out = [record |-> r, text |-> FormatFragments(self, Attributes(r))]
      BY <1>2 DEF FormatStyle_format
    <2>2. FormatFragments(self, Attributes(r)) \in Outcomes
      BY <1>1, FormatsAgree
    <2> HIDE DEF out, values
    <2>3. out.record = r /\ out.text \in Outcomes
      BY <2>1, <2>2
    <2> QED
      BY <2>3 DEF out, SameCall, OthersKept
  <1>3. CASE self.defaults # Py_None
    <2> DEFINE dict == Merged(self.defaults, r.dict)
               s == [r EXCEPT !.dict = dict]
               text == FormatByPython(self, Merged(self.defaults, values))
    <2>1. out = [record |-> s, text |-> text]
      BY <1>3 DEF FormatStyle_format
    <2>2. AreTexts(self.defaults)
      BY <1>3 DEF StyleFits
    <2>3. text \in Outcomes
      BY <1>1, <2>2, MergedTexts, FormatsAgree
    <2>4. AreTexts(dict)
      BY <1>1, <2>2, MergedTexts
    <2>5. /\ RecordFits(s) /\ SameCall(r, s)
          /\ s.excText = r.excText /\ s.dict = dict
      <3> HIDE DEF dict
      <3> QED
        BY <2>4, UpdatedFits
    <2>6. OthersKept(self, r, s)
      <3>1. \A name : Get(dict, name) = IF name \in DOMAIN self.defaults
                                        THEN self.defaults[name] ELSE Get(r.dict, name)
        BY <1>1, <2>2, MergedTexts
      <3> HIDE DEF s, dict
      <3> QED
        BY <1>3, <2>5, <3>1 DEF OthersKept
    <2>7. out.record = s /\ out.text = text
      <3> HIDE DEF out, s, text
      <3> QED
        BY <2>1
    <2> HIDE DEF out, s, text
    <2> QED
      BY <2>3, <2>5, <2>6, <2>7 DEF out
  <1> QED
    BY <1>2, <1>3

(* What Formatter_format makes of a record, part by part.                   *)
Stamped(self, r) ==
    [r EXCEPT !.message = Message(r),
              !.asctime = IF self.usesTime THEN <<<<"time", r.created, self.dateFmt>>>>
                          ELSE @]
Body(self, r) == FormatStyle_format(self.style, Stamped(self, r))
Traced(s) ==
    IF s.excInfo # Py_None /\ s.excText = Py_None
    THEN [s EXCEPT !.excText = Traceback(s.excInfo)] ELSE s
Raises(s) == s.excInfo # Py_None /\ s.excText = Py_None /\ s.excInfo.kind # "tuple"
Lines(text, s) == WithLines(WithLines(text, s.excText), StackLines(s.stackInfo))

LEMMA FormatterParts ==
    ASSUME NEW self, NEW r
    PROVE  Formatter_format(self, r) =
               IF Message(r) = Py_None THEN [record |-> r, text |-> Py_None]
               ELSE IF Body(self, r).text = Py_None THEN Body(self, r)
               ELSE IF Raises(Body(self, r).record)
                    THEN [Body(self, r) EXCEPT !.text = Py_None]
               ELSE [record |-> Traced(Body(self, r).record),
                     text |-> Lines(Body(self, r).text, Traced(Body(self, r).record))]
  BY Zenon DEF Formatter_format, Stamped, Body, Traced, Raises, Lines

LEMMA TimeIsText ==
    ASSUME NEW self, Usable(self), NEW r, RecordFits(r)
    PROVE  LET time == <<<<"time", r.created, self.dateFmt>>>>
           IN  time \in Text /\ time \in Outcomes /\ time # Py_None
  <1>1. /\ "time" \in Optional(Word) /\ r.created \in Optional(Word)
        /\ self.dateFmt \in Optional(Word)
    <2>1. r.created \in {"logged", "prepared"}
      BY DEF RecordFits
    <2>2. "logged" \in Word /\ "prepared" \in Word /\ "time" \in Word
      BY DEF Word
    <2> QED
      BY <2>1, <2>2 DEF Optional, Usable
  <1>2. <<<<"time", r.created, self.dateFmt>>>> \in Text
    BY <1>1, PartsAreTexts, Zenon
  <1> QED
    BY <1>2, FormatStyleAssumption DEF Outcomes, Optional

LEMMA StampedBody ==
    ASSUME NEW self, Usable(self), NEW r, RecordFits(r), Message(r) # Py_None
    PROVE  LET s == Stamped(self, r)
               t == Body(self, r).record
           IN  /\ RecordFits(s) /\ SameCall(r, s)
               /\ s.message = Message(r) /\ s.levelname = r.levelname
               /\ s.asctime = IF self.usesTime
                              THEN <<<<"time", r.created, self.dateFmt>>>> ELSE r.asctime
               /\ s.excText = r.excText /\ s.dict = r.dict
               /\ Body(self, r).text \in Outcomes
               /\ RecordFits(t) /\ SameCall(r, t)
               /\ t.excText = r.excText
               /\ OthersKept(self.style, r, t)
  <1> DEFINE s == Stamped(self, r)
             t == Body(self, r).record
             time == <<<<"time", r.created, self.dateFmt>>>>
             asctime == IF self.usesTime THEN time ELSE r.asctime
  <1>1. Message(r) \in Outcomes /\ r.asctime \in Outcomes
    BY MessageOutcome DEF RecordFits
  <1>2. asctime \in Outcomes
    BY <1>1, TimeIsText
  <1>3. s = StampedWith(r, Message(r), asctime)
    BY DEF Stamped, StampedWith
  <1>4. /\ RecordFits(s) /\ SameCall(r, s)
        /\ s.message = Message(r) /\ s.asctime = asctime
        /\ s.excText = r.excText /\ s.dict = r.dict /\ s.levelname = r.levelname
    <2> HIDE DEF s, asctime
    <2>1. LET u == StampedWith(r, Message(r), asctime)
          IN  /\ RecordFits(u) /\ SameCall(r, u)
              /\ u.message = Message(r) /\ u.asctime = asctime
              /\ u.excText = r.excText /\ u.dict = r.dict /\ u.levelname = r.levelname
      BY <1>1, <1>2, StampedFits
    <2> QED
      BY <1>3, <2>1
  <1>5. /\ Body(self, r).text \in Outcomes
        /\ RecordFits(t) /\ SameCall(s, t) /\ t.excText = s.excText
        /\ OthersKept(self.style, s, t)
    <2>1. StyleFits(self.style)
      BY DEF Usable
    <2>2. Body(self, r) = FormatStyle_format(self.style, s)
      BY DEF Body
    <2> HIDE DEF s
    <2> QED
      BY <1>4, <2>1, <2>2, StyleFormats
  <1>6. SameCall(r, t) /\ OthersKept(self.style, r, t)
    <2> HIDE DEF s, t
    <2> QED
      BY <1>4, <1>5 DEF SameCall, OthersKept
  <1> QED
    <2> HIDE DEF t
    <2> QED
      BY <1>4, <1>5, <1>6 DEF t

LEMMA TracedBody ==
    ASSUME NEW s, RecordFits(s), ~ Raises(s)
    PROVE  /\ RecordFits(Traced(s)) /\ SameCall(s, Traced(s)) /\ Traced(s).dict = s.dict
           /\ Traced(s).excText = IF s.excInfo = Py_None THEN Py_None ELSE Traceback(s.excInfo)
  <1>1. CASE s.excInfo # Py_None /\ s.excText = Py_None
    <2>1. s.excInfo.kind = "tuple"
      BY <1>1 DEF Raises
    <2> QED
      BY <1>1, <2>1, TracedFits DEF Traced
  <1>2. CASE ~ (s.excInfo # Py_None /\ s.excText = Py_None)
    <2>1. Traced(s) = s
      BY <1>2 DEF Traced
    <2>2. s.excText = IF s.excInfo = Py_None THEN Py_None ELSE Traceback(s.excInfo)
      BY <1>2 DEF RecordFits
    <2> QED
      BY <2>1, <2>2 DEF SameCall
  <1> QED
    BY <1>1, <1>2

LEMMA FormatterFormats ==
    ASSUME NEW self, Usable(self), NEW r, RecordFits(r)
    PROVE  LET out == Formatter_format(self, r)
           IN  /\ out.text \in Outcomes
               /\ RecordFits(out.record) /\ SameCall(r, out.record)
               /\ OthersKept(self.style, r, out.record)
  <1> DEFINE out == Formatter_format(self, r)
             body == Body(self, r)
             s == body.record
  <1>1. CASE Message(r) = Py_None
    <2>1. out = [record |-> r, text |-> Py_None]
      BY <1>1, FormatterParts
    <2> HIDE DEF out
    <2>2. out.record = r /\ out.text = Py_None
      BY <2>1
    <2> QED
      BY <2>2 DEF out, SameCall, OthersKept, Outcomes, Optional
  <1>2. CASE Message(r) # Py_None
    <2>1. /\ body.text \in Outcomes /\ RecordFits(s) /\ SameCall(r, s)
          /\ OthersKept(self.style, r, s)
      BY <1>2, StampedBody
    <2>2. CASE body.text = Py_None
      <3>1. out = body
        BY <1>2, <2>2, FormatterParts
      <3> HIDE DEF out, body
      <3> QED
        BY <2>1, <3>1 DEF out
    <2>3. CASE body.text # Py_None /\ Raises(s)
      <3>1. out = [body EXCEPT !.text = Py_None]
        BY <1>2, <2>3, FormatterParts
      <3>2. body = [record |-> s, text |-> body.text]
        BY DEF Body, FormatStyle_format
      <3> HIDE DEF out, body
      <3>3. out.record = s /\ out.text = Py_None
        BY <3>1, <3>2
      <3> QED
        BY <2>1, <3>3 DEF out, Outcomes, Optional
    <2>4. CASE body.text # Py_None /\ ~ Raises(s)
      <3> DEFINE u == Traced(s)
                 text == Lines(body.text, u)
      <3>1. out = [record |-> u, text |-> text]
        BY <1>2, <2>4, FormatterParts
      <3>2. RecordFits(u) /\ SameCall(s, u) /\ u.dict = s.dict
        BY <2>1, <2>4, TracedBody
      <3>3. text \in Text
        <4>1. body.text \in Text
          BY <2>1, <2>4 DEF Outcomes, Optional
        <4>2. u.excText \in Outcomes /\ u.stackInfo \in Optional(Word)
          BY <3>2 DEF RecordFits
        <4> HIDE DEF u, body
        <4> QED
          BY <4>1, <4>2, LinesFit, StackFits DEF Lines
      <3>4. SameCall(r, u) /\ OthersKept(self.style, r, u)
        <4> HIDE DEF u, s
        <4> QED
          BY <2>1, <3>2 DEF SameCall, OthersKept
      <3> HIDE DEF out, u, text
      <3>5. out.record = u /\ out.text = text
        BY <3>1
      <3> QED
        BY <3>2, <3>3, <3>4, <3>5 DEF out, Outcomes, Optional
    <2> QED
      BY <2>2, <2>3, <2>4
  <1> QED
    BY <1>1, <1>2

-----------------------------------------------------------------------------
(* What LogRecord_create and the filters leave of a call.                   *)
OwnParts(r) ==
    /\ ~ r.hasArgs => r.args \in {"()", Py_None}
    /\ r.hasArgs => r.args # Py_None /\ (r.args = "()" => r.msg.takes = "nothing")
    /\ r.filename = Stem[r.pathname]

OwnMessage(r) ==
    IF r.args \in {"()", Py_None} THEN r.msg.text ELSE PyUnicode_Format(r.msg, r.args)

OwnRecord(f, r) ==
    [r EXCEPT !.message = OwnMessage(r), !.levelname = <<<<"level", r.levelno>>>>,
              !.filename = Stem[r.pathname],
              !.asctime = <<<<"time", r.created, f.dateFmt>>>>]

OwnTrace(r) == IF r.excInfo = Py_None THEN Py_None ELSE Traceback(r.excInfo)

OwnBody(f, r) == FormatByPython(f.style, LogRecord_getDict(OwnRecord(f, r)))

LEMMA OwnTextParts ==
    ASSUME NEW f, NEW r
    PROVE  OwnText(f, r) =
               IF OwnMessage(r) = Py_None \/ OwnBody(f, r) = Py_None THEN Py_None
               ELSE IF OwnTrace(r) # Py_None /\ r.excInfo.kind # "tuple" THEN Py_None
               ELSE WithLines(WithLines(OwnBody(f, r), OwnTrace(r)), StackLines(r.stackInfo))
  BY Zenon DEF OwnText, OwnMessage, OwnRecord, OwnTrace, OwnBody

LEMMA MessageIsOwn ==
    ASSUME NEW r, RecordFits(r), OwnParts(r)
    PROVE  Message(r) = OwnMessage(r)
  <1>1. CASE ~ r.hasArgs
    BY <1>1 DEF OwnParts, Message, OwnMessage
  <1>2. CASE r.hasArgs /\ r.args = "()"
    BY <1>2 DEF OwnParts, Message, OwnMessage, PyUnicode_Format
  <1>3. CASE r.hasArgs /\ r.args # "()"
    BY <1>3 DEF OwnParts, Message, OwnMessage
  <1> QED
    BY <1>1, <1>2, <1>3

LEMMA OwnKept ==
    ASSUME NEW r, NEW s, SameCall(r, s)
    PROVE  /\ OwnMessage(s) = OwnMessage(r) /\ OwnTrace(s) = OwnTrace(r)
           /\ OwnParts(r) => OwnParts(s)
  BY DEF SameCall, OwnMessage, OwnTrace, OwnParts

(* The record a Formatter owes the text of is one, and has the slots that   *)
(* the formatter writes.                                                    *)
LEMMA OwnRecordFits ==
    ASSUME NEW self, Usable(self), NEW r, RecordFits(r), OwnParts(r)
    PROVE  LET own == OwnRecord(self, r)
           IN  /\ RecordFits(own) /\ own.dict = r.dict
               /\ own.message = OwnMessage(r) /\ own.levelname = r.levelname
               /\ own.filename = r.filename
               /\ own.asctime = <<<<"time", r.created, self.dateFmt>>>>
  <1> DEFINE time == <<<<"time", r.created, self.dateFmt>>>>
             own == OwnRecord(self, r)
             s == StampedWith(r, OwnMessage(r), time)
  <1>1. OwnMessage(r) \in Outcomes
    BY MessageIsOwn, MessageOutcome
  <1>2. time \in Outcomes
    BY TimeIsText
  <1>3. own = s
    <2>1. r.filename = Stem[r.pathname]
      BY DEF OwnParts
    <2>2. r.levelname = <<<<"level", r.levelno>>>>
      BY DEF RecordFits
    <2> HIDE DEF time
    <2>3. [r EXCEPT !.message = OwnMessage(r), !.levelname = r.levelname,
                    !.filename = r.filename, !.asctime = time]
              = [r EXCEPT !.message = OwnMessage(r), !.asctime = time]
      BY DEF RecordFits
    <2> QED
      BY <2>1, <2>2, <2>3, Zenon DEF OwnRecord, StampedWith, time
  <1>4. /\ RecordFits(s) /\ SameCall(r, s) /\ s.message = OwnMessage(r) /\ s.asctime = time
        /\ s.dict = r.dict /\ s.levelname = r.levelname
    <2> HIDE DEF time
    <2> QED
      BY <1>1, <1>2, StampedFits
  <1> HIDE DEF s, own
  <1>5. own.filename = r.filename
    BY <1>3, <1>4 DEF SameCall
  <1> QED
    BY <1>3, <1>4, <1>5 DEF own

(* Every name that the format asks for has the value that the application   *)
(* gave it.                                                                 *)
LEMMA OwnValue ==
    ASSUME NEW self, Usable(self),
           NEW r, RecordFits(r), OwnParts(r), Message(r) # Py_None,
           NEW t, RecordFits(t), SameCall(r, t), OthersKept(self.style, r, t),
           NEW i \in 1 .. Len(self.style.fmt), Of(self.style.fmt[i], self.style.style),
           ~ Borrowed(self.style.fmt[i]), self.style.fmt[i].kind \in {"field", "padded"}
    PROVE  LET name == self.style.fmt[i].name
               dict == LogRecord_getDict(Stamped(self, r))
           IN  /\ self.style.defaults # Py_None => name \notin DOMAIN self.style.defaults
               /\ Get(dict, name) = Get(LogRecord_getDict(OwnRecord(self, t)), name)
  <1> DEFINE p == self.style.fmt[i]
             name == p.name
             s == Stamped(self, r)
             own == OwnRecord(self, t)
             time == <<<<"time", r.created, self.dateFmt>>>>
  <1>1. name # "exc_text"
    BY DEF Borrowed
  <1>2. self.style.defaults # Py_None => name \notin DOMAIN self.style.defaults
    BY DEF Borrowed, Usable
  <1>3. /\ RecordFits(s) /\ SameCall(r, s)
        /\ s.message = Message(r) /\ s.levelname = r.levelname
        /\ s.asctime = IF self.usesTime THEN time ELSE r.asctime
        /\ s.dict = r.dict
    BY StampedBody
  <1>4. /\ own.dict = t.dict /\ own.message = OwnMessage(r) /\ own.levelname = r.levelname
        /\ own.filename = r.filename /\ own.asctime = time
    <2>1. OwnParts(t) /\ OwnMessage(t) = OwnMessage(r)
      BY OwnKept
    <2>2. t.levelname = r.levelname /\ t.filename = r.filename /\ t.created = r.created
      BY DEF SameCall, RecordFits
    <2>3. /\ own.dict = t.dict /\ own.message = OwnMessage(t) /\ own.levelname = t.levelname
          /\ own.filename = t.filename
          /\ own.asctime = <<<<"time", t.created, self.dateFmt>>>>
      BY <2>1, OwnRecordFits
    <2> HIDE DEF own
    <2> QED
      BY <2>1, <2>2, <2>3
  <1>5. Get(t.dict, name) = Get(r.dict, name)
    BY <1>2 DEF OthersKept
  <1>6. Str(s.message) = Str(own.message)
    <2>1. Message(r) = OwnMessage(r)
      BY MessageIsOwn
    <2> HIDE DEF s, own
    <2> QED
      BY <1>3, <1>4, <2>1
  <1>7. s.levelname = own.levelname /\ s.filename = own.filename
    <2> HIDE DEF s, own
    <2> QED
      BY <1>3, <1>4 DEF SameCall
  <1>8. ASSUME name = "asctime" PROVE Str(s.asctime) = Str(own.asctime)
    <2>1. p \in Piece /\ p.style = self.style.style /\ p.kind # "text"
      BY ElementOfSeq DEF Usable, StyleFits, Of
    <2>2. p.style \in Styles
      BY <2>1, PieceParts
    <2>3. ~ self.style.usesDefaultFmt
      <3>1. default_fmt[1].name = "message" /\ Len(default_fmt) = 1
        <4>1. \A q : <<q>>[1] = q /\ Len(<<q>>) = 1
          OBVIOUS
        <4> QED
          BY <4>1, Zenon DEF default_fmt, Field, PieceOf
      <3>2. ASSUME self.style.fmt = default_fmt PROVE i = 1
        <4>1. Len(self.style.fmt) = 1
          BY <3>1, <3>2, Zenon
        <4> QED
          BY <4>1
      <3> QED
        BY <1>8, <3>1, <3>2 DEF Usable
    <2>4. p.kind = "field" \/ (p.kind = "padded" /\ p.style = "%")
      <3>1. ~ (p.kind = "padded" /\ p.style = "{")
        BY <1>8 DEF Borrowed
      <3> HIDE DEF p
      <3> QED
        BY <2>2, <3>1 DEF Styles, p
    <2>5. self.usesTime
      BY <1>8, <2>1, <2>3, <2>4 DEF Usable, UsesTime
    <2> HIDE DEF s, own
    <2> QED
      BY <1>3, <1>4, <2>5
  <1>9. name \in SlotNames => Slot(s, name) = Slot(own, name)
    <2> HIDE DEF s, own, name
    <2>1. CASE name = "message"
      BY <1>6, <2>1 DEF Slot
    <2>2. CASE name = "asctime"
      BY <1>8, <2>2 DEF Slot
    <2>3. CASE name \in {"levelname", "filename"}
      BY <1>7, <2>3 DEF Slot
    <2>4. CASE name \notin {"message", "asctime", "levelname", "filename"}
      BY <1>1, <2>4 DEF Slot
    <2> QED
      BY <2>1, <2>2, <2>3, <2>4
  <1>10. Get(LogRecord_getDict(s), name) = Get(LogRecord_getDict(own), name)
    <2> HIDE DEF s, own, name
    <2> QED
      BY <1>3, <1>4, <1>5, <1>9, DictValue
  <1> QED
    BY <1>2, <1>10

(* What Python writes of a value that the fragments write as Python does.   *)
LEMMA AlikeWrites ==
    ASSUME NEW p, Alike(p), NEW r
    PROVE  LET text == Get(LogRecord_getDict(r), p.name)
           IN  Converted(text, p.conversion) = text
  <1> DEFINE text == Get(LogRecord_getDict(r), p.name)
  <1>1. CASE p.conversion = "s"
    BY <1>1 DEF Converted
  <1>2. CASE p.conversion = "d" /\ p.name \in IntegerSlots
    <2>1. text = <<<<"integer", p.name>>>>
      <3>1. p.name \in SlotNames
        BY <1>2 DEF IntegerSlots, SlotNames, field_map
      <3>2. Slot(r, p.name) = <<<<"integer", p.name>>>>
        <4>1. /\ p.name \notin {"message", "asctime", "exc_text", "levelname", "filename"}
              /\ p.name \notin FloatSlots
          BY <1>2 DEF IntegerSlots, FloatSlots
        <4> QED
          BY <1>2, <4>1 DEF Slot
      <3> QED
        BY <3>1, <3>2, DictValue
    <2>2. IsInteger(text)
      BY <1>2, <2>1, Zenon DEF IsInteger
    <2> QED
      BY <1>2, <2>2 DEF Converted
  <1> QED
    BY <1>1, <1>2 DEF Alike

LEMMA BodyIsOwn ==
    ASSUME NEW self, Usable(self), ~ Shared(self),
           NEW r, RecordFits(r), OwnParts(r), Message(r) # Py_None,
           NEW t, RecordFits(t), SameCall(r, t), OthersKept(self.style, r, t)
    PROVE  Body(self, r).text = OwnBody(self, t)
  <1> DEFINE style == self.style
             s == Stamped(self, r)
             dict == LogRecord_getDict(s)
             own == LogRecord_getDict(OwnRecord(self, t))
  <1>1. OwnBody(self, t) = FormatByPython(style, own)
    BY DEF OwnBody
  <1>2. /\ StyleFits(style) /\ style.fmt \in Seq(Piece)
        /\ RecordFits(s) /\ RecordFits(OwnRecord(self, t))
    <2>1. OwnParts(t)
      BY OwnKept
    <2> QED
      BY <2>1, StampedBody, OwnRecordFits DEF Usable, StyleFits
  <1>3. AreTexts(dict) /\ AreTexts(Attributes(s)) /\ AreTexts(own)
    BY <1>2, DictTexts
  <1>4. ASSUME NEW i \in 1 .. Len(style.fmt), Of(style.fmt[i], style.style)
        PROVE  ~ Borrowed(style.fmt[i]) /\ (style.defaults = Py_None => Alike(style.fmt[i]))
    <2>1. style.fmt[i] \in PiecesOf(self)
      <3>1. DOMAIN style.fmt = 1 .. Len(style.fmt)
        BY <1>2, LenProperties
      <3> QED
        BY <1>4, <3>1 DEF PiecesOf, Range
    <2> QED
      BY <2>1, Zenon DEF Shared
  <1>5. ASSUME NEW i \in 1 .. Len(style.fmt), Of(style.fmt[i], style.style),
               style.fmt[i].kind \in {"field", "padded"}
        PROVE  /\ style.defaults # Py_None =>
                      style.fmt[i].name \notin DOMAIN style.defaults
               /\ Get(dict, style.fmt[i].name) = Get(own, style.fmt[i].name)
    BY <1>4, <1>5, OwnValue
  <1>6. CASE style.defaults = Py_None
    <2> DEFINE attributes == Attributes(s)
    <2>1. Body(self, r).text = FormatFragments(style, attributes)
      BY <1>6 DEF Body, FormatStyle_format
    <2>2. Alikes(style.fmt, style.style, attributes, own)
      <3>1. ASSUME NEW i \in 1 .. Len(style.fmt), Of(style.fmt[i], style.style)
            PROVE  /\ style.fmt[i].kind = "field"
                   /\ Converted(Get(own, style.fmt[i].name), style.fmt[i].conversion)
                          = Get(attributes, style.fmt[i].name)
        <4> DEFINE p == style.fmt[i]
        <4>1. Alike(p)
          BY <1>4, <1>6, <3>1
        <4>2. p.kind = "field" /\ p.name \notin {"funcname", "msecs"}
          BY <4>1 DEF Alike
        <4>3. Get(attributes, p.name) = Get(dict, p.name)
          BY <1>2, <4>2, DictTexts
        <4>4. Get(dict, p.name) = Get(own, p.name)
          BY <1>5, <3>1, <4>2
        <4>5. Converted(Get(own, p.name), p.conversion) = Get(own, p.name)
          BY <4>1, AlikeWrites
        <4> HIDE DEF p, attributes, dict, own
        <4> QED
          BY <4>2, <4>3, <4>4, <4>5 DEF p
      <3> HIDE DEF attributes, own, style
      <3> QED
        BY <3>1 DEF Alikes
    <2>3. FormatFragments(style, attributes) = FormatByPython(style, own)
      <3> HIDE DEF style, attributes, own
      <3> QED
        BY <1>2, <1>3, <2>2, FormatsAgree DEF attributes
    <2> QED
      BY <1>1, <2>1, <2>3
  <1>7. CASE style.defaults # Py_None
    <2> DEFINE values == Merged(style.defaults, dict)
    <2>1. Body(self, r).text = FormatByPython(style, values)
      BY <1>7 DEF Body, FormatStyle_format
    <2>2. \A n : n \notin DOMAIN style.defaults => Get(values, n) = Get(dict, n)
      BY DEF Merged, Get
    <2>3. FormatByPython(style, values) = FormatByPython(style, own)
      <3>1. \A i \in 1 .. Len(style.fmt) :
               Of(style.fmt[i], style.style) /\ style.fmt[i].kind \in {"field", "padded"} =>
                   Get(values, style.fmt[i].name) = Get(own, style.fmt[i].name)
        <4> HIDE DEF values, dict, own
        <4> QED
          BY <1>5, <1>7, <2>2
      <3> HIDE DEF style, values, own
      <3> QED
        BY <1>2, <3>1, SameValues
    <2> QED
      BY <1>1, <2>1, <2>3
  <1> QED
    BY <1>6, <1>7

(* The text that a Formatter makes is the one it owes for the record it     *)
(* leaves.                                                                  *)
LEMMA FormatterWritesOwn ==
    ASSUME NEW self, Usable(self), ~ Shared(self),
           NEW r, RecordFits(r), OwnParts(r)
    PROVE  Formatter_format(self, r).text
               = OwnText(self, Formatter_format(self, r).record)
  <1> DEFINE out == Formatter_format(self, r)
             t == out.record
             body == Body(self, r)
             s == body.record
  <1>1. /\ RecordFits(t) /\ SameCall(r, t) /\ OthersKept(self.style, r, t)
        /\ AreTexts(t.dict)
    BY FormatterFormats DEF RecordFits
  <1>2. OwnMessage(t) = Message(r)
    <2> HIDE DEF t
    <2> QED
      BY <1>1, OwnKept, MessageIsOwn
  <1>3. CASE Message(r) = Py_None
    <2>1. out = [record |-> r, text |-> Py_None]
      BY <1>3, FormatterParts
    <2>2. out.text = Py_None
      <3> HIDE DEF out
      <3> QED
        BY <2>1
    <2> HIDE DEF t
    <2> QED
      BY <1>2, <1>3, <2>2, OwnTextParts DEF t
  <1>4. CASE Message(r) # Py_None
    <2>1. body.text = OwnBody(self, t)
      <3> HIDE DEF t
      <3> QED
        BY <1>1, <1>4, BodyIsOwn
    <2>2. RecordFits(s) /\ SameCall(r, s)
      BY <1>4, StampedBody
    <2>3. CASE body.text = Py_None
      <3>1. out = body
        BY <1>4, <2>3, FormatterParts
      <3>2. out.text = Py_None
        <4> HIDE DEF out, body
        <4> QED
          BY <2>3, <3>1
      <3>3. OwnText(self, t) = Py_None
        <4> HIDE DEF t
        <4> QED
          BY <2>1, <2>3, OwnTextParts
      <3> QED
        BY <3>2, <3>3
    <2>4. CASE body.text # Py_None /\ Raises(s)
      <3>1. out = [body EXCEPT !.text = Py_None]
        BY <1>4, <2>4, FormatterParts
      <3>2. body = [record |-> s, text |-> body.text]
        BY DEF Body, FormatStyle_format
      <3>3. t = s /\ out.text = Py_None
        <4> HIDE DEF out, body
        <4> QED
          BY <3>1, <3>2
      <3>4. s.excInfo # Py_None /\ s.excInfo.kind # "tuple"
        BY <2>4 DEF Raises
      <3>5. OwnTrace(s) # Py_None
        BY <2>2, <3>4, TracebackIsText DEF OwnTrace
      <3>6. OwnText(self, s) = Py_None
        <4> HIDE DEF s
        <4> QED
          BY <3>4, <3>5, OwnTextParts
      <3> QED
        BY <3>3, <3>6
    <2>5. CASE body.text # Py_None /\ ~ Raises(s)
      <3> DEFINE u == Traced(s)
                 text == Lines(body.text, u)
      <3>1. out = [record |-> u, text |-> text]
        BY <1>4, <2>5, FormatterParts
      <3>2. RecordFits(u) /\ SameCall(s, u) /\ u.excText = OwnTrace(s)
        BY <2>2, <2>5, TracedBody DEF OwnTrace
      <3>3. t = u /\ out.text = text
        <4> HIDE DEF out, u, text
        <4> QED
          BY <3>1
      <3>4. OwnTrace(u) = OwnTrace(s) /\ u.excInfo = s.excInfo
        <4> HIDE DEF u, s
        <4> QED
          BY <3>2, OwnKept DEF SameCall
      <3>5. OwnTrace(u) # Py_None => u.excInfo.kind = "tuple"
        <4>1. ASSUME s.excInfo # Py_None PROVE s.excInfo.kind = "tuple"
          BY <2>2, <2>5, <4>1 DEF Raises, RecordFits
        <4> HIDE DEF u, s
        <4> QED
          BY <3>4, <4>1 DEF OwnTrace
      <3>6. OwnMessage(u) # Py_None /\ OwnBody(self, u) = body.text
        <4> HIDE DEF t, u, body
        <4> QED
          BY <1>2, <1>4, <2>1, <3>3
      <3>7. OwnText(self, u) = WithLines(WithLines(body.text, u.excText), StackLines(u.stackInfo))
        <4> HIDE DEF u, body
        <4> QED
          BY <2>5, <3>2, <3>4, <3>5, <3>6, OwnTextParts
      <3> QED
        BY <3>3, <3>7 DEF Lines
    <2> QED
      BY <2>3, <2>4, <2>5
  <1> QED
    BY <1>3, <1>4

(* The default format writes the message.                                   *)
LEMMA OneFieldWrites ==
    ASSUME NEW self, NEW p, self.fmt = <<p>>, p.kind = "field", p.style = self.style,
           p.conversion = "s", NEW v, NEW values, AreTexts(values),
           Get(v, p.name) = Get(values, p.name)
    PROVE  /\ Alikes(self.fmt, self.style, v, values)
           /\ FormatByPython(self, values) = Get(values, p.name)
  <1>1. Len(self.fmt) = 1 /\ self.fmt[1] = p /\ \A i : i \in 1 .. 1 <=> i = 1
    OBVIOUS
  <1>2. Converted(Get(values, p.name), p.conversion) = Get(values, p.name)
    BY DEF Converted
  <1>3. WritePiece(p, self.style, values) = Get(values, p.name)
    BY <1>2 DEF WritePiece, Of
  <1>4. Alikes(self.fmt, self.style, v, values)
    BY <1>1, <1>2 DEF Alikes
  <1>5. [i \in 1 .. Len(self.fmt) |-> WritePiece(self.fmt[i], self.style, values)]
            = <<Get(values, p.name)>>
    BY <1>1, <1>3
  <1>6. Join(<<Get(values, p.name)>>) = Get(values, p.name)
    BY GetOutcome, JoinOne
  <1> QED
    BY <1>5, <1>6, <1>4 DEF FormatByPython

LEMMA PlainWrites ==
    ASSUME NEW self, Usable(self), Plain(self),
           NEW r, RecordFits(r), ~ r.hasArgs, r.excInfo = Py_None,
           StackLines(r.stackInfo) = Py_None
    PROVE  Formatter_format(self, r).text = r.msg.text
  <1> DEFINE style == self.style
             s == Stamped(self, r)
             attributes == Attributes(s)
             dict == LogRecord_getDict(s)
             body == Body(self, r)
             t == body.record
             p == Field("%", "message")
  <1>1. Message(r) = r.msg.text /\ r.msg.text \in Text
    BY DEF Message, RecordFits, Messages
  <1>2. Message(r) # Py_None
    BY <1>1, FormatStyleAssumption
  <1>3. /\ RecordFits(s) /\ s.message = r.msg.text
        /\ RecordFits(t) /\ SameCall(r, t) /\ t.excText = r.excText
    <2>1. /\ RecordFits(s) /\ s.message = Message(r)
          /\ RecordFits(t) /\ SameCall(r, t) /\ t.excText = r.excText
      BY <1>2, StampedBody, ZenonT(30)
    <2> QED
      BY <1>1, <2>1, Zenon
  <1>4. /\ style.fmt = <<p>> /\ p.kind = "field" /\ p.style = style.style
        /\ p.name = "message" /\ p.conversion = "s"
    BY Zenon DEF Plain, default_fmt, Field, PieceOf
  <1>5. style.defaults = Py_None /\ StyleFits(style)
    BY DEF Plain, Usable
  <1>6. /\ AreTexts(dict) /\ AreTexts(attributes) /\ Get(dict, "message") = r.msg.text
        /\ Get(attributes, "message") = Get(dict, "message")
    <2>1. Get(dict, "message") = Str(s.message)
      <3>1. "message" \in SlotNames /\ Slot(s, "message") = Str(s.message)
        BY DEF SlotNames, field_map, IntegerSlots, FloatSlots, Slot
      <3> QED
        BY <3>1, DictValue
    <2>2. Str(s.message) = r.msg.text
      <3> HIDE DEF s
      <3> QED
        BY <1>1, <1>2, <1>3 DEF Str
    <2> QED
      BY <1>3, <2>1, <2>2, DictTexts
  <1>7. body.text = r.msg.text
    <2>1. body.text = FormatFragments(style, attributes)
      BY <1>5 DEF Body, FormatStyle_format
    <2>2. /\ FormatByPython(style, dict) = Get(dict, p.name)
          /\ Alikes(style.fmt, style.style, attributes, dict)
      <3> HIDE DEF style, attributes, dict, p
      <3> QED
        BY <1>4, <1>6, OneFieldWrites
    <2>3. FormatFragments(style, attributes) = FormatByPython(style, dict)
      <3> HIDE DEF style, attributes, dict
      <3> QED
        BY <1>5, <1>6, <2>2, FormatsAgree
    <2> QED
      BY <1>4, <1>6, <2>1, <2>2, <2>3, Zenon
  <1>8. t.excInfo = Py_None /\ t.excText = Py_None /\ t.stackInfo = r.stackInfo
    <2>1. r.excText = Py_None
      BY DEF RecordFits
    <2> HIDE DEF t
    <2> QED
      BY <1>3, <2>1 DEF SameCall
  <1>9. ~ Raises(t) /\ Traced(t) = t
    BY <1>8 DEF Raises, Traced
  <1>10. Lines(body.text, t) = body.text
    BY <1>8 DEF Lines, WithLines
  <1>11. Formatter_format(self, r) = [record |-> t, text |-> body.text]
    <2>1. body.text # Py_None
      BY <1>1, <1>2, <1>7
    <2> QED
      BY <1>2, <1>9, <1>10, <2>1, FormatterParts
  <1> QED
    <2> HIDE DEF t, body
    <2> QED
      BY <1>7, <1>11

-----------------------------------------------------------------------------
(* The type invariant, strengthened by what formatters and records hold.    *)
FormattersFit ==
    /\ DOMAIN formatter = Handlers \cup Listening
    /\ \A h \in DOMAIN formatter : formatter[h] # Py_None => Usable(formatter[h])

RecordsFit == \A r \in {record, queued} \ {Py_None} : RecordFits(r)

TextInv == FormattersFit /\ RecordsFit /\ CacheFits(cache)

LEMMA NewFormatterUsable ==
    ASSUME NEW f, FormatterFits(f),
           f.defaults # Py_None =>
               \E g \in UNION Range(Formatters) : g.defaults = f.defaults
    PROVE  Usable(NewFormatter(f))
  <1> DEFINE self == NewFormatter(f)
             style == NewFormatStyle(f.fmt, f.defaults, f.style)
  <1>1. /\ self.kind = f.kind /\ self.style = style
        /\ self.usesTime = UsesTime(style) /\ self.dateFmt = f.datefmt
    BY DEF NewFormatter
  <1>2. StyleFits(style)
    BY NewStyleFits
  <1>3. style.defaults = f.defaults /\ (style.usesDefaultFmt => style.fmt = default_fmt)
    BY DEF NewFormatStyle
  <1>4. f.kind \in {"Formatter", "FormatStyle"} /\ f.datefmt \in Optional(Word)
    BY DEF FormatterFits
  <1> HIDE DEF self, style
  <1>5. Usable(self)
    BY <1>1, <1>2, <1>3, <1>4 DEF Usable
  <1> QED
    BY <1>5 DEF self

LEMMA GivenUsable ==
    /\ \A h \in Handlers \cup Listening : \A f \in Formatters[h] : Usable(NewFormatter(f))
    /\ Usable(NewFormatter(DefaultFormatter))
  <1>1. ASSUME NEW h \in Handlers \cup Listening, NEW f \in Formatters[h]
        PROVE  Usable(NewFormatter(f))
    <2>1. FormatterFits(f) /\ h \in DOMAIN Formatters
      BY RecordTextAssumption
    <2>2. f \in UNION Range(Formatters)
      BY <2>1 DEF Range
    <2> QED
      BY <2>1, <2>2, NewFormatterUsable
  <1>2. FormatterFits(DefaultFormatter) /\ DefaultFormatter.defaults = Py_None
    <2>1. "%" \in Styles
      BY Zenon DEF Styles
    <2>2. /\ DefaultFormatter.kind = "Formatter" /\ DefaultFormatter.fmt = Py_None
          /\ DefaultFormatter.style = "%" /\ DefaultFormatter.defaults = Py_None
          /\ DefaultFormatter.datefmt = Py_None
      BY Zenon DEF DefaultFormatter
    <2> QED
      BY <2>1, <2>2, Zenon DEF FormatterFits, Optional
  <1> QED
    BY <1>1, <1>2, NewFormatterUsable

LEMMA FormattedFits ==
    ASSUME FormattersFit, NEW h \in Handlers \cup Listening, NEW r, RecordFits(r)
    PROVE  /\ Usable(FormatterOf(h))
           /\ Formatted(h, r).text \in Outcomes
           /\ RecordFits(Formatted(h, r).record) /\ SameCall(r, Formatted(h, r).record)
  <1>1. Usable(FormatterOf(h))
    BY GivenUsable DEF FormattersFit, FormatterOf
  <1> DEFINE self == FormatterOf(h)
  <1>2. CASE self.kind = "Formatter"
    <2>1. Formatted(h, r) = Formatter_format(self, r)
      BY <1>2 DEF Formatted
    <2> HIDE DEF self
    <2>2. Usable(self)
      BY <1>1 DEF self
    <2> QED
      BY <1>1, <2>1, <2>2, FormatterFormats
  <1>3. CASE self.kind # "Formatter"
    <2>1. Formatted(h, r) = FormatStyle_format(self.style, r)
      BY <1>3 DEF Formatted
    <2> HIDE DEF self
    <2>2. StyleFits(self.style)
      BY <1>1 DEF self, Usable
    <2> QED
      BY <1>1, <2>1, <2>2, StyleFormats
  <1> QED
    BY <1>2, <1>3

LEMMA NewFits ==
    ASSUME CacheFits(cache), NEW msg \in Messages,
           NEW args \in {"()", "(value)", "(mapping)", Py_None},
           NEW c, c.levelno \in Word, c.pathname \in Paths,
           NEW exc_info \in ExcInfos({"tuple", "other"}),
           NEW sinfo \in Optional(Word), NEW created \in {"logged", "prepared"}
    PROVE  LET r == New(msg, args, c, exc_info, sinfo, created)
           IN  /\ RecordFits(r)
               /\ r.msg = msg /\ r.args = (IF args = "(mapping)" THEN "mapping" ELSE args)
               /\ r.hasArgs = (args \notin {"()", Py_None})
               /\ r.pathname = c.pathname /\ r.excInfo = exc_info /\ r.stackInfo = sinfo
               /\ \E q \in Paths : Hash[q] = Hash[r.pathname] /\ r.filename = Stem[q]
  <1> DEFINE r == New(msg, args, c, exc_info, sinfo, created)
             filename == Lookup(c.pathname)
             given == IF args = "(mapping)" THEN "mapping" ELSE args
             level == <<<<"level", c.levelno>>>>
             some == args \notin {"()", Py_None}
             nothing == <<>>
  <1>1. PICK q \in Paths : Hash[q] = Hash[c.pathname] /\ filename = Stem[q]
    BY LookupFinds
  <1>2. filename \in Text
    BY <1>1, RecordTextAssumption DEF AreTexts, Paths
  <1>3. r = [msg |-> msg, args |-> given, hasArgs |-> some, levelno |-> c.levelno,
             levelname |-> level, pathname |-> c.pathname, filename |-> filename,
             excInfo |-> exc_info, excText |-> Py_None, stackInfo |-> sinfo,
             message |-> Py_None, asctime |-> Py_None, created |-> created,
             dict |-> nothing]
    BY Zenon DEF New, LogRecord_create
  <1>4. given \in {"()", "(value)", "mapping", Py_None} /\ some \in BOOLEAN
    OBVIOUS
  <1>5. Py_None \in Outcomes /\ AreTexts(nothing)
    BY DEF Outcomes, Optional, AreTexts
  <1> HIDE DEF r, filename, given, level, some, nothing
  <1>6. /\ r.msg = msg /\ r.args = given /\ r.hasArgs = some /\ r.levelno = c.levelno
        /\ r.levelname = level /\ r.pathname = c.pathname /\ r.filename = filename
        /\ r.excInfo = exc_info /\ r.excText = Py_None /\ r.stackInfo = sinfo
        /\ r.dict = nothing
    BY <1>3
  <1>7. RecordFits(r)
    <2>1. r.levelname = <<<<"level", r.levelno>>>>
      BY <1>6 DEF level
    <2>2. r \in [msg : Messages, args : {"()", "(value)", "mapping", Py_None},
                 hasArgs : BOOLEAN, levelno : Word, levelname : {level},
                 pathname : Paths, filename : Text, excInfo : ExcInfos({"tuple", "other"}),
                 excText : Outcomes, stackInfo : Optional(Word), message : Outcomes,
                 asctime : Outcomes, created : {"logged", "prepared"}, dict : {nothing}]
      BY <1>2, <1>3, <1>4, <1>5
    <2>3. level = <<<<"level", r.levelno>>>>
      BY <1>6, <2>1
    <2> QED
      BY <1>5, <1>6, <2>2, <2>3, Zenon DEF RecordFits
  <1>8. \E p \in Paths : Hash[p] = Hash[r.pathname] /\ r.filename = Stem[p]
    BY <1>1, <1>6
  <1> QED
    BY <1>6, <1>7, <1>8 DEF r, given, some

LEMMA CallFitsRecord ==
    ASSUME CacheFits(cache), NEW c \in Calls
    PROVE  /\ c.via = "logger" =>
                 RecordFits(New(c.msg, c.args, c, ExcInfo(c), StackInfo(c), "logged"))
           /\ c.via = "LogRecord" =>
                 RecordFits(New(c.msg, c.args, c, c.exc_info, c.stack_info, "logged"))
           /\ c.pathname \in Paths
  <1>1. CallFits(c)
    BY RecordTextAssumption
  <1>2. /\ c.msg \in Messages /\ c.args \in {"()", "(value)", "(mapping)", Py_None}
        /\ c.levelno \in Word /\ c.pathname \in Paths
        /\ c.handling \in Word /\ c.stack_info \in Optional(Word)
    BY <1>1 DEF CallFits
  <1>3. c.via = "LogRecord" => c.exc_info \in ExcInfos({"tuple", "other"})
    BY <1>1 DEF CallFits
  <1>4. ExcInfo(c) \in ExcInfos({"tuple", "other"})
    <2>1. CASE c.exc_info = Py_None
      BY <2>1 DEF ExcInfo, ExcInfos, Optional
    <2>2. CASE c.exc_info # Py_None
      <3>1. c.exc_info.exception \in Optional(Word)
        BY <1>1, <2>2 DEF CallFits, ExcInfos, Optional
      <3> QED
        BY <1>2, <2>2, <3>1 DEF ExcInfo, ExcInfos, Optional
    <2> QED
      BY <2>1, <2>2
  <1>5. StackInfo(c) \in Optional(Word)
    BY <1>2 DEF StackInfo, Optional, Word
  <1> QED
    BY <1>2, <1>3, <1>4, <1>5, NewFits

LEMMA PreparedFits ==
    ASSUME CacheFits(cache), NEW r, RecordFits(r), NEW text \in Text
    PROVE  LET q == New([text |-> text, takes |-> "nothing"], Py_None, r, Py_None,
                        r.stackInfo, "prepared")
           IN  /\ RecordFits(q) /\ r.pathname \in Paths
               /\ q.msg = [text |-> text, takes |-> "nothing"] /\ q.args = Py_None
               /\ ~ q.hasArgs /\ q.excInfo = Py_None
               /\ \E p \in Paths : Hash[p] = Hash[q.pathname] /\ q.filename = Stem[p]
  <1> DEFINE msg == [text |-> text, takes |-> "nothing"]
             q == New(msg, Py_None, r, Py_None, r.stackInfo, "prepared")
  <1>1. msg \in Messages
    BY DEF Messages
  <1>2. r.levelno \in Word /\ r.pathname \in Paths /\ r.stackInfo \in Optional(Word)
    BY DEF RecordFits
  <1>3. Py_None \in ExcInfos({"tuple", "other"})
    BY DEF ExcInfos, Optional
  <1>4. /\ Py_None \in {"()", "(value)", "(mapping)", Py_None}
        /\ Py_None # "(mapping)" /\ "prepared" \in {"logged", "prepared"}
    BY FormatStyleAssumption DEF Word
  <1> HIDE DEF msg
  <1>5. /\ RecordFits(q)
        /\ q.msg = msg /\ q.args = (IF Py_None = "(mapping)" THEN "mapping" ELSE Py_None)
        /\ q.hasArgs = (Py_None \notin {"()", Py_None})
        /\ q.pathname = r.pathname /\ q.excInfo = Py_None /\ q.stackInfo = r.stackInfo
        /\ \E p \in Paths : Hash[p] = Hash[q.pathname] /\ q.filename = Stem[p]
    BY <1>1, <1>2, <1>3, <1>4, NewFits
  <1> HIDE DEF q
  <1>6. q.args = Py_None /\ ~ q.hasArgs
    BY <1>4, <1>5
  <1> QED
    BY <1>2, <1>5, <1>6, Zenon DEF q, msg

LEMMA RewrittenFits ==
    ASSUME RecordFits(record), NEW w \in Rewrites
    PROVE  RecordFits(Rewritten(w))
  <1>1. RewriteFits(w)
    BY RecordTextAssumption
  <1>2. CASE w.kind = "message"
    <2>1. w.msg \in Messages /\ Rewritten(w) = [record EXCEPT !.msg = w.msg, !.args = "()"]
      BY <1>1, <1>2 DEF RewriteFits, Rewritten
    <2> QED
      BY <2>1 DEF RecordFits
  <1>3. CASE w.kind = "clear"
    <2>1. Rewritten(w) = [record EXCEPT !.args = Py_None]
      BY <1>3 DEF Rewritten
    <2> QED
      BY <2>1 DEF RecordFits
  <1>4. CASE w.kind = "set"
    <2> DEFINE dict == Merged(w.dict, record.dict)
    <2>1. AreTexts(dict)
      BY <1>1, <1>4, MergedTexts DEF RewriteFits, RecordFits
    <2>2. Rewritten(w) = [record EXCEPT !.dict = dict]
      BY <1>4 DEF Rewritten
    <2> HIDE DEF dict
    <2> QED
      BY <2>1, <2>2, UpdatedFits
  <1>5. CASE w.kind = "exception"
    <2>1. /\ w.exc_info \in ExcInfos({"tuple", "other"})
          /\ Rewritten(w) = [record EXCEPT !.excInfo = w.exc_info, !.excText = Py_None]
      BY <1>1, <1>5 DEF RewriteFits, Rewritten
    <2>2. Py_None \in Outcomes
      BY DEF Outcomes, Optional
    <2> QED
      BY <2>1, <2>2 DEF RecordFits
  <1> QED
    BY <1>1, <1>2, <1>3, <1>4, <1>5 DEF RewriteFits

LEMMA TextInvInit == TextInit => TextInv
  <1> SUFFICES ASSUME TextInit PROVE TextInv
    OBVIOUS
  <1>1. FormattersFit
    BY DEF TextInit, FormattersFit
  <1>2. RecordsFit
    BY DEF TextInit, RecordsFit
  <1>3. CacheFits(cache)
    BY EmptySeq DEF TextInit, CacheFits
  <1> QED
    BY <1>1, <1>2, <1>3 DEF TextInv

LEMMA HandlerFormats ==
    ASSUME FormattersFit, NEW h \in Handlers \cup Listening, NEW r, RecordFits(r), NEW of,
           Handler_format(h, r, of)
    PROVE  FormattersFit'
  <1>1. Usable(FormatterOf(h)) /\ formatter' = [formatter EXCEPT ![h] = FormatterOf(h)]
    BY FormattedFits DEF Handler_format
  <1> QED
    BY <1>1 DEF FormattersFit

LEMMA TextInvNext == TextInv /\ [TextNext]_textVars => TextInv'
  <1> SUFFICES ASSUME TextInv, [TextNext]_textVars PROVE TextInv'
    OBVIOUS
  <1>0. /\ FormattersFit /\ RecordsFit /\ CacheFits(cache)
        /\ record # Py_None => RecordFits(record)
        /\ queued # Py_None => RecordFits(queued)
    BY DEF TextInv, RecordsFit
  <1>1. ASSUME NEW c \in Calls, LogCall(c) \/ LogRecord_new(c) PROVE TextInv'
    <2>1. RecordFits(record') /\ cache' = CacheWith(c.pathname) /\ c.pathname \in Paths
      BY <1>0, <1>1, CallFitsRecord DEF LogCall, LogRecord_new
    <2>2. formatter' = formatter /\ queued' = Py_None
      BY <1>1 DEF LogCall, LogRecord_new
    <2>3. CacheFits(cache')
      BY <1>0, <2>1, CacheKept
    <2> QED
      BY <1>0, <2>1, <2>2, <2>3 DEF TextInv, FormattersFit, RecordsFit
  <1>2. ASSUME NEW h \in Handlers \cup Listening, NEW f \in Formatters[h],
               Handler_setFormatter(h, f)
        PROVE  TextInv'
    <2>1. Usable(NewFormatter(f))
      BY GivenUsable
    <2>2. /\ formatter' = [formatter EXCEPT ![h] = NewFormatter(f)]
          /\ UNCHANGED <<record, queued, cache>>
      BY <1>2 DEF Handler_setFormatter
    <2>3. FormattersFit'
      BY <1>0, <2>1, <2>2 DEF FormattersFit
    <2> QED
      BY <1>0, <2>2, <2>3 DEF TextInv, RecordsFit
  <1>3. ASSUME NEW h \in Handlers, Emit(h) PROVE TextInv'
    <2>1. /\ RecordFits(record) /\ Handler_format(h, record, "record")
          /\ record' = Formatted(h, record).record
          /\ UNCHANGED <<queued, cache>>
      BY <1>0, <1>3 DEF Emit
    <2>2. FormattersFit' /\ RecordFits(record')
      BY <1>0, <2>1, HandlerFormats, FormattedFits
    <2> QED
      BY <1>0, <2>1, <2>2 DEF TextInv, RecordsFit
  <1>4. ASSUME NEW h \in Handlers, Prepare(h) PROVE TextInv'
    <2> DEFINE text == Formatted(h, record).text
    <2>1. /\ RecordFits(record) /\ Handler_format(h, record, "record")
          /\ record' = Formatted(h, record).record
      BY <1>0, <1>4 DEF Prepare
    <2>2. FormattersFit' /\ RecordFits(record') /\ text \in Outcomes
      BY <1>0, <2>1, HandlerFormats, FormattedFits
    <2>3. CASE text = Py_None
      <3>1. UNCHANGED <<queued, cache>>
        BY <1>4, <2>3 DEF Prepare
      <3> QED
        BY <1>0, <2>2, <3>1 DEF TextInv, RecordsFit
    <2>4. CASE text # Py_None
      <3>1. /\ queued' = New([text |-> text, takes |-> "nothing"], Py_None, record,
                             Py_None, record.stackInfo, "prepared")
            /\ cache' = CacheWith(record.pathname)
        BY <1>4, <2>4 DEF Prepare
      <3>2. text \in Text
        BY <2>2, <2>4 DEF Outcomes, Optional
      <3>3. RecordFits(queued') /\ record.pathname \in Paths
        BY <1>0, <2>1, <3>1, <3>2, PreparedFits
      <3>4. CacheFits(cache')
        BY <1>0, <3>1, <3>3, CacheKept
      <3> QED
        BY <2>2, <3>3, <3>4 DEF TextInv, RecordsFit
    <2> QED
      BY <2>3, <2>4
  <1>5. ASSUME NEW h \in Listening, Listen(h) PROVE TextInv'
    <2>1. /\ RecordFits(queued) /\ Handler_format(h, queued, "queued")
          /\ queued' = Formatted(h, queued).record
          /\ UNCHANGED <<record, cache>>
      BY <1>0, <1>5 DEF Listen
    <2>2. FormattersFit' /\ RecordFits(queued')
      BY <1>0, <2>1, HandlerFormats, FormattedFits
    <2> QED
      BY <1>0, <2>1, <2>2 DEF TextInv, RecordsFit
  <1>6. ASSUME NEW w \in Rewrites, Rewrite(w) PROVE TextInv'
    <2>1. RecordFits(record) /\ record' = Rewritten(w) /\ UNCHANGED <<formatter, queued, cache>>
      BY <1>0, <1>6 DEF Rewrite
    <2>2. RecordFits(record')
      BY <2>1, RewrittenFits
    <2> QED
      BY <1>0, <2>1, <2>2 DEF TextInv, FormattersFit, RecordsFit
  <1>7. CASE UNCHANGED textVars
    BY <1>0, <1>7 DEF TextInv, FormattersFit, RecordsFit, textVars
  <1> QED
    BY <1>1, <1>2, <1>3, <1>4, <1>5, <1>6, <1>7 DEF TextNext

LEMMA TextInvType == TextInv => TextTypeOK
  <1> SUFFICES ASSUME TextInv PROVE TextTypeOK
    OBVIOUS
  <1>1. ASSUME NEW h \in DOMAIN formatter, formatter[h] # Py_None
        PROVE  /\ formatter[h].kind \in {"Formatter", "FormatStyle"}
               /\ Len(formatter[h].style.fragments) = formatter[h].style.size
    BY <1>1 DEF TextInv, FormattersFit, Usable, StyleFits
  <1>2. ASSUME NEW r \in {record, queued} \ {Py_None}
        PROVE  /\ r.args \in {"()", "(value)", "mapping", Py_None} /\ r.hasArgs \in BOOLEAN
               /\ r.excInfo # Py_None => r.excInfo.kind \in {"tuple", "other"}
               /\ r.created \in {"logged", "prepared"}
    <2>1. RecordFits(r)
      BY DEF TextInv, RecordsFit
    <2> QED
      BY <2>1, TracebackIsText DEF RecordFits
  <1>3. \A i, j \in 1 .. Len(cache) : cache[i][1] = cache[j][1] => i = j
    BY DEF TextInv, CacheFits
  <1> QED
    BY <1>1, <1>2, <1>3 DEF TextTypeOK

(* FormatStyle_init fills in exactly the fragments that FormatStyle_new     *)
(* allocated, for every format, style and defaults, records keep the values *)
(* that C code reads unchecked, and no hash is in the cache twice           *)
(* (formatstyle.cxx:108, 371; logger.cxx:287; filepathcache.cxx:6).         *)
THEOREM TextTypeCorrect == TextSpec => []TextTypeOK
  <1>1. TextSpec => []TextInv
    BY TextInvInit, TextInvNext, PTL DEF TextSpec
  <1> QED
    BY <1>1, TextInvType, PTL

(* The same, with what formatters and records hold.                         *)
THEOREM TextInvariant == TextSpec => []TextInv
  BY TextInvInit, TextInvNext, PTL DEF TextSpec

-----------------------------------------------------------------------------
(* What a QueueHandler queued is a message with no arguments and no         *)
(* exception beside it, the text it was made of.                            *)
QueuedFits ==
    queued # Py_None =>
        /\ sent \in Text /\ queued.msg.text = sent
        /\ ~ queued.hasArgs /\ queued.excInfo = Py_None

ArrivalInv == TextInv /\ QueuedFits /\ QueuedArrivesOnce

LEMMA ArrivalInit == TextInit => ArrivalInv
  <1> SUFFICES ASSUME TextInit PROVE ArrivalInv
    OBVIOUS
  <1>1. queued = Py_None /\ last.of = "nothing"
    BY DEF TextInit, NoText
  <1> QED
    BY <1>1, TextInvInit DEF ArrivalInv, QueuedFits, QueuedArrivesOnce

LEMMA ArrivalNext == ArrivalInv /\ [TextNext]_textVars => ArrivalInv'
  <1> SUFFICES ASSUME ArrivalInv, [TextNext]_textVars PROVE ArrivalInv'
    OBVIOUS
  <1>0. /\ FormattersFit /\ RecordsFit /\ CacheFits(cache) /\ TextInv
        /\ record # Py_None => RecordFits(record)
        /\ queued # Py_None => RecordFits(queued)
        /\ QueuedFits /\ QueuedArrivesOnce
    BY DEF ArrivalInv, TextInv, RecordsFit
  <1>1. TextInv'
    BY <1>0, TextInvNext
  <1>2. SUFFICES QueuedFits' /\ QueuedArrivesOnce'
    BY <1>1 DEF ArrivalInv
  <1>3. ASSUME NEW c \in Calls, LogCall(c) \/ LogRecord_new(c)
        PROVE  QueuedFits' /\ QueuedArrivesOnce'
    <2>1. queued' = Py_None /\ last'.of = "nothing"
      BY <1>3 DEF LogCall, LogRecord_new, NoText
    <2> QED
      BY <2>1 DEF QueuedFits, QueuedArrivesOnce
  <1>4. ASSUME NEW h \in Handlers \cup Listening, NEW f \in Formatters[h],
               Handler_setFormatter(h, f)
        PROVE  QueuedFits' /\ QueuedArrivesOnce'
    <2>1. UNCHANGED <<queued, sent>> /\ last'.of = "nothing"
      BY <1>4 DEF Handler_setFormatter, NoText
    <2> QED
      BY <1>0, <2>1 DEF QueuedFits, QueuedArrivesOnce
  <1>5. ASSUME NEW h \in Handlers, Emit(h) PROVE QueuedFits' /\ QueuedArrivesOnce'
    <2>1. UNCHANGED <<queued, sent>> /\ last'.of = "record"
      BY <1>5 DEF Emit, Handler_format
    <2> QED
      BY <1>0, <2>1 DEF QueuedFits, QueuedArrivesOnce
  <1>6. ASSUME NEW h \in Handlers, Prepare(h) PROVE QueuedFits' /\ QueuedArrivesOnce'
    <2> DEFINE text == Formatted(h, record).text
    <2>1. last'.of = "record" /\ RecordFits(record)
      BY <1>0, <1>6 DEF Prepare, Handler_format
    <2>2. QueuedArrivesOnce'
      BY <2>1 DEF QueuedArrivesOnce
    <2>3. CASE text = Py_None
      <3>1. UNCHANGED <<queued, sent>>
        BY <1>6, <2>3 DEF Prepare
      <3> QED
        BY <1>0, <2>2, <3>1 DEF QueuedFits
    <2>4. CASE text # Py_None
      <3>1. /\ queued' = New([text |-> text, takes |-> "nothing"], Py_None, record,
                             Py_None, record.stackInfo, "prepared")
            /\ sent' = text
        BY <1>6, <2>4 DEF Prepare
      <3>2. text \in Text
        BY <1>0, <2>1, <2>4, FormattedFits DEF Outcomes, Optional
      <3>3. /\ queued'.msg = [text |-> text, takes |-> "nothing"]
            /\ ~ queued'.hasArgs /\ queued'.excInfo = Py_None
        BY <1>0, <2>1, <3>1, <3>2, PreparedFits
      <3>4. queued'.msg.text = text
        BY <3>3
      <3> QED
        BY <2>2, <3>1, <3>2, <3>3, <3>4 DEF QueuedFits
    <2> QED
      BY <2>3, <2>4
  <1>7. ASSUME NEW h \in Listening, Listen(h) PROVE QueuedFits' /\ QueuedArrivesOnce'
    <2> DEFINE self == FormatterOf(h)
    <2>1. /\ queued # Py_None /\ RecordFits(queued) /\ Handler_format(h, queued, "queued")
          /\ queued' = Formatted(h, queued).record /\ sent' = sent
      BY <1>0, <1>7 DEF Listen
    <2>2. SameCall(queued, queued') /\ Usable(self)
      BY <1>0, <2>1, FormattedFits
    <2>3. QueuedFits'
      BY <1>0, <2>1, <2>2 DEF QueuedFits, SameCall
    <2>4. last'.text = Formatted(h, queued).text /\ last'.formatter = self
      BY <2>1 DEF Handler_format
    <2>5. ASSUME Plain(self), StackLines(queued'.stackInfo) = Py_None
          PROVE  Formatted(h, queued).text = sent
      <3>1. Formatted(h, queued) = Formatter_format(self, queued)
        BY <2>5 DEF Formatted, Plain
      <3>2. StackLines(queued.stackInfo) = Py_None
        BY <2>2, <2>5 DEF SameCall
      <3>3. ~ queued.hasArgs /\ queued.excInfo = Py_None /\ queued.msg.text = sent
        BY <1>0, <2>1 DEF QueuedFits
      <3> HIDE DEF self
      <3> QED
        BY <2>1, <2>2, <2>5, <3>1, <3>2, <3>3, PlainWrites
    <2> HIDE DEF self
    <2> QED
      BY <2>1, <2>3, <2>4, <2>5 DEF QueuedArrivesOnce
  <1>8. ASSUME NEW w \in Rewrites, Rewrite(w) PROVE QueuedFits' /\ QueuedArrivesOnce'
    <2>1. UNCHANGED <<queued, sent>> /\ last'.of = "nothing"
      BY <1>8 DEF Rewrite, NoText
    <2> QED
      BY <1>0, <2>1 DEF QueuedFits, QueuedArrivesOnce
  <1>9. CASE UNCHANGED textVars
    BY <1>0, <1>9 DEF QueuedFits, QueuedArrivesOnce, textVars
  <1> QED
    BY <1>3, <1>4, <1>5, <1>6, <1>7, <1>8, <1>9 DEF TextNext

(* What a QueueHandler formatted arrives once, and as it was, in what the   *)
(* listener's handlers write, whatever else was formatted before            *)
(* (handlers.py:570).                                                       *)
THEOREM TextArrivesOnce == TextSpec => []QueuedArrivesOnce
  <1>1. ArrivalInv => QueuedArrivesOnce
    BY DEF ArrivalInv
  <1> QED
    BY <1>1, ArrivalInit, ArrivalNext, PTL DEF TextSpec

-----------------------------------------------------------------------------
(* Filters neither set args to None nor, for a message that still has       *)
(* arguments to format, a message that wants some: LogRecord_writeMessage   *)
(* goes by whether the record had arguments at first (logrecord.cxx:245).   *)
FiltersKeepMessages ==
    \A w \in Rewrites : w.kind # "clear" /\ (w.kind = "message" => w.msg.takes = "nothing")

(* No two paths of the same hash have different names: FilepathCache        *)
(* compares hashes, not paths (filepathcache.cxx:6).                        *)
HashesApart == \A p, q \in Paths : Hash[p] = Hash[q] => Stem[p] = Stem[q]

PartsOwn == \A r \in {record, queued} \ {Py_None} : OwnParts(r)

OwnInv == TextInv /\ PartsOwn /\ TextIsOwn

LEMMA OwnInit == TextInit => OwnInv
  <1> SUFFICES ASSUME TextInit PROVE OwnInv
    OBVIOUS
  <1>1. queued = Py_None /\ record = Py_None /\ last.of = "nothing"
    BY DEF TextInit, NoText
  <1> QED
    BY <1>1, TextInvInit DEF OwnInv, PartsOwn, TextIsOwn

(* What a handler has formatted is its own text for the record it leaves.   *)
LEMMA FormattedIsOwn ==
    ASSUME FormattersFit, NEW h \in Handlers \cup Listening,
           NEW r, RecordFits(r), OwnParts(r)
    PROVE  /\ OwnParts(Formatted(h, r).record)
           /\ FormatterOf(h).kind = "Formatter" /\ ~ Shared(FormatterOf(h)) =>
                 Formatted(h, r).text = OwnText(FormatterOf(h), Formatted(h, r).record)
  <1>1. Usable(FormatterOf(h)) /\ SameCall(r, Formatted(h, r).record)
    BY FormattedFits
  <1>2. OwnParts(Formatted(h, r).record)
    BY <1>1, OwnKept
  <1>3. ASSUME FormatterOf(h).kind = "Formatter", ~ Shared(FormatterOf(h))
        PROVE  Formatted(h, r).text = OwnText(FormatterOf(h), Formatted(h, r).record)
    <2>1. Formatted(h, r) = Formatter_format(FormatterOf(h), r)
      BY <1>3 DEF Formatted
    <2> QED
      BY <1>1, <1>3, <2>1, FormatterWritesOwn
  <1> QED
    BY <1>2, <1>3

LEMMA RewrittenKeeps ==
    ASSUME RecordFits(record), NEW w, w.kind \in {"set", "exception"}
    PROVE  LET r == Rewritten(w)
           IN  /\ r.args = record.args /\ r.msg = record.msg /\ r.hasArgs = record.hasArgs
               /\ r.filename = record.filename /\ r.pathname = record.pathname
  BY DEF RecordFits, Rewritten

LEMMA CallIsOwn ==
    ASSUME HashesApart, CacheFits(cache), NEW c \in Calls
    PROVE  /\ c.via = "logger" =>
                 OwnParts(New(c.msg, c.args, c, ExcInfo(c), StackInfo(c), "logged"))
           /\ c.via = "LogRecord" =>
                 OwnParts(New(c.msg, c.args, c, c.exc_info, c.stack_info, "logged"))
  <1>1. c.args \in {"()", "(value)", "(mapping)", Py_None} /\ c.pathname \in Paths
    BY RecordTextAssumption DEF CallFits
  <1>2. Lookup(c.pathname) = Stem[c.pathname]
    BY <1>1, LookupFinds DEF HashesApart
  <1>3. ASSUME NEW msg, NEW exc_info, NEW sinfo, NEW created
        PROVE  OwnParts(New(msg, c.args, c, exc_info, sinfo, created))
    <2> DEFINE r == New(msg, c.args, c, exc_info, sinfo, created)
    <2>1. /\ r.args = (IF c.args = "(mapping)" THEN "mapping" ELSE c.args)
          /\ r.hasArgs <=> c.args \notin {"()", Py_None}
          /\ r.pathname = c.pathname /\ r.filename = Lookup(c.pathname)
      BY DEF New, LogRecord_create
    <2>2. Py_None # "mapping" /\ Py_None # "(mapping)"
      BY FormatStyleAssumption DEF Word
    <2> HIDE DEF r
    <2>3. OwnParts(r)
      BY <1>1, <1>2, <2>1, <2>2 DEF OwnParts
    <2> QED
      BY <2>3 DEF r
  <1> QED
    BY <1>3

LEMMA RewrittenIsOwn ==
    ASSUME FiltersKeepMessages, RecordFits(record), OwnParts(record), NEW w \in Rewrites
    PROVE  OwnParts(Rewritten(w))
  <1>1. /\ w.kind \in {"message", "set", "exception"}
        /\ w.kind = "message" => w.msg.takes = "nothing"
    BY RecordTextAssumption DEF RewriteFits, FiltersKeepMessages
  <1>2. CASE w.kind = "message"
    <2>1. Rewritten(w) = [record EXCEPT !.msg = w.msg, !.args = "()"]
      BY <1>2 DEF Rewritten
    <2>2. "()" # Py_None
      BY FormatStyleAssumption DEF Word
    <2> HIDE DEF Rewritten
    <2>3. /\ Rewritten(w).args = "()" /\ Rewritten(w).msg = w.msg
          /\ Rewritten(w).hasArgs = record.hasArgs
          /\ Rewritten(w).filename = record.filename
          /\ Rewritten(w).pathname = record.pathname
      BY <2>1 DEF RecordFits
    <2> QED
      BY <1>1, <1>2, <2>2, <2>3 DEF OwnParts
  <1>3. CASE w.kind = "set"
    BY <1>3, RewrittenKeeps DEF OwnParts
  <1>4. CASE w.kind = "exception"
    BY <1>4, RewrittenKeeps DEF OwnParts
  <1> QED
    BY <1>1, <1>2, <1>3, <1>4

LEMMA OwnNext ==
    ASSUME FiltersKeepMessages, HashesApart
    PROVE  OwnInv /\ [TextNext]_textVars => OwnInv'
  <1> SUFFICES ASSUME OwnInv, [TextNext]_textVars PROVE OwnInv'
    OBVIOUS
  <1>0. /\ FormattersFit /\ RecordsFit /\ CacheFits(cache) /\ TextInv
        /\ record # Py_None => RecordFits(record) /\ OwnParts(record)
        /\ queued # Py_None => RecordFits(queued) /\ OwnParts(queued)
        /\ PartsOwn /\ TextIsOwn
    BY DEF OwnInv, TextInv, RecordsFit, PartsOwn
  <1>1. TextInv'
    BY <1>0, TextInvNext
  <1>2. SUFFICES PartsOwn' /\ TextIsOwn'
    BY <1>1 DEF OwnInv
  <1>3. ASSUME NEW c \in Calls, LogCall(c) \/ LogRecord_new(c) PROVE PartsOwn' /\ TextIsOwn'
    <2>1. queued' = Py_None /\ last'.of = "nothing"
      BY <1>3 DEF LogCall, LogRecord_new, NoText
    <2>2. OwnParts(record')
      BY <1>0, <1>3, CallIsOwn DEF LogCall, LogRecord_new
    <2> QED
      BY <2>1, <2>2 DEF PartsOwn, TextIsOwn
  <1>4. ASSUME NEW h \in Handlers \cup Listening, NEW f \in Formatters[h],
               Handler_setFormatter(h, f)
        PROVE  PartsOwn' /\ TextIsOwn'
    <2>1. UNCHANGED <<record, queued>> /\ last'.of = "nothing"
      BY <1>4 DEF Handler_setFormatter, NoText
    <2> QED
      BY <1>0, <2>1 DEF PartsOwn, TextIsOwn
  <1>5. ASSUME NEW h \in Handlers, Emit(h) PROVE PartsOwn' /\ TextIsOwn'
    <2>1. /\ RecordFits(record) /\ OwnParts(record) /\ queued' = queued
          /\ record' = Formatted(h, record).record
      BY <1>0, <1>5 DEF Emit
    <2>2. /\ last'.of = "record" /\ last'.text = Formatted(h, record).text
          /\ last'.formatter = FormatterOf(h)
      BY <1>5 DEF Emit, Handler_format
    <2> QED
      BY <1>0, <2>1, <2>2, FormattedIsOwn DEF PartsOwn, TextIsOwn, LastIsOwn
  <1>6. ASSUME NEW h \in Handlers, Prepare(h) PROVE PartsOwn' /\ TextIsOwn'
    <2> DEFINE text == Formatted(h, record).text
    <2>1. /\ RecordFits(record) /\ OwnParts(record)
          /\ record' = Formatted(h, record).record
      BY <1>0, <1>6 DEF Prepare
    <2>2. /\ last'.of = "record" /\ last'.text = text
          /\ last'.formatter = FormatterOf(h)
      BY <1>6 DEF Prepare, Handler_format
    <2>3. OwnParts(record') /\ TextIsOwn'
      BY <1>0, <2>1, <2>2, FormattedIsOwn DEF TextIsOwn, LastIsOwn
    <2>4. CASE text = Py_None
      <3>1. queued' = queued
        BY <1>6, <2>4 DEF Prepare
      <3> QED
        BY <1>0, <2>3, <3>1 DEF PartsOwn
    <2>5. CASE text # Py_None
      <3>1. queued' = New([text |-> text, takes |-> "nothing"], Py_None, record,
                          Py_None, record.stackInfo, "prepared")
        BY <1>6, <2>5 DEF Prepare
      <3>2. text \in Text
        BY <1>0, <2>1, <2>5, FormattedFits DEF Outcomes, Optional
      <3>3. /\ queued'.args = Py_None /\ ~ queued'.hasArgs /\ queued'.pathname \in Paths
            /\ \E p \in Paths : Hash[p] = Hash[queued'.pathname] /\ queued'.filename = Stem[p]
        <4>1. /\ RecordFits(queued') /\ queued'.args = Py_None /\ ~ queued'.hasArgs
              /\ \E p \in Paths : Hash[p] = Hash[queued'.pathname] /\ queued'.filename = Stem[p]
          BY <1>0, <2>1, <3>1, <3>2, PreparedFits
        <4>2. queued'.pathname \in Paths
          BY <4>1 DEF RecordFits
        <4> QED
          BY <4>1, <4>2
      <3>4. OwnParts(queued')
        BY <3>3 DEF OwnParts, HashesApart
      <3> QED
        BY <2>3, <3>4 DEF PartsOwn
    <2> QED
      BY <2>4, <2>5
  <1>7. ASSUME NEW h \in Listening, Listen(h) PROVE PartsOwn' /\ TextIsOwn'
    <2>1. /\ RecordFits(queued) /\ OwnParts(queued) /\ record' = record
          /\ queued' = Formatted(h, queued).record
      BY <1>0, <1>7 DEF Listen
    <2>2. /\ last'.of = "queued" /\ last'.text = Formatted(h, queued).text
          /\ last'.formatter = FormatterOf(h)
      BY <1>7 DEF Listen, Handler_format
    <2> QED
      BY <1>0, <2>1, <2>2, FormattedIsOwn DEF PartsOwn, TextIsOwn, LastIsOwn
  <1>8. ASSUME NEW w \in Rewrites, Rewrite(w) PROVE PartsOwn' /\ TextIsOwn'
    <2>1. /\ RecordFits(record) /\ OwnParts(record) /\ record' = Rewritten(w)
          /\ queued' = queued /\ last'.of = "nothing"
      BY <1>0, <1>8 DEF Rewrite, NoText
    <2>2. OwnParts(record')
      BY <2>1, RewrittenIsOwn
    <2> QED
      BY <1>0, <2>1, <2>2 DEF PartsOwn, TextIsOwn
  <1>9. CASE UNCHANGED textVars
    BY <1>0, <1>9 DEF PartsOwn, TextIsOwn, LastIsOwn, textVars
  <1> QED
    BY <1>3, <1>4, <1>5, <1>6, <1>7, <1>8, <1>9 DEF TextNext

(* What a Formatter makes of a record does not depend on the formatters and *)
(* filters that had it before, for every format whose pieces the fragments  *)
(* write as Python does, and for every format of one with defaults          *)
(* (logrecord.cxx:228, formatter.cxx:86, filepathcache.cxx:6).              *)
THEOREM TextOwn ==
    ASSUME FiltersKeepMessages, HashesApart
    PROVE  TextSpec => []TextIsOwn
  <1>1. OwnInv => TextIsOwn
    BY DEF OwnInv
  <1>2. OwnInv /\ [TextNext]_textVars => OwnInv'
    BY OwnNext
  <1> QED
    BY <1>1, <1>2, OwnInit, PTL DEF TextSpec

=============================================================================
