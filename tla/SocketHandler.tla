----------------------------- MODULE SocketHandler -----------------------------
(***************************************************************************)
(* handlers.py, SocketHandler: records sent to a peer that comes and goes,  *)
(* over connections that are made again with an exponential back-off.       *)
(*                                                                         *)
(* emit and close run under the handler's lock, so a call is over before    *)
(* the next one begins; but time passes while makeSocket waits, at most     *)
(* Timeout, and the peer may go away at any moment.                         *)
(***************************************************************************)
EXTENDS Integers, Sequences

CONSTANTS
    RetryStart, RetryMax, RetryFactor,  \* the parameters of the back-off
    Timeout,        \* the timeout makeSocket gives create_connection
    Horizon,        \* bound: the last time
    MaxRecords,     \* bound: records logged
    MaxSetBacks,    \* bound: how often the clock is set back
    None            \* Python's None

ASSUME SocketAssumption ==
    /\ RetryStart \in Nat \ {0} /\ RetryFactor \in Nat \ {0}
    /\ RetryMax \in Nat /\ RetryStart <= RetryMax
    /\ Timeout \in Nat /\ Horizon \in Nat /\ MaxRecords \in Nat
    /\ MaxSetBacks \in Nat
    /\ None \notin Nat

VARIABLES
    sock,          \* SocketHandler.sock: the number of a connection, or None
    retryTime,     \* SocketHandler.retryTime
    retryPeriod,   \* SocketHandler.retryPeriod
    closeOnError,  \* SocketHandler.closeOnError
    pc,            \* where emit is: "idle", "connecting" or "sending"
    began,         \* the local variable now of createSocket
    now,           \* time.time()
    up,            \* whether the peer accepts connections
    streams,       \* what the peer gets on each connection made so far, and
                   \* whether the handler has closed it
    emits,         \* history: the number of the last record logged
    failed,        \* history: when each attempt to connect began that has
                   \* failed since the last one that has not
    setBacks       \* history: how often the clock has been set back

backoff == <<retryTime, retryPeriod, began, failed>>
clock == <<now, setBacks>>
vars == <<sock, backoff, closeOnError, pc, clock, up, streams, emits>>

Init ==
    /\ sock = None /\ retryTime = None /\ retryPeriod = None
    /\ closeOnError \in BOOLEAN
    /\ pc = "idle" /\ began = 0
    /\ now = 0 /\ up \in BOOLEAN
    /\ streams = <<>> /\ emits = 0 /\ failed = <<>> /\ setBacks = 0

-----------------------------------------------------------------------------
(* What surrounds the handler.                                              *)
Tick ==
    /\ now < Horizon
    /\ pc = "connecting" => now - began < Timeout
    /\ now' = now + 1
    /\ UNCHANGED <<sock, backoff, closeOnError, pc, up, streams, emits, setBacks>>

SetBack ==
    /\ setBacks < MaxSetBacks /\ pc = "idle"
    /\ setBacks' = setBacks + 1
    /\ now' \in 0 .. now - 1
    /\ UNCHANGED <<sock, backoff, closeOnError, pc, up, streams, emits>>

Peer ==
    /\ up' = ~ up
    /\ UNCHANGED <<sock, backoff, closeOnError, pc, clock, streams, emits>>

-----------------------------------------------------------------------------
(* sock.close(); self.sock = None                                           *)
Closed == [streams EXCEPT ![sock].closed = TRUE]

CloseSocket ==
    /\ sock' = None
    /\ streams' = IF sock = None THEN streams ELSE Closed

Log ==
    /\ pc = "idle" /\ emits < MaxRecords
    /\ emits' = emits + 1

(* makePickle raises, and handleError closes the socket if it may.          *)
EmitUnpicklable ==
    /\ Log
    /\ IF closeOnError THEN CloseSocket ELSE UNCHANGED <<sock, streams>>
    /\ UNCHANGED <<backoff, closeOnError, pc, clock, up>>

EmitConnected ==
    /\ Log /\ sock # None
    /\ pc' = "sending"
    /\ UNCHANGED <<sock, backoff, closeOnError, clock, up, streams>>

MayAttempt == IF retryTime = None THEN TRUE ELSE now >= retryTime

(* createSocket: the time is taken before makeSocket is called.             *)
EmitAttempts ==
    /\ Log /\ sock = None /\ MayAttempt
    /\ pc' = "connecting" /\ began' = now
    /\ UNCHANGED <<sock, retryTime, retryPeriod, failed, closeOnError, clock, up,
                   streams>>

(* It is not time yet, and the record is dropped.                           *)
EmitTooEarly ==
    /\ Log /\ sock = None /\ ~ MayAttempt
    /\ UNCHANGED <<sock, backoff, closeOnError, pc, clock, up, streams>>

Connect ==
    /\ pc = "connecting" /\ up
    /\ streams' = Append(streams, [frames |-> <<>>, closed |-> FALSE])
    /\ sock' = Len(streams')
    /\ retryTime' = None /\ failed' = <<>>
    /\ pc' = "sending"
    /\ UNCHANGED <<retryPeriod, began, closeOnError, clock, up, emits>>

(* Mutants: the limit is applied before the period is multiplied, or the    *)
(* period starts again at every failure.                                    *)
NextPeriodUnlimited ==
    IF retryTime = None THEN RetryStart
    ELSE IF retryPeriod > RetryMax THEN RetryMax ELSE retryPeriod * RetryFactor

NextPeriodStart == RetryStart

NextPeriod ==
    IF retryTime = None THEN RetryStart
    ELSE IF retryPeriod * RetryFactor > RetryMax THEN RetryMax
    ELSE retryPeriod * RetryFactor

(* The connection is refused, or not made within the timeout.               *)
ConnectFails ==
    /\ pc = "connecting"
    /\ up => now - began = Timeout
    /\ retryPeriod' = NextPeriod
    /\ retryTime' = began + NextPeriod
    /\ failed' = Append(failed, began)
    /\ pc' = "idle"
    /\ UNCHANGED <<sock, began, closeOnError, clock, up, streams, emits>>

-----------------------------------------------------------------------------
Frame(whole) == [rec |-> emits, whole |-> whole]
Sending(f) == [streams EXCEPT ![sock].frames = Append(@, f)]

(* sendall succeeds, whether or not the peer ever gets the frame.           *)
Send ==
    /\ pc = "sending"
    /\ \/ streams' = Sending(Frame(TRUE))
       \/ ~ up /\ streams' = streams
    /\ pc' = "idle"
    /\ UNCHANGED <<sock, backoff, closeOnError, clock, up, emits>>

(* Mutant: the socket is kept after an error.                               *)
SendFailsOpen ==
    /\ pc = "sending"
    /\ streams' \in {Sending(Frame(FALSE)), streams}
    /\ pc' = "idle"
    /\ UNCHANGED <<sock, backoff, closeOnError, clock, up, emits>>

(* It raises OSError after a part of the frame or nothing has been sent.    *)
SendFails ==
    /\ pc = "sending"
    /\ \E sent \in {Sending(Frame(FALSE)), streams} :
          streams' = [sent EXCEPT ![sock].closed = TRUE]
    /\ sock' = None
    /\ pc' = "idle"
    /\ UNCHANGED <<backoff, closeOnError, clock, up, emits>>

-----------------------------------------------------------------------------
(* SocketHandler.close; the handler can still be logged to.                 *)
Close ==
    /\ pc = "idle" /\ sock # None
    /\ CloseSocket
    /\ UNCHANGED <<backoff, closeOnError, pc, clock, up, emits>>

Next ==
    \/ Tick \/ SetBack \/ Peer
    \/ EmitUnpicklable \/ EmitConnected \/ EmitAttempts \/ EmitTooEarly
    \/ Connect \/ ConnectFails \/ Send \/ SendFails \/ Close

Spec == Init /\ [][Next]_vars

-----------------------------------------------------------------------------
Connections == 1 .. Len(streams)

TypeOK ==
    /\ sock \in Connections \cup {None}
    /\ retryTime \in Nat \cup {None}
    /\ retryPeriod \in (RetryStart .. RetryMax) \cup {None}
    /\ closeOnError \in BOOLEAN
    /\ pc \in {"idle", "connecting", "sending"}
    /\ began \in 0 .. Horizon /\ now \in 0 .. Horizon
    /\ up \in BOOLEAN
    /\ \A c \in Connections : streams[c].closed \in BOOLEAN
    /\ emits \in 0 .. MaxRecords /\ setBacks \in 0 .. MaxSetBacks
    /\ failed \in Seq(0 .. Horizon)

(* On no connection does anything follow a frame that was broken off, so    *)
(* that the peer can tell where records begin; and the handler has closed   *)
(* every connection but the one it uses.                                    *)
StreamsSound ==
    \A c \in Connections :
        LET frames == streams[c].frames
        IN  /\ \A i \in 1 .. Len(frames) :
                  frames[i].whole \/ (i = Len(frames) /\ streams[c].closed)
            /\ streams[c].closed <=> c # sock

(* The time to wait after the nth failure: retryStart, growing by           *)
(* retryFactor up to retryMax.                                              *)
Wait(n) ==
    LET grown[k \in 1 .. n] == IF k = 1 THEN RetryStart ELSE grown[k - 1] * RetryFactor
    IN  IF grown[n] > RetryMax THEN RetryMax ELSE grown[n]

(* "an exponential backoff with a max retry time" (createSocket): however   *)
(* long each attempt has taken and whatever has been logged in between, two *)
(* attempts are never closer than that, and records are dropped without an  *)
(* attempt no longer than that.                                             *)
AttemptsBackOff ==
    /\ \A n \in 1 .. Len(failed) - 1 : failed[n + 1] - failed[n] >= Wait(n)
    /\ retryTime # None =>
          retryTime = failed[Len(failed)] + Wait(Len(failed))

(* ... so that the handler tries again at most retryMax from now.           *)
SilenceBounded == retryTime # None => retryTime - now <= RetryMax
==============================================================================
