-------------------------- MODULE QueueLoggingProofs --------------------------
(***************************************************************************)
(* Proofs about QueueLogging for any records, handlers, queue size and      *)
(* number of listener threads.                                              *)
(***************************************************************************)
EXTENDS QueueLogging, FiniteSetTheorems, TLAPS

Busy == {t \in Threads : monitor[t].pc \in {"handling", "died"}}

(* The queue holds what was put and not yet taken.                          *)
QueueIsRest ==
    /\ Len(puts) = taken + Len(queue)
    /\ \A i \in 1 .. Len(queue) : queue[i] = puts[taken + i]

(* A busy thread has a record taken off the queue, and no other thread has  *)
(* that one.                                                                *)
BusyThreads ==
    /\ \A t \in Busy : /\ monitor[t].pos \in 1 .. taken
                       /\ monitor[t].at \in 1 .. NumHandlers + 1
                       /\ puts[monitor[t].pos] \in Records
    /\ \A t, u \in Busy : monitor[t].pos = monitor[u].pos => t = u
    /\ \A t \in Threads : monitor[t].pc = "waiting" => monitor[t] = Waiting

(* No handler sees a record twice.                                          *)
NeverTwice ==
    \A h \in HandlerIds : \A i, j \in 1 .. Len(delivered[h]) :
        delivered[h][i] = delivered[h][j] => i = j

QueueInv ==
    /\ TypeOK
    /\ QueueIsRest
    /\ BusyThreads
    /\ EveryTakenRecordDelivered
    /\ NeverTwice
    /\ UnfinishedCounts

LEMMA Elements ==
    ASSUME NEW S, NEW s \in Seq(S)
    PROVE  \A i \in 1 .. Len(s) : s[i] \in S
  OBVIOUS

LEMMA InitQueue == Init => QueueInv
  <1> SUFFICES ASSUME Init
               PROVE  QueueInv
    OBVIOUS
  <1>1. Busy = {} /\ Cardinality({}) = 0
    BY FS_EmptySet DEF Init, Busy, Unborn
  <1>2. TypeOK
    BY DEF Init, TypeOK, Unborn
  <1>3. QueueIsRest /\ NeverTwice /\ EveryTakenRecordDelivered
    BY DEF Init, QueueIsRest, NeverTwice, EveryTakenRecordDelivered
  <1>4. BusyThreads
    BY <1>1 DEF Init, BusyThreads, Unborn
  <1>5. UnfinishedCounts
    BY <1>1 DEF Init, UnfinishedCounts, Busy
  <1> QED
    BY <1>2, <1>3, <1>4, <1>5 DEF QueueInv

LEMMA BusyFinite == Busy \subseteq Threads /\ IsFiniteSet(Busy) /\ Cardinality(Busy) \in Nat
  BY FS_Subset, FS_CardinalityType, QueueAssumption DEF Busy

(* What a put changes: nothing that has been taken.                         *)
LEMMA PutStep ==
    ASSUME QueueInv, NEW x \in Items, Put(x),
           UNCHANGED <<monitor, taken, delivered>>,
           emitted' \in [Records -> {"new", "queued", "lost"}],
           thread' \in Threads \cup {None},
           control' \in {"idle", "stopping", "joining"},
           paired' \in BOOLEAN
    PROVE  QueueInv'
  <1>1. /\ Len(puts') = Len(puts) + 1 /\ Len(queue') = Len(queue) + 1
        /\ \A k \in 1 .. Len(puts) : puts'[k] = puts[k]
        /\ \A i \in 1 .. Len(queue) : queue'[i] = queue[i]
        /\ queue'[Len(queue) + 1] = x /\ puts'[Len(puts) + 1] = x
        /\ puts' \in Seq(Items) /\ queue' \in Seq(Items)
        /\ Len(puts) \in Nat /\ Len(queue) \in Nat /\ taken \in 0 .. Len(puts)
    BY DEF QueueInv, TypeOK, Put
  <1>2. TypeOK'
    BY <1>1 DEF QueueInv, TypeOK, Put
  <1>3. QueueIsRest'
    <2>1. /\ Len(puts) = taken + Len(queue)
          /\ \A i \in 1 .. Len(queue) : queue[i] = puts[taken + i]
      BY DEF QueueInv, QueueIsRest
    <2>2. \A i \in 1 .. Len(queue) + 1 : queue'[i] = puts'[taken + i]
      <3> TAKE i \in 1 .. Len(queue) + 1
      <3>1. CASE i = Len(queue) + 1
        <4>1. taken + i = Len(puts) + 1
          BY <1>1, <2>1, <3>1
        <4> QED
          BY <1>1, <3>1, <4>1
      <3>2. CASE i # Len(queue) + 1
        <4>1. i \in 1 .. Len(queue) /\ taken + i \in 1 .. Len(puts)
          BY <1>1, <2>1, <3>2
        <4> QED
          BY <1>1, <2>1, <4>1
      <3> QED
        BY <3>1, <3>2
    <2> QED
      BY <1>1, <2>1, <2>2 DEF QueueIsRest
  <1>4. Busy' = Busy
    BY DEF Busy
  <1>5. BusyThreads'
    BY <1>1, <1>4 DEF QueueInv, BusyThreads, Busy
  <1>6. EveryTakenRecordDelivered'
    BY <1>1 DEF QueueInv, EveryTakenRecordDelivered, Received, Pending
  <1>7. NeverTwice'
    BY DEF QueueInv, NeverTwice
  <1>8. UnfinishedCounts'
    BY <1>1, <1>4, BusyFinite DEF QueueInv, UnfinishedCounts, Put, Busy
  <1> QED
    BY <1>2, <1>3, <1>5, <1>6, <1>7, <1>8 DEF QueueInv

(* A take moves the oldest item out of the queue.                           *)
LEMMA TakeFacts ==
    ASSUME QueueInv, queue # <<>>, queue' = Tail(queue), taken' = taken + 1,
           UNCHANGED puts
    PROVE  /\ taken \in Nat /\ taken' \in 1 .. Len(puts) /\ Len(puts) \in Nat
           /\ puts[taken'] = Head(queue) /\ Head(queue) \in Items
           /\ queue' \in Seq(Items) /\ Len(queue') = Len(queue) - 1
           /\ Len(queue) \in Nat
           /\ QueueIsRest'
  <1>1. /\ queue \in Seq(Items) /\ puts \in Seq(Items) /\ taken \in 0 .. Len(puts)
        /\ Len(puts) = taken + Len(queue)
        /\ \A i \in 1 .. Len(queue) : queue[i] = puts[taken + i]
    BY DEF QueueInv, TypeOK, QueueIsRest
  <1>2. /\ Len(queue) \in Nat \ {0} /\ Len(puts) \in Nat
        /\ Head(queue) = queue[1] /\ Head(queue) \in Items
        /\ queue' \in Seq(Items) /\ Len(queue') = Len(queue) - 1
        /\ \A i \in 1 .. Len(queue) - 1 : queue'[i] = queue[i + 1]
    BY <1>1
  <1>3. \A i \in 1 .. Len(queue) - 1 : queue'[i] = puts[taken + 1 + i]
    <2> TAKE i \in 1 .. Len(queue) - 1
    <2>1. i + 1 \in 1 .. Len(queue) /\ taken + (i + 1) = taken + 1 + i
      BY <1>1, <1>2
    <2> QED
      BY <1>1, <1>2, <2>1
  <1>4. QueueIsRest'
    BY <1>1, <1>2, <1>3 DEF QueueIsRest
  <1> QED
    BY <1>1, <1>2, <1>4

LEMMA TakeRecordStep ==
    ASSUME QueueInv, NEW t \in Threads, TakeRecord(t), paired' \in BOOLEAN
    PROVE  QueueInv'
  <1> DEFINE k == taken + 1
  <1>1. /\ monitor[t] = Waiting /\ queue # <<>> /\ Head(queue) # Sentinel
        /\ queue' = Tail(queue) /\ taken' = k
        /\ monitor' = [monitor EXCEPT ![t] = Handling(k, 1)]
        /\ UNCHANGED <<unfinished, emitted, thread, control, puts, delivered>>
    BY DEF TakeRecord
  <1>2. /\ taken \in Nat /\ k \in 1 .. Len(puts) /\ Len(puts) \in Nat
        /\ puts[k] \in Records
        /\ queue' \in Seq(Items) /\ Len(queue') = Len(queue) - 1
        /\ Len(queue) \in Nat
        /\ QueueIsRest'
    BY <1>1, TakeFacts DEF Items
  <1>3. /\ monitor'[t] = Handling(k, 1)
        /\ \A u \in Threads \ {t} : monitor'[u] = monitor[u]
        /\ t \notin Busy /\ Busy' = Busy \cup {t}
    BY <1>1 DEF QueueInv, TypeOK, Busy, Handling, Waiting
  <1>4. TypeOK'
    <2>1. monitor' \in [Threads ->
            [pc : {"unborn", "waiting", "handling", "ended", "died"},
             pos : Nat, at : Nat]]
      BY <1>1, <1>2 DEF QueueInv, TypeOK, Handling
    <2>2. delivered \in [HandlerIds -> Seq(1 .. k)]
      <3>1. ASSUME NEW h \in HandlerIds
            PROVE  delivered[h] \in Seq(1 .. k)
        <4>1. delivered[h] \in Seq(1 .. taken)
          BY DEF QueueInv, TypeOK
        <4> QED
          BY <1>2, <4>1
      <3> QED
        BY <3>1 DEF QueueInv, TypeOK
    <2> QED
      BY <1>1, <1>2, <2>1, <2>2 DEF QueueInv, TypeOK
  <1>5. BusyThreads'
    <2>1. ASSUME NEW u \in Busy'
          PROVE  /\ monitor'[u].pos \in 1 .. k
                 /\ monitor'[u].at \in 1 .. NumHandlers + 1
                 /\ puts[monitor'[u].pos] \in Records
                 /\ u = t <=> monitor'[u].pos = k
      BY <1>2, <1>3, <2>1, QueueAssumption
         DEF QueueInv, BusyThreads, Busy, Handling
    <2>2. \A u \in Threads : monitor'[u].pc = "waiting" => monitor'[u] = Waiting
      BY <1>3 DEF QueueInv, BusyThreads, Handling
    <2>3. ASSUME NEW u \in Busy', NEW v \in Busy', monitor'[u].pos = monitor'[v].pos
          PROVE  u = v
      <3>1. u = t <=> v = t
        BY <2>1, <2>3
      <3>2. CASE u # t /\ v # t
        <4>1. u \in Busy /\ v \in Busy /\ monitor[u].pos = monitor[v].pos
          BY <1>3, <2>3, <3>2 DEF Busy
        <4> QED
          BY <4>1 DEF QueueInv, BusyThreads
      <3> QED
        BY <3>1, <3>2
    <2> QED
      BY <1>1, <2>1, <2>2, <2>3 DEF BusyThreads
  <1>6. EveryTakenRecordDelivered'
    <2> SUFFICES ASSUME NEW h \in HandlerIds, NEW j \in 1 .. k
                 PROVE  Received(h, j) <=> <<h, puts[j]>> \in Wanted /\ ~ Pending(h, j)'
      BY <1>1 DEF EveryTakenRecordDelivered, Received
    <2>1. CASE j = k
      <3>1. ~ Received(h, j)
        <4>1. delivered[h] \in Seq(1 .. taken)
          BY DEF QueueInv, TypeOK
        <4>2. \A i \in 1 .. Len(delivered[h]) : delivered[h][i] \in 1 .. taken
          BY <4>1, Elements
        <4> QED
          BY <1>2, <2>1, <4>2 DEF Received
      <3>2. Pending(h, j)'
        BY <1>3, <2>1 DEF Pending, Handling, HandlerIds
      <3> QED
        BY <3>1, <3>2
    <2>2. CASE j # k
      <3>1. j \in 1 .. taken
        BY <1>2, <2>2
      <3>2. Pending(h, j)' <=> Pending(h, j)
        BY <1>1, <1>3, <2>2 DEF Pending, Handling, Waiting
      <3> QED
        BY <3>1, <3>2 DEF QueueInv, EveryTakenRecordDelivered
    <2> QED
      BY <2>1, <2>2
  <1>7. NeverTwice'
    BY <1>1 DEF QueueInv, NeverTwice
  <1>8. UnfinishedCounts'
    <2>1. Cardinality(Busy \cup {t}) = Cardinality(Busy) + 1
      BY <1>3, BusyFinite, FS_AddElement
    <2>2. unfinished = Len(queue) + Cardinality(Busy)
      BY DEF QueueInv, UnfinishedCounts, Busy
    <2>3. unfinished' = Len(queue') + Cardinality(Busy')
      BY <1>1, <1>2, <1>3, <2>1, <2>2, BusyFinite
    <2> QED
      BY <2>3 DEF UnfinishedCounts, Busy
  <1> QED
    BY <1>2, <1>4, <1>5, <1>6, <1>7, <1>8 DEF QueueInv

LEMMA TakeSentinelStep ==
    ASSUME QueueInv, NEW t \in Threads, TakeSentinel(t), paired' \in BOOLEAN
    PROVE  QueueInv'
  <1> DEFINE k == taken + 1
  <1>1. /\ monitor[t] = Waiting /\ queue # <<>> /\ Head(queue) = Sentinel
        /\ queue' = Tail(queue) /\ taken' = k
        /\ unfinished' = unfinished - 1
        /\ monitor' = [monitor EXCEPT ![t] = Ended]
        /\ UNCHANGED <<emitted, thread, control, puts, delivered>>
    BY DEF TakeSentinel
  <1>2. /\ taken \in Nat /\ k \in 1 .. Len(puts) /\ Len(puts) \in Nat
        /\ puts[k] = Sentinel
        /\ queue' \in Seq(Items) /\ Len(queue') = Len(queue) - 1
        /\ Len(queue) \in Nat /\ Len(queue') \in Nat
        /\ QueueIsRest'
    BY <1>1, TakeFacts
  <1>3. /\ monitor'[t] = Ended
        /\ \A u \in Threads \ {t} : monitor'[u] = monitor[u]
        /\ t \notin Busy /\ Busy' = Busy
    BY <1>1 DEF QueueInv, TypeOK, Busy, Ended, Waiting
  <1>4. UnfinishedCounts' /\ unfinished' \in Nat
    <2>1. unfinished = Len(queue) + Cardinality(Busy)
      BY DEF QueueInv, UnfinishedCounts, Busy
    <2>2. unfinished' = Len(queue') + Cardinality(Busy')
      BY <1>1, <1>2, <1>3, <2>1, BusyFinite
    <2>3. unfinished' \in Nat
      BY <1>2, <1>3, <2>2, BusyFinite
    <2> QED
      BY <2>2, <2>3 DEF UnfinishedCounts, Busy
  <1>5. TypeOK'
    <2>1. monitor' \in [Threads ->
            [pc : {"unborn", "waiting", "handling", "ended", "died"},
             pos : Nat, at : Nat]]
      BY <1>1 DEF QueueInv, TypeOK, Ended
    <2>2. delivered \in [HandlerIds -> Seq(1 .. k)]
      <3>1. ASSUME NEW h \in HandlerIds
            PROVE  delivered[h] \in Seq(1 .. k)
        <4>1. delivered[h] \in Seq(1 .. taken)
          BY DEF QueueInv, TypeOK
        <4> QED
          BY <1>2, <4>1
      <3> QED
        BY <3>1 DEF QueueInv, TypeOK
    <2> QED
      BY <1>1, <1>2, <1>4, <2>1, <2>2 DEF QueueInv, TypeOK
  <1>6. BusyThreads'
    BY <1>1, <1>2, <1>3 DEF QueueInv, BusyThreads, Busy, Ended
  <1>7. EveryTakenRecordDelivered'
    <2> SUFFICES ASSUME NEW h \in HandlerIds, NEW j \in 1 .. k
                 PROVE  Received(h, j) <=> <<h, puts[j]>> \in Wanted /\ ~ Pending(h, j)'
      BY <1>1 DEF EveryTakenRecordDelivered, Received
    <2>1. CASE j = k
      <3>1. delivered[h] \in Seq(1 .. taken)
        BY DEF QueueInv, TypeOK
      <3>2. \A i \in 1 .. Len(delivered[h]) : delivered[h][i] \in 1 .. taken
        BY <3>1, Elements
      <3>3. ~ Received(h, j)
        BY <1>2, <2>1, <3>2 DEF Received
      <3>4. <<h, puts[j]>> \notin Wanted
        BY <1>2, <2>1, QueueAssumption
      <3> QED
        BY <3>3, <3>4
    <2>2. CASE j # k
      <3>1. j \in 1 .. taken
        BY <1>2, <2>2
      <3>2. Pending(h, j)' <=> Pending(h, j)
        BY <1>1, <1>3 DEF Pending, Ended, Waiting
      <3> QED
        BY <3>1, <3>2 DEF QueueInv, EveryTakenRecordDelivered
    <2> QED
      BY <2>1, <2>2
  <1>8. NeverTwice'
    BY <1>1 DEF QueueInv, NeverTwice
  <1> QED
    BY <1>2, <1>4, <1>5, <1>6, <1>7, <1>8 DEF QueueInv

LEMMA OfferStep ==
    ASSUME QueueInv, NEW t \in Threads, Offer(t), paired' \in BOOLEAN
    PROVE  QueueInv'
  <1> DEFINE k == monitor[t].pos
             a == monitor[t].at
             r == puts[k]
  <1>1. /\ monitor[t].pc = "handling" /\ a <= NumHandlers
        /\ monitor' = [monitor EXCEPT ![t] = Handling(k, a + 1)]
        /\ delivered' = IF <<a, r>> \in Wanted
                        THEN [delivered EXCEPT ![a] = Append(@, k)] ELSE delivered
        /\ UNCHANGED <<queue, unfinished, emitted, thread, control, puts, taken>>
    BY DEF Offer, Current, QueueInv, TypeOK
  <1>2. /\ t \in Busy /\ k \in 1 .. taken /\ a \in 1 .. NumHandlers + 1
        /\ r \in Records /\ taken \in Nat /\ NumHandlers \in Nat
    BY <1>1, QueueAssumption DEF Busy, QueueInv, BusyThreads, TypeOK
  <1>3. /\ monitor'[t] = Handling(k, a + 1)
        /\ \A u \in Threads \ {t} : monitor'[u] = monitor[u]
        /\ Busy' = Busy
    BY <1>1 DEF QueueInv, TypeOK, Busy, Handling
  <1>4. a \in HandlerIds /\ a + 1 \in 1 .. NumHandlers + 1
    BY <1>1, <1>2 DEF HandlerIds
  <1>5. \A h \in HandlerIds : delivered[h] \in Seq(1 .. taken)
    BY DEF QueueInv, TypeOK
  <1>6. Pending(a, k) /\ ~ Received(a, k)
    <2>1. Pending(a, k)
      BY <1>1, <1>2 DEF Pending
    <2> QED
      BY <1>2, <1>4, <2>1 DEF QueueInv, EveryTakenRecordDelivered
  <1>7. TypeOK'
    <2>1. monitor' \in [Threads ->
            [pc : {"unborn", "waiting", "handling", "ended", "died"},
             pos : Nat, at : Nat]]
      BY <1>1, <1>2, SMTT(30) DEF QueueInv, TypeOK, Handling
    <2>2. Append(delivered[a], k) \in Seq(1 .. taken)
      BY <1>2, <1>4, <1>5
    <2>3. delivered' \in [HandlerIds -> Seq(1 .. taken)]
      BY <1>1, <1>4, <2>2 DEF QueueInv, TypeOK
    <2> QED
      BY <1>1, <2>1, <2>3 DEF QueueInv, TypeOK
  <1>8. QueueIsRest'
    BY <1>1 DEF QueueInv, QueueIsRest
  <1>9. BusyThreads'
    <2>1. \A u \in Busy : monitor'[u].pos = monitor[u].pos
      BY <1>3 DEF Handling, Busy
    <2>2. \A u \in Busy : monitor'[u].at \in 1 .. NumHandlers + 1
      BY <1>3, <1>4 DEF Handling, Busy, QueueInv, BusyThreads
    <2>3. \A u \in Threads : monitor'[u].pc = "waiting" => monitor'[u] = Waiting
      BY <1>3 DEF QueueInv, BusyThreads, Handling
    <2> QED
      BY <1>1, <1>3, <2>1, <2>2, <2>3 DEF QueueInv, BusyThreads
  <1>10. \A h \in HandlerIds, j \in 1 .. taken :
            Pending(h, j)' <=> Pending(h, j) /\ ~ (h = a /\ j = k)
    <2> SUFFICES ASSUME NEW h \in HandlerIds, NEW j \in 1 .. taken
                 PROVE  Pending(h, j)' <=> Pending(h, j) /\ ~ (h = a /\ j = k)
      OBVIOUS
    <2>1. ASSUME Pending(h, j)'
          PROVE  Pending(h, j) /\ ~ (h = a /\ j = k)
      <3>1. PICK u \in Busy : monitor'[u].pos = j /\ monitor'[u].at <= h
        BY <1>3, <2>1 DEF Pending, Busy
      <3>2. CASE u = t
        <4>1. j = k /\ a + 1 <= h
          BY <1>3, <3>1, <3>2 DEF Handling
        <4>2. a <= h /\ h # a
          BY <1>4, <4>1 DEF HandlerIds
        <4> QED
          BY <1>1, <1>2, <4>1, <4>2 DEF Pending
      <3>3. CASE u # t
        <4>1. monitor[u].pos = j /\ monitor[u].at <= h /\ u \in Threads
          BY <1>3, <3>1, <3>3 DEF Busy
        <4>2. j # k
          BY <1>2, <3>1, <3>3, <4>1 DEF QueueInv, BusyThreads
        <4> QED
          BY <3>1, <4>1, <4>2 DEF Pending, Busy
      <3> QED
        BY <3>2, <3>3
    <2>2. ASSUME Pending(h, j), ~ (h = a /\ j = k)
          PROVE  Pending(h, j)'
      <3>1. PICK u \in Busy : monitor[u].pos = j /\ monitor[u].at <= h
        BY <2>2 DEF Pending, Busy
      <3>2. CASE u = t
        <4>1. j = k /\ a <= h /\ h # a
          BY <2>2, <3>1, <3>2
        <4>2. a + 1 <= h
          BY <1>4, <4>1 DEF HandlerIds
        <4> QED
          BY <1>3, <4>1, <4>2 DEF Pending, Handling
      <3>3. CASE u # t
        BY <1>3, <3>1, <3>3 DEF Pending, Busy
      <3> QED
        BY <3>2, <3>3
    <2> QED
      BY <2>1, <2>2
  <1>11. \A h \in HandlerIds, j \in 1 .. taken :
            Received(h, j)' <=> Received(h, j) \/ (h = a /\ j = k /\ <<a, r>> \in Wanted)
    <2>1. CASE <<a, r>> \notin Wanted
      BY <1>1, <2>1 DEF Received
    <2>2. CASE <<a, r>> \in Wanted
      <3>1. /\ \A h \in HandlerIds \ {a} : delivered'[h] = delivered[h]
            /\ delivered'[a] = Append(delivered[a], k)
        BY <1>1, <1>4, <2>2 DEF QueueInv, TypeOK
      <3> SUFFICES ASSUME NEW h \in HandlerIds, NEW j \in 1 .. taken
                   PROVE  Received(h, j)' <=> Received(h, j) \/ (h = a /\ j = k)
        BY <2>2
      <3>2. CASE h = a
        <4> DEFINE s == delivered[h]
        <4>1. /\ Len(Append(s, k)) = Len(s) + 1 /\ Len(s) \in Nat
              /\ Append(s, k)[Len(s) + 1] = k
              /\ \A i \in 1 .. Len(s) : Append(s, k)[i] = s[i]
          BY <1>4, <1>5, <3>2
        <4>2. delivered'[h] = Append(s, k)
          BY <3>1, <3>2
        <4>3. Received(h, j)' <=> \E i \in 1 .. Len(delivered'[h]) : delivered'[h][i] = j
          BY DEF Received
        <4>4. Received(h, j) <=> \E i \in 1 .. Len(s) : s[i] = j
          BY DEF Received
        <4> HIDE DEF s
        <4>5. (\E i \in 1 .. Len(s) + 1 : Append(s, k)[i] = j)
                 <=> (\E i \in 1 .. Len(s) : s[i] = j) \/ j = k
          BY <4>1
        <4>6. Received(h, j)' <=> \E i \in 1 .. Len(s) + 1 : Append(s, k)[i] = j
          BY <4>1, <4>2, <4>3
        <4> QED
          BY <3>2, <4>4, <4>5, <4>6
      <3>3. CASE h # a
        BY <3>1, <3>3 DEF Received
      <3> QED
        BY <3>2, <3>3
    <2> QED
      BY <2>1, <2>2
  <1>12. EveryTakenRecordDelivered'
    BY <1>1, <1>6, <1>10, <1>11 DEF QueueInv, EveryTakenRecordDelivered
  <1>13. NeverTwice'
    <2>1. CASE <<a, r>> \notin Wanted
      BY <1>1, <2>1 DEF QueueInv, NeverTwice
    <2>2. CASE <<a, r>> \in Wanted
      <3> DEFINE s == delivered[a]
      <3>1. /\ \A h \in HandlerIds \ {a} : delivered'[h] = delivered[h]
            /\ delivered'[a] = Append(s, k)
        BY <1>1, <1>4, <2>2 DEF QueueInv, TypeOK
      <3>2. /\ Len(Append(s, k)) = Len(s) + 1 /\ Len(s) \in Nat
            /\ Append(s, k)[Len(s) + 1] = k
            /\ \A i \in 1 .. Len(s) : Append(s, k)[i] = s[i] /\ s[i] # k
        BY <1>4, <1>5, <1>6 DEF Received
      <3>3. \A i, j \in 1 .. Len(s) : s[i] = s[j] => i = j
        BY <1>4 DEF QueueInv, NeverTwice
      <3> HIDE DEF s
      <3>4. \A i, j \in 1 .. Len(s) + 1 :
               Append(s, k)[i] = Append(s, k)[j] => i = j
        BY <3>2, <3>3
      <3> QED
        BY <3>1, <3>2, <3>4 DEF QueueInv, NeverTwice
    <2> QED
      BY <2>1, <2>2
  <1>14. UnfinishedCounts'
    BY <1>1, <1>3 DEF QueueInv, UnfinishedCounts, Busy
  <1> QED
    BY <1>7, <1>8, <1>9, <1>12, <1>13, <1>14 DEF QueueInv

(* A step that leaves the queue and what was delivered alone, and moves one *)
(* thread in a way Pending does not see.                                    *)
LEMMA ThreadStep ==
    ASSUME QueueInv, NEW t \in Threads, NEW m,
           monitor' = [monitor EXCEPT ![t] = m],
           m \in [pc : {"unborn", "waiting", "handling", "ended", "died"},
                  pos : Nat, at : Nat],
           \/ t \in Busy /\ m.pc = "died" /\ m.pos = monitor[t].pos
              /\ m.at = monitor[t].at
           \/ t \in Busy /\ m = Waiting /\ monitor[t].at > NumHandlers
           \/ t \notin Busy /\ m = Waiting,
           UNCHANGED <<queue, emitted, puts, taken, delivered>>,
           thread' \in Threads \cup {None},
           control' \in {"idle", "stopping", "joining"},
           paired' \in BOOLEAN,
           unfinished' = IF t \in Busy /\ m = Waiting THEN unfinished - 1
                         ELSE unfinished
    PROVE  QueueInv'
  <1>1. /\ monitor'[t] = m
        /\ \A u \in Threads \ {t} : monitor'[u] = monitor[u]
    BY DEF QueueInv, TypeOK
  <1>2. Busy' = IF m = Waiting THEN Busy \ {t} ELSE Busy
    BY <1>1 DEF Busy, Waiting
  <1>3. unfinished = Len(queue) + Cardinality(Busy) /\ Len(queue) \in Nat
    BY DEF QueueInv, UnfinishedCounts, Busy, TypeOK
  <1>4. unfinished' = Len(queue') + Cardinality(Busy') /\ unfinished' \in Nat
    <2>1. CASE t \in Busy /\ m = Waiting
      <3>1. Cardinality(Busy \ {t}) = Cardinality(Busy) - 1
        BY <2>1, BusyFinite, FS_RemoveElement
      <3>2. Cardinality(Busy \ {t}) \in Nat
        BY BusyFinite, FS_RemoveElement, FS_CardinalityType
      <3>3. unfinished' = unfinished - 1 /\ Busy' = Busy \ {t}
        BY <1>2, <2>1
      <3> QED
        BY <1>3, <3>1, <3>2, <3>3, BusyFinite
    <2>2. CASE ~ (t \in Busy /\ m = Waiting)
      <3>1. Busy' = Busy /\ unfinished' = unfinished
        BY <1>2, <2>2
      <3> QED
        BY <1>3, <3>1, BusyFinite
    <2> QED
      BY <2>1, <2>2
  <1>5. UnfinishedCounts'
    BY <1>4 DEF UnfinishedCounts, Busy
  <1>6. TypeOK'
    BY <1>4 DEF QueueInv, TypeOK
  <1>7. QueueIsRest' /\ NeverTwice'
    BY DEF QueueInv, QueueIsRest, NeverTwice
  <1>8. \A u \in Busy' : u \in Busy /\ monitor'[u].pos = monitor[u].pos
                         /\ monitor'[u].at = monitor[u].at
    BY <1>1, <1>2 DEF Waiting, Busy
  <1>9. BusyThreads'
    <2>1. \A u \in Threads : monitor'[u].pc = "waiting" => monitor'[u] = Waiting
      BY <1>1 DEF QueueInv, BusyThreads, Waiting
    <2> QED
      BY <1>8, <2>1 DEF QueueInv, BusyThreads
  <1>10. \A h \in HandlerIds, j \in 1 .. taken : Pending(h, j)' <=> Pending(h, j)
    <2> SUFFICES ASSUME NEW h \in HandlerIds, NEW j \in 1 .. taken
                 PROVE  Pending(h, j)' <=> Pending(h, j)
      OBVIOUS
    <2>1. Pending(h, j) <=> \E u \in Busy : monitor[u].pos = j /\ monitor[u].at <= h
      BY DEF Pending, Busy
    <2>2. Pending(h, j)' <=> \E u \in Busy' : monitor'[u].pos = j /\ monitor'[u].at <= h
      BY DEF Pending, Busy
    <2>3. ASSUME NEW u \in Busy, monitor[u].at <= h
          PROVE  u \in Busy'
      <3>1. CASE u = t /\ m = Waiting
        <4>1. monitor[t].at > NumHandlers
          BY <2>3, <3>1 DEF Waiting
        <4>2. h <= NumHandlers /\ NumHandlers \in Nat /\ h \in Nat
          BY QueueAssumption DEF HandlerIds
        <4>3. monitor[t].at \in Nat /\ monitor[t].at <= h
          BY <2>3, <3>1 DEF QueueInv, TypeOK
        <4> QED
          BY <4>1, <4>2, <4>3
      <3>2. CASE ~ (u = t /\ m = Waiting)
        BY <1>2, <3>2
      <3> QED
        BY <3>1, <3>2
    <2> QED
      BY <1>8, <2>1, <2>2, <2>3
  <1>11. EveryTakenRecordDelivered'
    BY <1>10 DEF QueueInv, EveryTakenRecordDelivered, Received
  <1> QED
    BY <1>5, <1>6, <1>7, <1>9, <1>11 DEF QueueInv

LEMMA NextQueue == QueueInv /\ [Next]_vars => QueueInv'
  <1> SUFFICES ASSUME QueueInv, [Next]_vars
               PROVE  QueueInv'
    OBVIOUS
  <1>0. /\ thread \in Threads \cup {None}
        /\ control \in {"idle", "stopping", "joining"}
        /\ emitted \in [Records -> {"new", "queued", "lost"}]
        /\ \A t \in Threads : monitor[t].pos \in Nat /\ monitor[t].at \in Nat
        /\ paired' \in BOOLEAN
    BY DEF QueueInv, TypeOK, Next, CallStop, Start, vars
  <1>1. ASSUME UNCHANGED <<queue, unfinished, monitor, puts, taken, delivered>>,
               thread' \in Threads \cup {None},
               control' \in {"idle", "stopping", "joining"},
               emitted' \in [Records -> {"new", "queued", "lost"}]
        PROVE  QueueInv'
    <2>1. TypeOK' /\ QueueIsRest' /\ NeverTwice' /\ UnfinishedCounts'
      BY <1>0, <1>1 DEF QueueInv, TypeOK, QueueIsRest, NeverTwice, UnfinishedCounts
    <2>2. Busy' = Busy
      BY <1>1 DEF Busy
    <2>3. BusyThreads'
      BY <1>1, <2>2 DEF QueueInv, BusyThreads
    <2>4. EveryTakenRecordDelivered'
      BY <1>1 DEF QueueInv, EveryTakenRecordDelivered, Received, Pending
    <2> QED
      BY <2>1, <2>3, <2>4 DEF QueueInv
  <1>2. ASSUME NEW r \in Records, EmitQueued(r)
        PROVE  QueueInv'
    BY <1>0, <1>2, PutStep DEF EmitQueued, Items
  <1>3. ASSUME NEW r \in Records, EmitLost(r)
        PROVE  QueueInv'
    BY <1>0, <1>1, <1>3 DEF EmitLost
  <1>4. ASSUME NEW t \in Threads, HandlerRaises(t)
        PROVE  QueueInv'
    <2>1. monitor' = [monitor EXCEPT ![t] = Died(monitor[t].pos, monitor[t].at)]
      BY <1>4 DEF HandlerRaises, QueueInv, TypeOK
    <2> QED
      BY <1>0, <1>4, <2>1, ThreadStep DEF HandlerRaises, Died, Busy, Waiting
  <1>5. ASSUME NEW t \in Threads, TaskDone(t)
        PROVE  QueueInv'
    BY <1>0, <1>5, ThreadStep DEF TaskDone, Busy, Waiting
  <1>6. ASSUME NEW t \in Threads, Start(t)
        PROVE  QueueInv'
    <2>1. t \notin Busy
      BY <1>6 DEF Start, Busy, Unborn
    <2>2. Waiting \in [pc : {"unborn", "waiting", "handling", "ended", "died"},
                       pos : Nat, at : Nat]
      BY DEF Waiting
    <2>3. /\ monitor' = [monitor EXCEPT ![t] = Waiting]
          /\ thread' \in Threads \cup {None}
          /\ UNCHANGED <<queue, unfinished, emitted, control, puts, taken, delivered>>
      BY <1>6 DEF Start
    <2> QED
      BY <1>0, <2>1, <2>2, <2>3, ThreadStep
  <1>7. CASE CallStop
    BY <1>0, <1>1, <1>7 DEF CallStop
  <1>8. CASE StopRaises
    BY <1>0, <1>1, <1>8 DEF StopRaises
  <1>9. CASE PutSentinel
    BY <1>0, <1>9, PutStep DEF PutSentinel, Items
  <1>10. CASE Join
    BY <1>0, <1>1, <1>10 DEF Join
  <1>11. CASE UNCHANGED vars
    BY <1>0, <1>1, <1>11 DEF vars
  <1> QED
    BY <1>0, <1>2, <1>3, <1>4, <1>5, <1>6, <1>7, <1>8, <1>9, <1>10, <1>11,
       TakeRecordStep, TakeSentinelStep, OfferStep
       DEF Next, Others, Monitor, Stop

(* However the application uses it, the listener drops nothing it has taken *)
(* off the queue except at a handler that raises, hands nothing twice to a  *)
(* handler, and counts the tasks of the queue correctly.                    *)
THEOREM QueueInvariant == Spec => []QueueInv
  BY InitQueue, NextQueue, PTL DEF Spec

(* The queue, its counter and the histories stay well typed, and what a     *)
(* handler has received is among the items taken.                           *)
THEOREM QueueTypesHold == Spec => []TypeOK
  <1>1. QueueInv => TypeOK
    BY DEF QueueInv
  <1> QED
    BY <1>1, QueueInvariant, PTL

(* Every record taken off the queue is delivered.                           *)
THEOREM DeliveryHolds == Spec => []EveryTakenRecordDelivered
  <1>1. QueueInv => EveryTakenRecordDelivered
    BY DEF QueueInv
  <1> QED
    BY <1>1, QueueInvariant, PTL

(* No record is delivered twice.                                            *)
THEOREM NeverTwiceHolds == Spec => []NeverTwice
  <1>1. QueueInv => NeverTwice
    BY DEF QueueInv
  <1> QED
    BY <1>1, QueueInvariant, PTL

(* unfinished_tasks is right, so queue.join() waits for the right items.    *)
THEOREM UnfinishedHolds == Spec => []UnfinishedCounts
  <1>1. QueueInv => UnfinishedCounts
    BY DEF QueueInv
  <1> QED
    BY <1>1, QueueInvariant, PTL

-----------------------------------------------------------------------------
(* With an application that starts one listener at a time, the thread alive *)
(* is the one _thread names, and what it works on is the last item taken.   *)
OneListener ==
    \A t \in Threads : /\ Alive(t) => t = thread
                       /\ monitor[t].pc = "handling" => monitor[t].pos = taken

PairedInv == QueueInv /\ (paired => OneListener /\ InOrder)

LEMMA InitPaired == Init => PairedInv
  <1> SUFFICES ASSUME Init
               PROVE  PairedInv
    OBVIOUS
  <1>1. OneListener
    BY DEF Init, OneListener, Alive, Unborn
  <1>2. InOrder
    BY DEF Init, InOrder
  <1> QED
    BY <1>1, <1>2, InitQueue DEF PairedInv

LEMMA NextOneListener ==
    ASSUME QueueInv, OneListener, [Next]_vars, paired'
    PROVE  OneListener'
  <1>1. monitor \in [Threads -> [pc : {"unborn", "waiting", "handling", "ended", "died"},
                                 pos : Nat, at : Nat]]
    BY DEF QueueInv, TypeOK
  <1>2. ASSUME UNCHANGED <<monitor, thread, taken>>
        PROVE  OneListener'
    BY <1>2 DEF OneListener, Alive
  <1>3. ASSUME NEW t \in Threads, TakeRecord(t)
        PROVE  OneListener'
    <2>1. /\ monitor' = [monitor EXCEPT ![t] = Handling(taken + 1, 1)]
          /\ taken' = taken + 1 /\ thread' = thread
          /\ Alive(t)
      BY <1>3 DEF TakeRecord, Alive, Waiting
    <2>2. \A u \in Threads \ {t} : monitor'[u] = monitor[u] /\ ~ Alive(u)
      BY <1>1, <2>1 DEF OneListener
    <2>3. monitor'[t] = Handling(taken + 1, 1) /\ t = thread
      BY <1>1, <2>1 DEF OneListener
    <2> QED
      BY <2>1, <2>2, <2>3 DEF OneListener, Alive, Handling
  <1>4. ASSUME NEW t \in Threads, TakeSentinel(t)
        PROVE  OneListener'
    <2>1. monitor' = [monitor EXCEPT ![t] = Ended] /\ thread' = thread /\ Alive(t)
      BY <1>4 DEF TakeSentinel, Alive, Waiting
    <2>2. \A u \in Threads \ {t} : monitor'[u] = monitor[u] /\ ~ Alive(u)
      BY <1>1, <2>1 DEF OneListener
    <2> QED
      BY <1>1, <2>1, <2>2 DEF OneListener, Alive, Ended
  <1>5. ASSUME NEW t \in Threads, Offer(t) \/ HandlerRaises(t) \/ TaskDone(t)
        PROVE  OneListener'
    <2>1. /\ thread' = thread /\ taken' = taken
          /\ \A u \in Threads \ {t} : monitor'[u] = monitor[u]
          /\ monitor[t].pc = "handling"
      BY <1>1, <1>5 DEF Offer, HandlerRaises, TaskDone
    <2>2. monitor'[t].pc = "handling" => monitor'[t].pos = monitor[t].pos
      BY <1>1, <1>5 DEF Offer, HandlerRaises, TaskDone, Handling, Died, Waiting
    <2> QED
      BY <2>1, <2>2 DEF OneListener, Alive
  <1>6. ASSUME NEW t \in Threads, Start(t)
        PROVE  OneListener'
    <2>1. /\ monitor' = [monitor EXCEPT ![t] = Waiting]
          /\ thread = None /\ thread' = t /\ taken' = taken
      BY <1>6 DEF Start
    <2>2. \A u \in Threads \ {t} : monitor'[u] = monitor[u] /\ ~ Alive(u)
      BY <1>1, <2>1, QueueAssumption DEF OneListener
    <2> QED
      BY <1>1, <2>1, <2>2 DEF OneListener, Alive, Waiting
  <1>7. CASE Join
    <2>1. UNCHANGED <<monitor, taken>> /\ ~ Alive(thread)
      BY <1>7 DEF Join
    <2>2. \A u \in Threads : ~ Alive(u)
      BY <2>1 DEF OneListener
    <2> QED
      BY <2>1, <2>2 DEF OneListener, Alive
  <1>8. ASSUME NEW r \in Records, EmitQueued(r) \/ EmitLost(r)
        PROVE  OneListener'
    BY <1>2, <1>8 DEF EmitQueued, EmitLost
  <1>9. CASE CallStop \/ StopRaises \/ PutSentinel \/ UNCHANGED vars
    BY <1>2, <1>9 DEF CallStop, StopRaises, PutSentinel, vars
  <1> QED
    BY <1>3, <1>4, <1>5, <1>6, <1>7, <1>8, <1>9
       DEF Next, Others, Monitor, Stop

LEMMA OfferInOrder ==
    ASSUME PairedInv, paired, NEW t \in Threads, Offer(t)
    PROVE  InOrder'
  <1> DEFINE k == monitor[t].pos
             a == monitor[t].at
             s == delivered[a]
  <1>1. CASE Current(t) \notin Wanted
    BY <1>1 DEF Offer, PairedInv, InOrder
  <1>2. CASE Current(t) \in Wanted
    <2>1. /\ monitor[t].pc = "handling" /\ a <= NumHandlers
          /\ delivered' = [delivered EXCEPT ![a] = Append(@, k)]
      BY <1>2 DEF Offer
    <2>2. t \in Busy /\ k = taken /\ taken \in Nat /\ k \in 1 .. taken
      BY <2>1 DEF PairedInv, OneListener, Busy, QueueInv, BusyThreads, TypeOK
    <2>3. a \in HandlerIds
      BY <2>1, <2>2, QueueAssumption DEF PairedInv, QueueInv, BusyThreads, HandlerIds
    <2>4. s \in Seq(1 .. taken) /\ delivered \in [HandlerIds -> Seq(1 .. taken)]
      BY <2>3 DEF PairedInv, QueueInv, TypeOK
    <2>5. \A i \in 1 .. Len(s) : s[i] \in 1 .. taken
      BY <2>4, Elements
    <2>6. \A i \in 1 .. Len(s) : s[i] # k
      <3>1. Pending(a, k)
        BY <2>1, <2>3, QueueAssumption DEF Pending, HandlerIds
      <3> QED
        BY <2>2, <2>3, <3>1 DEF PairedInv, QueueInv, EveryTakenRecordDelivered, Received
    <2>7. \A i, j \in 1 .. Len(s) : i < j => s[i] < s[j]
      BY <2>3 DEF PairedInv, InOrder
    <2>8. /\ Len(Append(s, k)) = Len(s) + 1 /\ Len(s) \in Nat
          /\ Append(s, k)[Len(s) + 1] = k
          /\ \A i \in 1 .. Len(s) : Append(s, k)[i] = s[i]
      BY <2>4
    <2>9. \A h \in HandlerIds \ {a} : delivered'[h] = delivered[h]
      BY <2>1, <2>4
    <2>10. delivered'[a] = Append(s, k)
      BY <2>1, <2>3, <2>4
    <2> HIDE DEF s, k
    <2>11. \A i, j \in 1 .. Len(s) + 1 : i < j => Append(s, k)[i] < Append(s, k)[j]
      BY <2>2, <2>5, <2>6, <2>7, <2>8
    <2> QED
      BY <2>8, <2>9, <2>10, <2>11, SMTT(30) DEF PairedInv, InOrder
  <1> QED
    BY <1>1, <1>2

LEMMA NextPaired == PairedInv /\ [Next]_vars => PairedInv'
  <1> SUFFICES ASSUME PairedInv, [Next]_vars
               PROVE  PairedInv'
    OBVIOUS
  <1>1. QueueInv'
    BY NextQueue DEF PairedInv
  <1>2. ASSUME paired'
        PROVE  OneListener' /\ InOrder'
    <2>1. paired
      BY <1>2 DEF Next, CallStop, Start, vars
    <2>2. OneListener'
      BY <1>2, <2>1, NextOneListener DEF PairedInv
    <2>3. CASE UNCHANGED delivered
      BY <2>1, <2>2, <2>3 DEF PairedInv, InOrder
    <2>4. CASE \E t \in Threads : Offer(t)
      BY <2>1, <2>2, <2>4, OfferInOrder
    <2> QED
      BY <2>3, <2>4
         DEF Next, Others, Monitor, Stop, EmitQueued, EmitLost, TakeRecord,
             TakeSentinel, HandlerRaises, TaskDone, StopRaises, PutSentinel, Join,
             CallStop, Start, vars
  <1> QED
    BY <1>1, <1>2 DEF PairedInv

(* With one listener at a time, each handler gets the records in the order  *)
(* they were queued, across any number of starts and stops.                 *)
THEOREM OrderHolds == Spec => []DeliveredInOrder
  <1>1. PairedInv => DeliveredInOrder
    BY DEF PairedInv, DeliveredInOrder
  <1> QED
    BY <1>1, InitPaired, NextPaired, PTL DEF Spec

-----------------------------------------------------------------------------
(* The sentinels in the queue, and the last one that was ever put.          *)
Left == {k \in taken + 1 .. Len(puts) : puts[k] = Sentinel}

IsLast(k) ==
    /\ k \in 1 .. Len(puts) /\ puts[k] = Sentinel
    /\ \A j \in k + 1 .. Len(puts) : puts[j] # Sentinel

(* While all is sound: the sentinel that stop() joins on is the only one in *)
(* the queue, and the thread does not end but by that one.                  *)
StopFits ==
    /\ control = "joining" => \E k \in 1 .. Len(puts) : IsLast(k)
    /\ Sound =>
          /\ control # "idle" => thread # None
          /\ thread # None =>
                Alive(thread) \/ (control = "joining" /\ monitor[thread].pc = "ended")
          /\ \A j, k \in Left : j = k
          /\ Left # {} => control = "joining" /\ Alive(thread)

(* A put of a record, and of a sentinel.                                    *)
LEMMA PutLeaves ==
    ASSUME QueueInv, NEW x \in Items, puts' = Append(puts, x), taken' = taken
    PROVE  /\ x # Sentinel => Left' = Left
           /\ x # Sentinel => \A k : IsLast(k) => IsLast(k)'
           /\ x = Sentinel => Left' = Left \cup {Len(puts) + 1}
           /\ x = Sentinel => \E k \in 1 .. Len(puts') : IsLast(k)'
  <1>1. /\ puts \in Seq(Items) /\ Len(puts) \in Nat /\ taken \in 0 .. Len(puts)
        /\ Len(puts') = Len(puts) + 1
        /\ \A k \in 1 .. Len(puts) : puts'[k] = puts[k]
        /\ puts'[Len(puts) + 1] = x
    BY DEF QueueInv, TypeOK
  <1>2. ASSUME NEW k
        PROVE  k \in Left' <=> k \in Left \/ (x = Sentinel /\ k = Len(puts) + 1)
    BY <1>1 DEF Left
  <1>3. ASSUME x # Sentinel, NEW k, IsLast(k)
        PROVE  IsLast(k)'
    BY <1>1, <1>3 DEF IsLast
  <1>4. ASSUME x = Sentinel
        PROVE  \E k \in 1 .. Len(puts') : IsLast(k)'
    <2>1. PICK n \in 1 .. Len(puts') : n = Len(puts) + 1
      BY <1>1
    <2>2. IsLast(n)'
      BY <1>1, <1>4, <2>1 DEF IsLast
    <2> QED
      BY <2>2
  <1> QED
    BY <1>2, <1>3, <1>4

(* A take leaves no sentinel but those behind it.                           *)
LEMMA TakeLeaves ==
    ASSUME QueueInv, queue # <<>>, queue' = Tail(queue), taken' = taken + 1,
           puts' = puts
    PROVE  /\ Left' \subseteq Left /\ taken + 1 \notin Left'
           /\ Head(queue) = Sentinel => taken + 1 \in Left
  <1>1. /\ taken \in Nat /\ taken' \in 1 .. Len(puts) /\ Len(puts) \in Nat
        /\ puts[taken'] = Head(queue)
    BY TakeFacts
  <1> QED
    BY <1>1 DEF Left

(* A thread that has died stays so.                                         *)
LEMMA SoundBefore ==
    ASSUME TypeOK, [Next]_vars, Sound'
    PROVE  Sound
  <1>1. paired
    BY DEF Sound, Next, CallStop, Start, vars
  <1>2. ASSUME NEW t \in Threads, monitor[t].pc = "died"
        PROVE  monitor'[t].pc = "died"
    <2>1. ASSUME NEW u \in Threads, TakeRecord(u) \/ TakeSentinel(u)
          PROVE  monitor'[t] = monitor[t]
      <3>1. u # t
        BY <1>2, <2>1 DEF TakeRecord, TakeSentinel, Waiting
      <3> QED
        BY <2>1, <3>1 DEF TakeRecord, TakeSentinel, TypeOK
    <2>2. ASSUME NEW u \in Threads, Offer(u) \/ HandlerRaises(u) \/ TaskDone(u)
          PROVE  monitor'[t] = monitor[t]
      <3>1. u # t
        BY <1>2, <2>2 DEF Offer, HandlerRaises, TaskDone
      <3> QED
        BY <2>2, <3>1 DEF Offer, HandlerRaises, TaskDone, TypeOK
    <2>3. ASSUME NEW u \in Threads, Start(u)
          PROVE  monitor'[t] = monitor[t]
      <3>1. u # t
        BY <1>2, <2>3 DEF Start, Unborn
      <3> QED
        BY <2>3, <3>1 DEF Start, TypeOK
    <2> QED
      BY <1>2, <2>1, <2>2, <2>3
         DEF Next, Others, Monitor, Stop, EmitQueued, EmitLost, StopRaises,
             PutSentinel, Join, CallStop, vars
  <1> QED
    BY <1>1, <1>2 DEF Sound

LEMMA StopStep == PairedInv /\ StopFits /\ [Next]_vars => StopFits'
  <1> SUFFICES ASSUME PairedInv, StopFits, [Next]_vars
               PROVE  StopFits'
    OBVIOUS
  <1> DEFINE Fits ==
        /\ control # "idle" => thread # None
        /\ thread # None =>
              Alive(thread) \/ (control = "joining" /\ monitor[thread].pc = "ended")
        /\ \A j, k \in Left : j = k
        /\ Left # {} => control = "joining" /\ Alive(thread)
  <1>0. /\ QueueInv /\ TypeOK
        /\ monitor \in [Threads -> [pc : {"unborn", "waiting", "handling", "ended", "died"},
                                    pos : Nat, at : Nat]]
        /\ thread \in Threads \cup {None} /\ None \notin Threads
        /\ Sentinel \notin Records
        /\ Sound' => Sound
    BY SoundBefore, QueueAssumption DEF PairedInv, QueueInv, TypeOK
  <1>1. Sound => Fits /\ OneListener
    BY DEF StopFits, PairedInv, Sound
  <1>2. ASSUME control' = "joining"
        PROVE  \E k \in 1 .. Len(puts') : IsLast(k)'
    <2>1. CASE PutSentinel
      BY <1>0, <2>1, PutLeaves DEF PutSentinel, Put, Items
    <2>2. ASSUME NEW r \in Records, EmitQueued(r)
          PROVE  \E k \in 1 .. Len(puts') : IsLast(k)'
      <3>1. control = "joining"
        BY <1>2, <2>2 DEF EmitQueued
      <3>2. PICK k \in 1 .. Len(puts) : IsLast(k)
        BY <3>1 DEF StopFits
      <3>3. IsLast(k)'
        BY <1>0, <2>2, <3>2, PutLeaves DEF EmitQueued, Put, Items
      <3> QED
        BY <3>3 DEF IsLast
    <2>3. ASSUME control = "joining", puts' = puts
          PROVE  \E k \in 1 .. Len(puts') : IsLast(k)'
      BY <2>3 DEF StopFits, IsLast
    <2> QED
      BY <1>2, <2>1, <2>2, <2>3
         DEF Next, Others, Monitor, Stop, EmitLost, TakeRecord, TakeSentinel, Offer,
             HandlerRaises, TaskDone, StopRaises, Join, CallStop, Start, vars
  <1>3. ASSUME Sound'
        PROVE  Fits'
    <2>0. Sound /\ Fits /\ OneListener
      BY <1>0, <1>1, <1>3
    <2>1. ASSUME NEW r \in Records, EmitQueued(r)
          PROVE  Fits'
      <3>1. Left' = Left /\ UNCHANGED <<monitor, thread, control>>
        BY <1>0, <2>1, PutLeaves DEF EmitQueued, Put, Items
      <3> QED
        BY <2>0, <3>1 DEF Alive
    <2>2. ASSUME NEW r \in Records, EmitLost(r)
          PROVE  Fits'
      BY <2>0, <2>2 DEF EmitLost, Left, Alive
    <2>3. ASSUME NEW t \in Threads, TakeRecord(t)
          PROVE  Fits'
      <3>1. Left' \subseteq Left /\ UNCHANGED <<thread, control>>
        BY <1>0, <2>3, TakeLeaves DEF TakeRecord
      <3>2. t = thread /\ Alive(t) /\ Alive(t)'
        BY <1>0, <2>0, <2>3 DEF TakeRecord, OneListener, Alive, Waiting, Handling
      <3> QED
        BY <1>0, <2>0, <3>1, <3>2
    <2>4. ASSUME NEW t \in Threads, TakeSentinel(t)
          PROVE  Fits'
      <3>1. /\ Left' \subseteq Left /\ taken + 1 \notin Left' /\ taken + 1 \in Left
            /\ UNCHANGED <<thread, control>>
        BY <1>0, <2>4, TakeLeaves DEF TakeSentinel
      <3>2. t = thread /\ monitor'[t].pc = "ended"
        BY <1>0, <2>0, <2>4 DEF TakeSentinel, OneListener, Alive, Waiting, Ended
      <3>3. Left' = {} /\ control = "joining"
        BY <2>0, <3>1
      <3> QED
        BY <1>0, <2>0, <3>1, <3>2, <3>3
    <2>5. ASSUME NEW t \in Threads, Offer(t) \/ TaskDone(t)
          PROVE  Fits'
      <3>1. Left' = Left /\ UNCHANGED <<thread, control>>
        BY <2>5 DEF Offer, TaskDone, Left
      <3>2. t = thread /\ Alive(t) /\ Alive(t)'
        BY <1>0, <2>0, <2>5 DEF Offer, TaskDone, OneListener, Alive, Waiting, Handling
      <3> QED
        BY <1>0, <2>0, <3>1, <3>2
    <2>6. ASSUME NEW t \in Threads, HandlerRaises(t)
          PROVE  FALSE
      BY <1>0, <1>3, <2>6 DEF HandlerRaises, Died, Sound
    <2>7. ASSUME NEW t \in Threads, Start(t)
          PROVE  Fits'
      <3>1. thread = None /\ thread' = t /\ control' = control /\ Left' = Left
        BY <1>3, <2>7 DEF Start, Sound, Left
      <3>2. Alive(t)'
        BY <1>0, <2>7 DEF Start, Alive, Waiting
      <3>3. Left = {}
        <4>1. ~ (control = "joining")
          BY <2>7 DEF Start
        <4> QED
          BY <2>0, <4>1
      <3> QED
        BY <1>0, <2>7, <3>1, <3>2, <3>3 DEF Start
    <2>8. CASE CallStop
      <3>1. thread # None
        BY <1>3, <2>8 DEF CallStop, Sound
      <3> QED
        BY <2>0, <2>8, <3>1 DEF CallStop, Left, Alive
    <2>9. CASE StopRaises
      BY <2>0, <2>9 DEF StopRaises, Left, Alive
    <2>10. CASE PutSentinel
      <3>1. thread # None /\ control' = "joining" /\ UNCHANGED <<monitor, thread>>
        BY <2>0, <2>10 DEF PutSentinel
      <3>2. Left = {} /\ Alive(thread)
        BY <2>0, <2>10, <3>1 DEF PutSentinel
      <3>3. Left' = Left \cup {Len(puts) + 1}
        BY <1>0, <2>10, PutLeaves DEF PutSentinel, Put, Items
      <3> QED
        BY <3>1, <3>2, <3>3 DEF Alive
    <2>11. CASE Join
      <3>1. Left' = Left /\ thread' = None /\ control' = "idle" /\ ~ Alive(thread)
        BY <2>11 DEF Join, Left
      <3> QED
        BY <2>0, <3>1
    <2>12. CASE UNCHANGED vars
      BY <2>0, <2>12 DEF vars, Left, Alive
    <2> QED
      BY <2>1, <2>2, <2>3, <2>4, <2>5, <2>6, <2>7, <2>8, <2>9, <2>10, <2>11, <2>12
         DEF Next, Others, Monitor, Stop
  <1> QED
    BY <1>2, <1>3 DEF StopFits

(* When stop() has joined the thread, with starts and stops in pairs and no *)
(* handler that has raised, everything put before its sentinel has been     *)
(* handled by every handler that wants it.                                  *)
THEOREM StopDrainsQueue == Spec => StopDrains
  <1>1. Init => StopFits
    <2>1. Init => Left = {} /\ ~ (\E t \in Threads : Alive(t))
      BY DEF Init, Left, Alive, Unborn
    <2> QED
      BY <2>1 DEF Init, StopFits
  <1>2. PairedInv /\ StopFits /\ [Next]_vars => [StopEnds /\ Sound => Drained]_vars
    <2> SUFFICES ASSUME PairedInv, StopFits, [Next]_vars, StopEnds, Sound
                 PROVE  Drained
      OBVIOUS
    <2>1. Join
      BY DEF StopEnds, Next, Others, Monitor, Stop, EmitQueued, EmitLost, TakeRecord,
             TakeSentinel, Offer, HandlerRaises, TaskDone, StopRaises, PutSentinel,
             CallStop, Start, vars
    <2>2. Left = {}
      BY <2>1 DEF Join, StopFits
    <2>3. LastSentinel \in 1 .. taken
      <3>1. \E k \in 1 .. Len(puts) : IsLast(k)
        BY DEF StopEnds, StopFits
      <3>2. IsLast(LastSentinel)
        BY <3>1 DEF LastSentinel, IsLast
      <3>3. taken \in 0 .. Len(puts) /\ Len(puts) \in Nat
        BY DEF PairedInv, QueueInv, TypeOK
      <3> QED
        BY <2>2, <3>2, <3>3 DEF IsLast, Left
    <2>4. ASSUME NEW h, NEW k
          PROVE  ~ Pending(h, k)
      BY <2>1 DEF Pending, Sound, Join, PairedInv, OneListener, Alive
    <2> SUFFICES ASSUME NEW k \in 1 .. LastSentinel, NEW h \in HandlerIds,
                        <<h, puts[k]>> \in Wanted
                 PROVE  Received(h, k)
      BY DEF Drained
    <2>5. k \in 1 .. taken
      BY <2>3 DEF PairedInv, QueueInv, TypeOK
    <2> QED
      BY <2>4, <2>5 DEF PairedInv, QueueInv, EveryTakenRecordDelivered
  <1> QED
    BY <1>1, <1>2, InitPaired, NextPaired, StopStep, PTL DEF Spec, StopDrains
==============================================================================
