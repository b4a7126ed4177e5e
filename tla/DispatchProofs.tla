---------------------------- MODULE DispatchProofs ----------------------------
(***************************************************************************)
(* Proofs about Dispatch for any loggers, handlers, filters and changes of  *)
(* their lists under the walks.                                             *)
(***************************************************************************)
EXTENDS Dispatch, SequenceTheorems, FiniteSetTheorems, TLAPS

Filtered == start # None /\ ~ removals

(* Filters that were there when the call began keep their places as long as *)
(* none is removed: what is added comes behind them.                        *)
ScreensKept ==
    ~ removals =>
        \A x \in Filterers : \A i \in 1 .. Len(screening[x]) :
            i \in 1 .. Len(filters[x]) /\ filters[x][i] = screening[x][i]

(* As long as none is removed, the walk over filters stays in their list.   *)
TurnFits ==
    Running /\ ~ removals /\ asked # None => turn <= Len(filters[asked]) + 1

(* The walk over filters has met none that refuses the record.              *)
NoRefusalYet ==
    Running /\ ~ removals /\ asked # None =>
        \A i \in 1 .. Len(filters[asked]) :
            i < turn => <<filters[asked][i], record>> \notin Refusing

(* The filters of one logger are asked, that of the call, and before there  *)
(* is a handler.                                                            *)
LoggerFirst ==
    Running /\ asked \in Loggers => asked = start /\ cur = start /\ got = <<>>

(* Once they have let the record through, none of them refuses it.          *)
StartPassed ==
    /\ Running => start # None
    /\ Filtered /\ ((Running /\ asked \notin Loggers) \/ got # <<>>) => ~ Barred(start)

HandlersPassed ==
    Filtered => \A h \in Handlers : Barred(h) => h \notin Range(got)

DispatchInv ==
    /\ TypeOK /\ ScreensKept /\ TurnFits /\ NoRefusalYet
    /\ LoggerFirst /\ StartPassed /\ HandlersPassed

-----------------------------------------------------------------------------
LEMMA Appended ==
    ASSUME NEW S, NEW s \in Seq(S), NEW x \in S
    PROVE  /\ Append(s, x) \in Seq(S)
           /\ Len(Append(s, x)) = Len(s) + 1
           /\ \A i \in 1 .. Len(s) : Append(s, x)[i] = s[i]
           /\ Range(Append(s, x)) = Range(s) \cup {x}
  <1>1. /\ Append(s, x) \in Seq(S)
        /\ Len(Append(s, x)) = Len(s) + 1
        /\ \A i \in 1 .. Len(s) : Append(s, x)[i] = s[i]
        /\ Append(s, x)[Len(s) + 1] = x
    BY AppendProperties
  <1>2. Len(s) \in Nat /\ DOMAIN s = 1 .. Len(s) /\ DOMAIN Append(s, x) = 1 .. Len(s) + 1
    BY <1>1, LenProperties
  <1>3. ASSUME NEW y \in Range(Append(s, x)) PROVE y \in Range(s) \cup {x}
    <2>1. PICK i \in 1 .. Len(s) + 1 : y = Append(s, x)[i]
      BY <1>2, <1>3 DEF Range
    <2>2. i \in 1 .. Len(s) \/ i = Len(s) + 1
      BY <1>2
    <2> QED
      BY <1>1, <1>2, <2>1, <2>2 DEF Range
  <1>4. Range(s) \cup {x} \subseteq Range(Append(s, x))
    <2>1. \A i \in 1 .. Len(s) : i \in 1 .. Len(s) + 1
      BY <1>2
    <2>2. Len(s) + 1 \in 1 .. Len(s) + 1
      BY <1>2
    <2> QED
      BY <1>1, <1>2, <2>1, <2>2 DEF Range
  <1> QED
    BY <1>1, <1>3, <1>4

LEMMA RemovedAt ==
    ASSUME NEW S, NEW s \in Seq(S), NEW i \in 1 .. Len(s)
    PROVE  RemoveAt(s, i) \in Seq(S)
  <1>1. Len(s) \in Nat /\ \A j \in 1 .. Len(s) : s[j] \in S
    BY LenProperties, ElementOfSeq
  <1>2. SubSeq(s, 1, i - 1) \in Seq(S)
    <2>1. i - 1 \in Int /\ \A j \in 1 .. i - 1 : s[j] \in S
      BY <1>1
    <2> QED
      BY <2>1, SubSeqProperties
  <1>3. SubSeq(s, i + 1, Len(s)) \in Seq(S)
    <2>1. i + 1 \in Int /\ Len(s) \in Int /\ \A j \in i + 1 .. Len(s) : s[j] \in S
      BY <1>1
    <2> QED
      BY <2>1, SubSeqProperties
  <1> QED
    BY <1>2, <1>3, ConcatProperties DEF RemoveAt

(* The filter that is asked, and the handler at the index.                  *)
LEMMA FilterAsked ==
    ASSUME TypeOK, Asking
    PROVE  asked \in Filterers /\ turn \in 1 .. Len(filters[asked]) /\ Filter \in Filters
  <1>1. asked \in Filterers /\ filters[asked] \in Seq(Filters)
    BY DEF TypeOK, Asking
  <1>2. turn \in 1 .. Len(filters[asked])
    BY <1>1, LenProperties DEF TypeOK, Asking
  <1> QED
    BY <1>1, <1>2, ElementOfSeq DEF Filter

LEMMA HandlerHere ==
    ASSUME TypeOK, InList
    PROVE  cur \in Loggers /\ Here \in Handlers
  <1>1. cur \in Loggers /\ handlers[cur] \in Seq(Handlers)
    BY DEF TypeOK, InList
  <1>2. index \in 1 .. Len(handlers[cur])
    BY <1>1, LenProperties DEF TypeOK, InList
  <1> QED
    BY <1>1, <1>2, ElementOfSeq DEF Here

LEMMA TypeInit == Init => TypeOK
  <1> SUFFICES ASSUME Init PROVE TypeOK
    OBVIOUS
  <1>1. handlers \in [Loggers -> Seq(Handlers)] /\ got \in Seq(Handlers \cup {Fallback})
    BY EmptySeq, DispatchAssumption DEF Init, DispatchAssumption
  <1>2. filters \in [Filterers -> Seq(Filters)] /\ screening = filters
    BY DispatchAssumption DEF Init, DispatchAssumption
  <1>3. index \in Nat \ {0} /\ turn \in Nat \ {0} /\ changes \in 0 .. MaxChanges
    BY DispatchAssumption DEF Init, DispatchAssumption
  <1>4. pending \in BOOLEAN /\ found \in BOOLEAN /\ removals \in BOOLEAN
    BY DEF Init
  <1> QED
    BY <1>1, <1>2, <1>3, <1>4 DEF Init, TypeOK

(* Every action keeps the variables in their types.                         *)
LEMMA TypeStep == TypeOK /\ [Next]_vars => TypeOK'
  <1> SUFFICES ASSUME TypeOK, [Next]_vars PROVE TypeOK'
    OBVIOUS
  <1> USE DispatchAssumption DEF DispatchAssumption, TypeOK, vars, lists, call, loop,
          walk, fixed
  <1>1. ASSUME NEW l \in Loggers, NEW r \in Records, Log(l, r) PROVE TypeOK'
    <2>1. got' \in Seq(Handlers \cup {Fallback})
      BY <1>1, EmptySeq DEF Log
    <2>2. attached' \subseteq Loggers \X Handlers
      BY <1>1 DEF Log, Attachments
    <2>3. pending' \in BOOLEAN /\ found' \in BOOLEAN /\ removals' \in BOOLEAN
      BY <1>1 DEF Log
    <2> QED
      BY <1>1, <2>1, <2>2, <2>3, SMTT(30) DEF Log, Filterers
  <1>2. CASE FilterPasses
    BY <1>2 DEF FilterPasses, Raises
  <1>3. CASE FilterRefuses
    <2>1. index' \in Nat \ {0} /\ cur' \in Loggers \cup {None} /\ asked' = None
      BY <1>3 DEF FilterRefuses, Rejected
    <2>2. pending' \in BOOLEAN /\ outcome' \in {"running", "returned", "raised"}
      BY <1>3 DEF FilterRefuses
    <2> QED
      BY <1>3, <2>1, <2>2 DEF FilterRefuses
  <1>4. CASE FilterRaises
    BY <1>4 DEF FilterRaises, Rejected
  <1>5. CASE LoggerPasses
    BY <1>5 DEF LoggerPasses
  <1>6. CASE Offer
    <2>1. Here \in Handlers
      BY <1>6, HandlerHere DEF Offer
    <2>2. found' \in BOOLEAN /\ asked' \in Filterers \cup {None}
      BY <1>6, <2>1 DEF Offer, Filterers
    <2>3. index' \in Nat \ {0} /\ turn' \in Nat \ {0}
      BY <1>6 DEF Offer
    <2> QED
      BY <1>6, <2>2, <2>3 DEF Offer
  <1>7. CASE Emit
    <2>1. Append(got, asked) \in Seq(Handlers \cup {Fallback})
      BY <1>7, Appended DEF Emit
    <2> QED
      BY <1>7, <2>1 DEF Emit
  <1>8. CASE EmitRaises
    <2>1. Append(got, asked) \in Seq(Handlers \cup {Fallback})
      BY <1>8, Appended DEF EmitRaises
    <2> QED
      BY <1>8, <2>1 DEF EmitRaises
  <1>9. CASE Climb
    BY <1>9 DEF Climb, ListDone
  <1>10. CASE Return
    <2>1. Append(got, Fallback) \in Seq(Handlers \cup {Fallback})
      BY Appended
    <2> QED
      BY <1>10, <2>1, ZenonT(30) DEF Return
  <1>11. ASSUME NEW l \in Loggers, NEW h \in Handlers, AddHandler(l, h) PROVE TypeOK'
    <2>1. Append(handlers[l], h) \in Seq(Handlers)
      BY Appended
    <2> QED
      BY <1>11, <2>1 DEF AddHandler, Change
  <1>12. ASSUME NEW l \in Loggers, NEW h \in Handlers, RemoveHandler(l, h) PROVE TypeOK'
    <2>1. PICK i \in 1 .. Len(handlers[l]) :
              handlers' = [handlers EXCEPT ![l] = RemoveAt(@, i)]
      BY <1>12 DEF RemoveHandler
    <2>2. RemoveAt(handlers[l], i) \in Seq(Handlers)
      BY RemovedAt
    <2> QED
      BY <1>12, <2>1, <2>2 DEF RemoveHandler, Change
  <1>13. ASSUME NEW x \in Filterers, NEW f \in Filters, AddFilter(x, f) PROVE TypeOK'
    <2>1. Append(filters[x], f) \in Seq(Filters)
      BY Appended
    <2> QED
      BY <1>13, <2>1 DEF AddFilter, Change
  <1>14. ASSUME NEW x \in Filterers, NEW f \in Filters, RemoveFilter(x, f) PROVE TypeOK'
    <2>1. PICK i \in 1 .. Len(filters[x]) :
              filters' = [filters EXCEPT ![x] = RemoveAt(@, i)]
      BY <1>14 DEF RemoveFilter
    <2>2. RemoveAt(filters[x], i) \in Seq(Filters)
      BY RemovedAt
    <2> QED
      BY <1>14, <2>1, <2>2 DEF RemoveFilter, Change
  <1>15. CASE UNCHANGED vars
    BY <1>15
  <1> QED
    BY <1>1, <1>2, <1>3, <1>4, <1>5, <1>6, <1>7, <1>8, <1>9, <1>10, <1>11, <1>12,
       <1>13, <1>14, <1>15 DEF Next

(* The variables of a call stay within their types whatever filters and     *)
(* handlers do to the lists that it walks over by index.                    *)
THEOREM DispatchTypeCorrect == Spec => []TypeOK
  <1> QED
    BY TypeInit, TypeStep, PTL DEF Spec

-----------------------------------------------------------------------------
Walks == FilterPasses \/ FilterRefuses \/ FilterRaises \/ LoggerPasses \/ Offer
         \/ Emit \/ EmitRaises \/ Climb \/ Return

LEMMA WalksKeepLists ==
    ASSUME Walks PROVE UNCHANGED <<filters, screening, removals, record, start>>
  BY DEF Walks, FilterPasses, FilterRefuses, FilterRaises, LoggerPasses, Offer, Emit,
         EmitRaises, Climb, Return, fixed, lists

LEMMA AddsKeepCall ==
    ASSUME NEW x, NEW y, AddHandler(x, y) \/ AddFilter(x, y)
    PROVE  UNCHANGED call
  BY DEF AddHandler, AddFilter

LEMMA RemovesShow ==
    ASSUME NEW x, NEW y, RemoveHandler(x, y) \/ RemoveFilter(x, y)
    PROVE  removals' /\ UNCHANGED <<asked, cur, outcome, got, start>>
  BY DEF RemoveHandler, RemoveFilter, loop, walk

(* Filters that have all let the record through, those among them that were *)
(* there from the start did.                                                *)
LEMMA AllPassed ==
    ASSUME TypeOK, ScreensKept, ~ removals, NEW x \in Filterers,
           \A i \in 1 .. Len(filters[x]) : <<filters[x][i], record>> \notin Refusing
    PROVE  ~ Barred(x)
  <1> SUFFICES ASSUME NEW f \in Range(screening[x]), <<f, record>> \in Refusing PROVE FALSE
    BY DEF Barred
  <1>1. DOMAIN screening[x] = 1 .. Len(screening[x])
    BY LenProperties DEF TypeOK
  <1>2. PICK i \in 1 .. Len(screening[x]) : f = screening[x][i]
    BY <1>1 DEF Range
  <1> QED
    BY <1>2 DEF ScreensKept

LEMMA WalkedThrough ==
    ASSUME TypeOK, ScreensKept, NoRefusalYet, Passed, ~ removals
    PROVE  ~ Barred(asked)
  <1>1. asked \in Filterers /\ filters[asked] \in Seq(Filters)
    BY DEF TypeOK, Passed
  <1>2. \A i \in 1 .. Len(filters[asked]) : i < turn
    BY <1>1, LenProperties DEF TypeOK, Passed
  <1> QED
    BY <1>1, <1>2, AllPassed DEF NoRefusalYet, Passed

LEMMA ScreensStep == TypeOK /\ ScreensKept /\ [Next]_vars => ScreensKept'
  <1> SUFFICES ASSUME TypeOK, ScreensKept, [Next]_vars, ~ removals',
                      NEW x \in Filterers, NEW i \in 1 .. Len(screening'[x])
               PROVE  i \in 1 .. Len(filters'[x]) /\ filters'[x][i] = screening'[x][i]
    BY DEF ScreensKept
  <1>1. CASE UNCHANGED <<filters, screening, removals>>
    BY <1>1 DEF ScreensKept
  <1>2. ASSUME NEW l \in Loggers, NEW r \in Records, Log(l, r)
        PROVE  i \in 1 .. Len(filters'[x]) /\ filters'[x][i] = screening'[x][i]
    BY <1>2 DEF Log, lists
  <1>3. ASSUME NEW y \in Filterers, NEW f \in Filters, AddFilter(y, f)
        PROVE  i \in 1 .. Len(filters'[x]) /\ filters'[x][i] = screening'[x][i]
    <2>1. UNCHANGED <<screening, removals>>
      BY <1>3, AddsKeepCall DEF call
    <2>2. i \in 1 .. Len(filters[x]) /\ filters[x][i] = screening[x][i]
      BY <2>1 DEF ScreensKept
    <2>3. filters'[x] = filters[x] \/ filters'[x] = Append(filters[x], f)
      BY <1>3 DEF AddFilter, TypeOK
    <2>4. filters[x] \in Seq(Filters) /\ Len(filters[x]) \in Nat
      BY LenProperties DEF TypeOK
    <2>5. /\ Len(Append(filters[x], f)) = Len(filters[x]) + 1
          /\ Append(filters[x], f)[i] = filters[x][i]
      BY <2>2, <2>4, Appended
    <2>6. i \in 1 .. Len(filters[x]) + 1
      BY <2>2, <2>4
    <2> QED
      BY <2>1, <2>2, <2>3, <2>5, <2>6
  <1>4. CASE Walks
    BY <1>1, <1>4, WalksKeepLists
  <1>5. ASSUME NEW l \in Loggers, NEW h \in Handlers, AddHandler(l, h)
        PROVE  UNCHANGED <<filters, screening, removals>>
    BY <1>5 DEF AddHandler, call
  <1>6. CASE UNCHANGED vars
    BY <1>1, <1>6 DEF vars, lists, call
  <1> QED
    BY <1>1, <1>2, <1>3, <1>4, <1>5, <1>6, RemovesShow DEF Next, Walks

LEMMA TurnStep == TypeOK /\ TurnFits /\ [Next]_vars => TurnFits'
  <1> SUFFICES ASSUME TypeOK, TurnFits, [Next]_vars, Running', ~ removals', asked' # None
               PROVE  turn' <= Len(filters'[asked']) + 1
    BY DEF TurnFits
  <1>1. CASE UNCHANGED <<filters, asked, turn, outcome, removals>>
    BY <1>1 DEF TurnFits, Running
  <1>2. CASE turn' = 1
    <2>1. asked' \in Filterers /\ filters'[asked'] \in Seq(Filters)
      BY TypeStep DEF TypeOK
    <2> QED
      BY <1>2, <2>1, LenProperties
  <1>3. CASE FilterPasses
    <2>1. UNCHANGED <<filters, asked>> /\ turn' = turn + 1
      BY <1>3 DEF FilterPasses, fixed, lists
    <2>2. turn \in Nat /\ Len(filters[asked]) \in Nat /\ turn <= Len(filters[asked])
      BY <1>3, FilterAsked, LenProperties DEF FilterPasses, Asking, TypeOK
    <2> QED
      BY <2>1, <2>2
  <1>4. CASE Offer
    BY <1>1, <1>2, <1>4 DEF Offer, InList, fixed, lists, walk
  <1>5. CASE Climb
    BY <1>5 DEF Climb, ListDone, walk
  <1>6. CASE Return
    BY <1>6 DEF Return, Running
  <1>7. CASE FilterRefuses \/ FilterRaises \/ LoggerPasses \/ Emit \/ EmitRaises
    BY <1>7 DEF FilterRefuses, FilterRaises, Rejected, LoggerPasses, Emit, EmitRaises
  <1>8. ASSUME NEW y \in Filterers, NEW f \in Filters, AddFilter(y, f)
        PROVE  turn' <= Len(filters'[asked']) + 1
    <2>1. UNCHANGED <<asked, turn, outcome, removals>>
      BY <1>8, AddsKeepCall DEF call, walk
    <2>2. asked \in Filterers /\ filters[asked] \in Seq(Filters) /\ Len(filters[asked]) \in Nat
      BY <2>1, LenProperties DEF TypeOK
    <2>3. filters'[asked] = filters[asked] \/ filters'[asked] = Append(filters[asked], f)
      BY <1>8, <2>2 DEF AddFilter, TypeOK
    <2>4. Len(Append(filters[asked], f)) = Len(filters[asked]) + 1
      BY <2>2, Appended
    <2>5. turn \in Nat /\ turn <= Len(filters[asked]) + 1
      BY <2>1 DEF TurnFits, Running, TypeOK
    <2> QED
      BY <2>1, <2>2, <2>3, <2>4, <2>5
  <1>9. ASSUME NEW l \in Loggers, NEW r \in Records, Log(l, r) PROVE turn' = 1
    BY <1>9 DEF Log
  <1>10. ASSUME NEW l \in Loggers, NEW h \in Handlers, AddHandler(l, h)
         PROVE  UNCHANGED <<filters, asked, turn, outcome, removals>>
    BY <1>10 DEF AddHandler, call, walk
  <1>11. CASE UNCHANGED vars
    BY <1>1, <1>11 DEF vars, lists, call, walk
  <1> QED
    BY <1>1, <1>2, <1>3, <1>4, <1>5, <1>6, <1>7, <1>8, <1>9, <1>10, <1>11, RemovesShow
    DEF Next

LEMMA NoRefusalStep == TypeOK /\ TurnFits /\ NoRefusalYet /\ [Next]_vars => NoRefusalYet'
  <1> SUFFICES ASSUME TypeOK, TurnFits, NoRefusalYet, [Next]_vars,
                      Running', ~ removals', asked' # None,
                      NEW i \in 1 .. Len(filters'[asked']), i < turn'
               PROVE  <<filters'[asked'][i], record'>> \notin Refusing
    BY DEF NoRefusalYet
  <1>1. CASE UNCHANGED <<filters, record, asked, turn, outcome, removals>>
    BY <1>1 DEF NoRefusalYet, Running
  <1>2. CASE turn' = 1
    <2>1. asked' \in Filterers /\ filters'[asked'] \in Seq(Filters)
      BY TypeStep DEF TypeOK
    <2> QED
      BY <1>2, <2>1, LenProperties
  <1>3. CASE FilterPasses
    <2>1. UNCHANGED <<filters, record, asked, outcome, removals>> /\ turn' = turn + 1
      BY <1>3 DEF FilterPasses, fixed, lists
    <2>2. CASE i = turn
      <3>1. <<Filter, record>> \notin Refusing
        <4>1. CASE <<Filter, record>> \in Raising
          BY <4>1, DispatchAssumption DEF DispatchAssumption
        <4>2. CASE <<Filter, record>> \notin Raising
          BY <1>3, <4>2 DEF FilterPasses, Raises
        <4> QED
          BY <4>1, <4>2
      <3> QED
        BY <2>1, <2>2, <3>1 DEF Filter
    <2>3. CASE i < turn
      BY <2>1, <2>3 DEF NoRefusalYet, Running
    <2>4. asked' \in Filterers /\ filters'[asked'] \in Seq(Filters) /\ turn \in Nat
      BY TypeStep DEF TypeOK
    <2>5. i = turn \/ i < turn
      BY <2>1, <2>4, LenProperties
    <2> QED
      BY <2>2, <2>3, <2>5
  <1>4. CASE Offer
    BY <1>1, <1>2, <1>4 DEF Offer, InList, fixed, lists, walk
  <1>5. CASE Climb
    BY <1>5 DEF Climb, ListDone, walk
  <1>6. CASE Return
    BY <1>6 DEF Return, Running
  <1>7. CASE FilterRefuses \/ FilterRaises \/ LoggerPasses \/ Emit \/ EmitRaises
    BY <1>7 DEF FilterRefuses, FilterRaises, Rejected, LoggerPasses, Emit, EmitRaises
  <1>8. ASSUME NEW y \in Filterers, NEW f \in Filters, AddFilter(y, f)
        PROVE  <<filters'[asked'][i], record'>> \notin Refusing
    <2>1. UNCHANGED <<record, asked, turn, outcome, removals>>
      BY <1>8, AddsKeepCall DEF call, walk
    <2>2. asked \in Filterers /\ filters[asked] \in Seq(Filters) /\ Len(filters[asked]) \in Nat
      BY <2>1, LenProperties DEF TypeOK
    <2>3. filters'[asked] = filters[asked] \/ filters'[asked] = Append(filters[asked], f)
      BY <1>8, <2>2 DEF AddFilter, TypeOK
    <2>4. CASE i \in 1 .. Len(filters[asked])
      <3>1. filters'[asked][i] = filters[asked][i]
        BY <2>2, <2>3, <2>4, Appended
      <3> QED
        BY <2>1, <2>4, <3>1 DEF NoRefusalYet, Running
    <2>5. CASE filters'[asked] = Append(filters[asked], f) /\ i = Len(filters[asked]) + 1
      <3>1. turn <= Len(filters[asked]) + 1
        BY <2>1 DEF TurnFits, Running
      <3> QED
        BY <2>1, <2>5, <3>1, <2>2 DEF TypeOK
    <2> QED
      BY <2>1, <2>2, <2>3, <2>4, <2>5, Appended
  <1>9. ASSUME NEW l \in Loggers, NEW r \in Records, Log(l, r) PROVE turn' = 1
    BY <1>9 DEF Log
  <1>10. ASSUME NEW l \in Loggers, NEW h \in Handlers, AddHandler(l, h)
         PROVE  UNCHANGED <<filters, record, asked, turn, outcome, removals>>
    BY <1>10 DEF AddHandler, call, walk
  <1>11. CASE UNCHANGED vars
    BY <1>1, <1>11 DEF vars, lists, call, walk
  <1> QED
    BY <1>1, <1>2, <1>3, <1>4, <1>5, <1>6, <1>7, <1>8, <1>9, <1>10, <1>11, RemovesShow
    DEF Next

LEMMA NotBoth ==
    /\ None \notin Filterers /\ None \notin Loggers /\ None \notin Handlers
    /\ \A x \in Handlers : x \notin Loggers
    /\ Fallback \notin Handlers
  BY DispatchAssumption DEF DispatchAssumption, Filterers

LEMMA LoggerFirstStep == TypeOK /\ LoggerFirst /\ [Next]_vars => LoggerFirst'
  <1> SUFFICES ASSUME TypeOK, LoggerFirst, [Next]_vars, Running', asked' \in Loggers
               PROVE  asked' = start' /\ cur' = start' /\ got' = <<>>
    BY DEF LoggerFirst
  <1>1. CASE UNCHANGED <<asked, cur, outcome, got, start>>
    BY <1>1 DEF LoggerFirst, Running
  <1>2. ASSUME NEW l \in Loggers, NEW r \in Records, Log(l, r)
        PROVE  asked' = start' /\ cur' = start' /\ got' = <<>>
    BY <1>2 DEF Log
  <1>3. CASE FilterPasses
    BY <1>1, <1>3 DEF FilterPasses, fixed, loop
  <1>4. CASE FilterRefuses \/ FilterRaises \/ LoggerPasses \/ Emit \/ EmitRaises
    BY <1>4, NotBoth DEF FilterRefuses, FilterRaises, Rejected, LoggerPasses, Emit,
                         EmitRaises
  <1>5. CASE Offer
    BY <1>5, HandlerHere, NotBoth DEF Offer, InList, walk
  <1>6. CASE Climb
    BY <1>6, NotBoth DEF Climb, ListDone, walk
  <1>7. CASE Return
    BY <1>7 DEF Return, Running
  <1>8. ASSUME NEW x, NEW y, AddHandler(x, y) \/ AddFilter(x, y)
        PROVE  UNCHANGED <<asked, cur, outcome, got, start>>
    BY <1>8, AddsKeepCall DEF call, loop, walk
  <1>9. CASE UNCHANGED vars
    BY <1>1, <1>9 DEF vars, call, loop, walk
  <1> QED
    BY <1>1, <1>2, <1>3, <1>4, <1>5, <1>6, <1>7, <1>8, <1>9, RemovesShow DEF Next

LEMMA StartStep ==
    DispatchInv /\ [Next]_vars => StartPassed'
  <1> SUFFICES ASSUME DispatchInv, [Next]_vars PROVE StartPassed'
    OBVIOUS
  <1> USE DEF DispatchInv
  <1>1. CASE UNCHANGED <<screening, removals, record, start, asked, outcome, got>>
    BY <1>1 DEF StartPassed, Filtered, Running, Barred
  <1>2. ASSUME NEW l \in Loggers, NEW r \in Records, Log(l, r) PROVE StartPassed'
    BY <1>2, NotBoth DEF Log, StartPassed
  <1>3. CASE Walks
    <2>1. Running
      BY <1>3 DEF Walks, FilterPasses, FilterRefuses, FilterRaises, Asking, LoggerPasses,
                  Passed, Offer, InList, Emit, EmitRaises, Climb, ListDone, Return
    <2>2. start' = start /\ start # None /\ (Barred(start)' <=> Barred(start))
      BY <1>3, <2>1, WalksKeepLists DEF StartPassed, Barred
    <2>3. Filtered' <=> Filtered
      BY <1>3, WalksKeepLists DEF Filtered
    <2>4. CASE asked \notin Loggers
      BY <2>1, <2>2, <2>3, <2>4 DEF StartPassed
    <2>5. CASE asked \in Loggers
      <3>1. asked = start /\ cur = start /\ got = <<>>
        BY <2>1, <2>5 DEF LoggerFirst
      <3>2. CASE FilterPasses
        BY <2>2, <2>5, <3>1, <3>2 DEF FilterPasses, StartPassed
      <3>3. CASE FilterRefuses \/ FilterRaises
        BY <2>2, <2>5, <3>1, <3>3 DEF FilterRefuses, FilterRaises, StartPassed, Running
      <3>4. CASE LoggerPasses
        <4>1. Filtered => ~ Barred(start)
          BY <3>1, <3>4, WalkedThrough DEF LoggerPasses, Filtered
        <4> QED
          BY <2>2, <2>3, <4>1 DEF StartPassed
      <3>5. ~ (Offer \/ Emit \/ EmitRaises \/ Climb \/ Return)
        BY <2>2, <2>5, <3>1, NotBoth DEF Offer, InList, Emit, EmitRaises, Climb, ListDone,
                                         Return
      <3> QED
        BY <1>3, <3>2, <3>3, <3>4, <3>5 DEF Walks
    <2> QED
      BY <2>4, <2>5
  <1>4. ASSUME NEW x, NEW y, AddHandler(x, y) \/ AddFilter(x, y) PROVE StartPassed'
    BY <1>1, <1>4, AddsKeepCall DEF call, walk
  <1>5. ASSUME NEW x, NEW y, RemoveHandler(x, y) \/ RemoveFilter(x, y) PROVE StartPassed'
    BY <1>5, RemovesShow DEF StartPassed, Filtered, Running
  <1>6. CASE UNCHANGED vars
    BY <1>1, <1>6 DEF vars, lists, call, walk
  <1> QED
    BY <1>2, <1>3, <1>4, <1>5, <1>6 DEF Next, Walks

LEMMA OneMore ==
    ASSUME TypeOK, NEW x \in Handlers \cup {Fallback}
    PROVE  Range(Append(got, x)) = Range(got) \cup {x}
  <1>1. got \in Seq(Handlers \cup {Fallback})
    BY DEF TypeOK
  <1> QED
    BY <1>1, Appended

LEMMA HandlersStep ==
    DispatchInv /\ [Next]_vars => HandlersPassed'
  <1> SUFFICES ASSUME DispatchInv, [Next]_vars, Filtered',
                      NEW h \in Handlers, Barred(h)'
               PROVE  h \notin Range(got')
    BY DEF HandlersPassed
  <1> USE DEF DispatchInv
  <1>1. CASE UNCHANGED <<screening, removals, record, start, got>>
    BY <1>1 DEF HandlersPassed, Filtered, Barred
  <1>2. ASSUME NEW l \in Loggers, NEW r \in Records, Log(l, r) PROVE h \notin Range(got')
    BY <1>2 DEF Log, Range
  <1>3. CASE Walks
    <2>1. Filtered /\ Barred(h) /\ h \notin Range(got)
      BY <1>3, WalksKeepLists DEF Filtered, Barred, HandlersPassed
    <2>2. CASE got' = got
      BY <2>1, <2>2
    <2>3. CASE Emit \/ EmitRaises
      <3>1. Passed /\ asked \in Handlers
        BY <2>3 DEF Emit, EmitRaises
      <3>2. ~ Barred(asked)
        BY <2>1, <3>1, WalkedThrough DEF Filtered
      <3>3. CASE got' = Append(got, asked)
        <4>1. asked \in Handlers \cup {Fallback}
          BY <3>1
        <4>2. Range(Append(got, asked)) = Range(got) \cup {asked}
          BY <4>1, OneMore
        <4> QED
          BY <2>1, <3>2, <3>3, <4>2
      <3>4. got' = got \/ got' = Append(got, asked)
        BY <2>3 DEF Emit, EmitRaises
      <3> QED
        BY <2>2, <3>3, <3>4
    <2>4. CASE Return
      <3>1. got' \in {got, Append(got, Fallback)}
        BY <2>4 DEF Return
      <3>2. Range(Append(got, Fallback)) = Range(got) \cup {Fallback}
        <4>1. Fallback \in Handlers \cup {Fallback}
          OBVIOUS
        <4> QED
          BY <4>1, OneMore
      <3> QED
        BY <2>1, <3>1, <3>2, NotBoth
    <2>5. FilterPasses \/ FilterRefuses \/ FilterRaises \/ LoggerPasses \/ Offer \/ Climb
          => got' = got
      BY DEF FilterPasses, FilterRefuses, FilterRaises, LoggerPasses, Offer, Climb
    <2> QED
      BY <1>3, <2>2, <2>3, <2>4, <2>5 DEF Walks
  <1>4. ASSUME NEW x, NEW y, AddHandler(x, y) \/ AddFilter(x, y)
        PROVE  h \notin Range(got')
    BY <1>1, <1>4, AddsKeepCall DEF call
  <1>5. ASSUME NEW x, NEW y, RemoveHandler(x, y) \/ RemoveFilter(x, y) PROVE FALSE
    BY <1>5, RemovesShow DEF Filtered
  <1>6. CASE UNCHANGED vars
    BY <1>1, <1>6 DEF vars, call
  <1> QED
    BY <1>2, <1>3, <1>4, <1>5, <1>6 DEF Next, Walks

LEMMA DispatchInit == Init => DispatchInv
  <1> SUFFICES ASSUME Init PROVE DispatchInv
    OBVIOUS
  <1>1. ScreensKept /\ TurnFits /\ NoRefusalYet /\ LoggerFirst /\ StartPassed /\ HandlersPassed
    BY DEF Init, ScreensKept, TurnFits, NoRefusalYet, LoggerFirst, StartPassed,
           HandlersPassed, Filtered, Running
  <1> QED
    BY <1>1, TypeInit DEF DispatchInv

LEMMA RefusedOut == DispatchInv => RefusedStaysOut
  BY DEF DispatchInv, StartPassed, HandlersPassed, Filtered, RefusedStaysOut

(* A record that a filter refuses gets neither past that filter's logger    *)
(* nor to that filter's handler, for any filters and handlers, as long as   *)
(* nothing is removed while the call is under way (filterer.cxx:39).        *)
THEOREM RefusedRecordsStayOut == Spec => []RefusedStaysOut
  <1>1. DispatchInv /\ [Next]_vars => DispatchInv'
    BY TypeStep, ScreensStep, TurnStep, NoRefusalStep, LoggerFirstStep, StartStep,
       HandlersStep DEF DispatchInv
  <1> QED
    BY <1>1, DispatchInit, RefusedOut, PTL DEF Spec

-----------------------------------------------------------------------------
(* Reached(l) is the least set of loggers with l that has with a logger that*)
(* propagates the one above it.                                             *)
Closed(S) == \A k \in S : propagate[k] /\ Parent[k] # None => Parent[k] \in S

LEMMA ReachedClosed ==
    ASSUME NEW l \in Loggers
    PROVE  Reached(l) \subseteq Loggers /\ l \in Reached(l) /\ Closed(Reached(l))
  <1>1. Reached(l) \subseteq Loggers /\ l \in Reached(l)
    BY DEF Reached
  <1>2. ASSUME NEW k \in Reached(l), propagate[k], Parent[k] # None
        PROVE  Parent[k] \in Reached(l)
    <2>1. Parent[k] \in Loggers
      BY <1>1, <1>2, DispatchAssumption DEF DispatchAssumption
    <2>2. ASSUME NEW S \in SUBSET Loggers, l \in S, Closed(S)
          PROVE  Parent[k] \in S
      BY <1>2, <2>2 DEF Reached, Closed
    <2> QED
      BY <2>1, <2>2 DEF Reached, Closed
  <1> QED
    BY <1>1, <1>2 DEF Closed

LEMMA ReachedLeast ==
    ASSUME NEW l \in Loggers, NEW S \in SUBSET Loggers, l \in S, Closed(S)
    PROVE  Reached(l) \subseteq S
  BY DEF Reached, Closed

LEMMA ReachedEnd ==
    ASSUME NEW l \in Loggers, ~ propagate[l] \/ Parent[l] = None
    PROVE  Reached(l) = {l}
  <1>1. {l} \in SUBSET Loggers /\ Closed({l})
    BY DEF Closed
  <1> QED
    BY <1>1, ReachedClosed, ReachedLeast

LEMMA ReachedAbove ==
    ASSUME NEW l \in Loggers, propagate[l], Parent[l] # None
    PROVE  Parent[l] \in Loggers /\ Reached(l) = {l} \cup Reached(Parent[l])
  <1>1. Parent[l] \in Loggers
    BY DispatchAssumption DEF DispatchAssumption
  <1>2. Reached(l) \subseteq {l} \cup Reached(Parent[l])
    <2>1. {l} \cup Reached(Parent[l]) \in SUBSET Loggers
      BY <1>1, ReachedClosed
    <2>2. Closed({l} \cup Reached(Parent[l]))
      BY <1>1, ReachedClosed DEF Closed
    <2> QED
      BY <2>1, <2>2, ReachedLeast
  <1>3. Reached(Parent[l]) \subseteq Reached(l)
    <2>1. Reached(l) \in SUBSET Loggers /\ Closed(Reached(l)) /\ Parent[l] \in Reached(l)
      BY ReachedClosed DEF Closed
    <2> QED
      BY <1>1, <2>1, ReachedLeast
  <1> QED
    BY <1>1, <1>2, <1>3, ReachedClosed

(* The way up does not come back: among the loggers above l that it would   *)
(* come back from there is one whose parent is not.                         *)
LEMMA ReachedAcyclic ==
    ASSUME NEW l \in Loggers, propagate[l], Parent[l] # None
    PROVE  l \notin Reached(Parent[l])
  <1> SUFFICES ASSUME l \in Reached(Parent[l]) PROVE FALSE
    OBVIOUS
  <1> DEFINE T == {m \in Reached(Parent[l]) : l \in Reached(m)}
  <1>1. Parent[l] \in Loggers /\ Reached(Parent[l]) \subseteq Loggers /\ Parent[l] \in T
    BY ReachedAbove, ReachedClosed
  <1>2. PICK m \in T : Parent[m] \notin T
    <2>1. T \in SUBSET Loggers /\ T # {}
      BY <1>1
    <2>2. \A S \in SUBSET Loggers : S # {} => \E k \in S : Parent[k] \notin S
      BY DispatchAssumption DEF DispatchAssumption
    <2> QED
      BY <2>1, <2>2
  <1>3. m \in Loggers /\ l \in Reached(m) /\ m # l
    BY <1>1, <1>2
  <1>4. propagate[m] /\ Parent[m] # None
    BY <1>3, ReachedEnd
  <1>5. l \in Reached(Parent[m])
    BY <1>3, <1>4, ReachedAbove
  <1>6. Parent[m] \in Reached(Parent[l])
    BY <1>1, <1>4, ReachedClosed DEF Closed
  <1> QED
    BY <1>2, <1>5, <1>6

LEMMA RemovedElements ==
    ASSUME NEW S, NEW s \in Seq(S), NEW i \in 1 .. Len(s)
    PROVE  /\ Len(RemoveAt(s, i)) = Len(s) - 1
           /\ \A j \in 1 .. Len(s) - 1 :
                 RemoveAt(s, i)[j] = IF j < i THEN s[j] ELSE s[j + 1]
  <1> DEFINE a == SubSeq(s, 1, i - 1)
             b == SubSeq(s, i + 1, Len(s))
  <1>1. Len(s) \in Nat /\ \A j \in 1 .. Len(s) : s[j] \in S
    BY LenProperties, ElementOfSeq
  <1>2. a \in Seq(S) /\ Len(a) = i - 1 /\ \A j \in 1 .. i - 1 : a[j] = s[j]
    <2>1. i - 1 \in Int /\ \A j \in 1 .. i - 1 : s[j] \in S
      BY <1>1
    <2>2. /\ SubSeq(s, 1, i - 1) \in Seq(S)
          /\ Len(SubSeq(s, 1, i - 1)) = IF 1 <= i - 1 THEN i - 1 - 1 + 1 ELSE 0
          /\ \A j \in 1 .. i - 1 - 1 + 1 : SubSeq(s, 1, i - 1)[j] = s[1 + j - 1]
      BY <2>1, SubSeqProperties
    <2> QED
      BY <2>1, <2>2
  <1>3. /\ b \in Seq(S) /\ Len(b) = Len(s) - i
        /\ \A j \in 1 .. Len(s) - i : b[j] = s[i + j]
    <2>1. i + 1 \in Int /\ Len(s) \in Int /\ \A j \in i + 1 .. Len(s) : s[j] \in S
      BY <1>1
    <2>2. /\ SubSeq(s, i + 1, Len(s)) \in Seq(S)
          /\ Len(SubSeq(s, i + 1, Len(s))) =
                IF i + 1 <= Len(s) THEN Len(s) - (i + 1) + 1 ELSE 0
          /\ \A j \in 1 .. Len(s) - (i + 1) + 1 :
                SubSeq(s, i + 1, Len(s))[j] = s[(i + 1) + j - 1]
      BY <2>1, SubSeqProperties
    <2> QED
      BY <1>1, <2>1, <2>2
  <1> HIDE DEF a, b
  <1>4. /\ Len(a \o b) = Len(a) + Len(b)
        /\ \A j \in 1 .. Len(a) + Len(b) :
              (a \o b)[j] = IF j <= Len(a) THEN a[j] ELSE b[j - Len(a)]
    BY <1>2, <1>3, ConcatProperties
  <1>5. Len(a \o b) = Len(s) - 1
    BY <1>1, <1>2, <1>3, <1>4
  <1>6. ASSUME NEW j \in 1 .. Len(s) - 1
        PROVE  (a \o b)[j] = IF j < i THEN s[j] ELSE s[j + 1]
    <2>1. (a \o b)[j] = IF j <= i - 1 THEN a[j] ELSE b[j - (i - 1)]
      BY <1>1, <1>2, <1>3, <1>4
    <2>2. CASE j < i
      BY <1>2, <2>1, <2>2
    <2>3. CASE ~ (j < i)
      <3>1. j - (i - 1) \in 1 .. Len(s) - i /\ i + (j - (i - 1)) = j + 1
        BY <1>1, <2>3
      <3> QED
        BY <1>3, <2>1, <2>3, <3>1
    <2> QED
      BY <2>2, <2>3
  <1>7. RemoveAt(s, i) = a \o b
    BY DEF RemoveAt, a, b
  <1> QED
    BY <1>5, <1>6, <1>7

(* A list without its i-th element has the others, each where it was or one *)
(* place further in front; if none was there twice, none is.                *)
LEMMA RemovedOthers ==
    ASSUME NEW S, NEW s \in Seq(S), NEW i \in 1 .. Len(s)
    PROVE  /\ IsInjective(s) => IsInjective(RemoveAt(s, i))
           /\ \A j \in 1 .. Len(s) : s[j] # s[i] =>
                 \E k \in 1 .. Len(RemoveAt(s, i)) : RemoveAt(s, i)[k] = s[j]
  <1> DEFINE t == RemoveAt(s, i)
             from(j) == IF j < i THEN j ELSE j + 1
  <1>1. Len(s) \in Nat /\ DOMAIN s = 1 .. Len(s)
    BY LenProperties
  <1>2. t \in Seq(S)
    BY RemovedAt
  <1>3. /\ Len(t) = Len(s) - 1
        /\ \A j \in 1 .. Len(s) - 1 : t[j] = IF j < i THEN s[j] ELSE s[j + 1]
    BY RemovedElements
  <1>4. DOMAIN t = 1 .. Len(s) - 1
    BY <1>2, <1>3, LenProperties
  <1> HIDE DEF t
  <1>5. \A j \in 1 .. Len(s) - 1 : from(j) \in 1 .. Len(s) /\ t[j] = s[from(j)]
    BY <1>1, <1>3
  <1>6. IsInjective(s) => IsInjective(t)
    <2> SUFFICES ASSUME IsInjective(s), NEW j \in DOMAIN t, NEW k \in DOMAIN t, t[j] = t[k]
                 PROVE  j = k
      BY DEF IsInjective
    <2>1. from(j) \in DOMAIN s /\ from(k) \in DOMAIN s /\ s[from(j)] = s[from(k)]
      BY <1>1, <1>4, <1>5
    <2>2. from(j) = from(k)
      BY <2>1 DEF IsInjective
    <2>3. j \in Int /\ k \in Int
      BY <1>4
    <2> QED
      BY <1>4, <2>2, <2>3
  <1>7. ASSUME NEW j \in 1 .. Len(s), s[j] # s[i]
        PROVE  \E k \in 1 .. Len(t) : t[k] = s[j]
    <2>1. CASE j < i
      <3>1. j \in 1 .. Len(s) - 1
        BY <1>1, <2>1
      <3> QED
        BY <1>3, <2>1, <3>1
    <2>2. CASE j > i
      <3>1. j - 1 \in 1 .. Len(s) - 1 /\ ~ (j - 1 < i) /\ (j - 1) + 1 = j
        BY <1>1, <2>2
      <3> QED
        BY <1>3, <3>1
    <2>3. j # i
      BY <1>7
    <2> QED
      BY <1>1, <2>1, <2>2, <2>3
  <1> QED
    BY <1>6, <1>7 DEF t

-----------------------------------------------------------------------------
(* No list has a handler twice, and what has been in one all along is there.*)
HandlersOnce == \A l \in Loggers : IsInjective(handlers[l])
AttachedThere == attached \subseteq Attachments

Listed == HandlersOnce /\ AttachedThere

LEMMA ListedInit == Init => Listed
  BY DispatchAssumption DEF Init, Listed, HandlersOnce, AttachedThere, DispatchAssumption

LEMMA Attached ==
    ASSUME TypeOK, NEW l \in Loggers, NEW h \in Handlers
    PROVE  <<l, h>> \in Attachments <=> \E i \in 1 .. Len(handlers[l]) : handlers[l][i] = h
  BY DEF Attachments

LEMMA WalksKeepHandlers ==
    ASSUME Walks PROVE UNCHANGED <<handlers, propagate, attached>>
  BY DEF Walks, FilterPasses, FilterRefuses, FilterRaises, LoggerPasses, Offer, Emit,
         EmitRaises, Climb, Return, fixed, lists

LEMMA PropagateKept == [Next]_vars => UNCHANGED propagate
  BY WalksKeepHandlers
  DEF Next, Walks, Log, AddHandler, RemoveHandler, AddFilter, RemoveFilter, lists, vars

LEMMA AddedHandler ==
    ASSUME TypeOK, HandlersOnce,
           NEW l \in Loggers, NEW h \in Handlers, AddHandler(l, h)
    PROVE  HandlersOnce' /\ Attachments' = Attachments \cup {<<l, h>>}
  <1>1. handlers \in [Loggers -> Seq(Handlers)]
    BY DEF TypeOK
  <1>2. handlers' = [handlers EXCEPT ![l] = Append(handlers[l], h)]
    BY <1>1 DEF AddHandler
  <1> DEFINE s == handlers[l]
             t == Append(s, h)
  <1>3. s \in Seq(Handlers) /\ Len(s) \in Nat /\ DOMAIN s = 1 .. Len(s)
    BY <1>1, LenProperties
  <1>4. /\ t \in Seq(Handlers) /\ Len(t) = Len(s) + 1
        /\ \A i \in 1 .. Len(s) : t[i] = s[i]
        /\ t[Len(s) + 1] = h
    BY <1>3, AppendProperties
  <1>5. DOMAIN t = 1 .. Len(s) + 1
    BY <1>4, LenProperties
  <1>6. \A i \in 1 .. Len(s) : s[i] # h
    BY Attached DEF AddHandler
  <1>7. handlers'[l] = t /\ \A k \in Loggers : k # l => handlers'[k] = handlers[k]
    BY <1>1, <1>2
  <1> HIDE DEF s, t
  <1>8. IsInjective(t)
    <2> SUFFICES ASSUME NEW i \in DOMAIN t, NEW j \in DOMAIN t, t[i] = t[j] PROVE i = j
      BY DEF IsInjective
    <2>1. IsInjective(s)
      BY DEF HandlersOnce, s
    <2>2. i \in 1 .. Len(s) \/ i = Len(s) + 1
      BY <1>3, <1>5
    <2>3. j \in 1 .. Len(s) \/ j = Len(s) + 1
      BY <1>3, <1>5
    <2> QED
      BY <1>3, <1>4, <1>6, <2>1, <2>2, <2>3 DEF IsInjective
  <1>9. HandlersOnce'
    BY <1>7, <1>8 DEF HandlersOnce
  <1>10. ASSUME NEW k \in Loggers, NEW g \in Handlers
         PROVE  <<k, g>> \in Attachments' <=> <<k, g>> \in Attachments \cup {<<l, h>>}
    <2>1. <<k, g>> \in Attachments' <=> \E i \in 1 .. Len(handlers'[k]) : handlers'[k][i] = g
      BY DEF Attachments
    <2>2. CASE k # l
      BY <1>7, <2>1, <2>2, Attached
    <2>3. CASE k = l
      <3>1. <<l, g>> \in Attachments <=> \E i \in 1 .. Len(s) : s[i] = g
        BY Attached DEF s
      <3>2. (\E i \in 1 .. Len(t) : t[i] = g) <=> (\E i \in 1 .. Len(s) : s[i] = g) \/ g = h
        <4>1. \A i \in 1 .. Len(t) : i \in 1 .. Len(s) \/ i = Len(s) + 1
          BY <1>3, <1>4
        <4>2. Len(s) + 1 \in 1 .. Len(t) /\ 1 .. Len(s) \subseteq 1 .. Len(t)
          BY <1>3, <1>4
        <4> QED
          BY <1>4, <4>1, <4>2
      <3> QED
        BY <1>7, <2>1, <2>3, <3>1, <3>2
    <2> QED
      BY <2>2, <2>3
  <1>11. Attachments' \subseteq Loggers \X Handlers /\ Attachments \subseteq Loggers \X Handlers
    BY DEF Attachments
  <1> QED
    BY <1>9, <1>10, <1>11

LEMMA RemovedHandler ==
    ASSUME TypeOK, HandlersOnce,
           NEW l \in Loggers, NEW h \in Handlers, RemoveHandler(l, h)
    PROVE  HandlersOnce' /\ Attachments \ {<<l, h>>} \subseteq Attachments'
  <1>1. handlers \in [Loggers -> Seq(Handlers)]
    BY DEF TypeOK
  <1>2. PICK i \in 1 .. Len(handlers[l]) :
            /\ handlers[l][i] = h
            /\ handlers' = [handlers EXCEPT ![l] = RemoveAt(handlers[l], i)]
    BY <1>1 DEF RemoveHandler
  <1>3. /\ handlers'[l] = RemoveAt(handlers[l], i)
        /\ \A k \in Loggers : k # l => handlers'[k] = handlers[k]
    BY <1>1, <1>2
  <1>4. HandlersOnce'
    <2>1. IsInjective(RemoveAt(handlers[l], i))
      BY <1>1, RemovedOthers DEF HandlersOnce
    <2> QED
      BY <1>3, <2>1 DEF HandlersOnce
  <1>5. ASSUME NEW k \in Loggers, NEW g \in Handlers,
               <<k, g>> \in Attachments, <<k, g>> # <<l, h>>
        PROVE  <<k, g>> \in Attachments'
    <2>1. <<k, g>> \in Attachments' <=> \E j \in 1 .. Len(handlers'[k]) : handlers'[k][j] = g
      BY DEF Attachments
    <2>2. PICK j \in 1 .. Len(handlers[k]) : handlers[k][j] = g
      BY <1>5, Attached
    <2>3. CASE k # l
      BY <1>3, <2>1, <2>2, <2>3
    <2>4. CASE k = l
      <3>1. g # h
        BY <1>5, <2>4
      <3>2. handlers[l] \in Seq(Handlers) /\ j \in 1 .. Len(handlers[l])
            /\ handlers[l][j] # handlers[l][i]
        BY <1>1, <1>2, <2>2, <2>4, <3>1
      <3> QED
        BY <1>3, <2>1, <2>2, <2>4, <3>2, RemovedOthers
    <2> QED
      BY <2>3, <2>4
  <1>6. Attachments \subseteq Loggers \X Handlers
    BY DEF Attachments
  <1> QED
    BY <1>4, <1>5, <1>6

LEMMA ListedStep == TypeOK /\ Listed /\ [Next]_vars => Listed'
  <1> SUFFICES ASSUME TypeOK, Listed, [Next]_vars PROVE Listed'
    OBVIOUS
  <1> USE DEF Listed
  <1>1. CASE UNCHANGED <<handlers, attached>>
    BY <1>1 DEF HandlersOnce, AttachedThere, Attachments
  <1>2. ASSUME NEW l \in Loggers, NEW r \in Records, Log(l, r) PROVE Listed'
    BY <1>2 DEF Log, lists, HandlersOnce, AttachedThere, Attachments
  <1>3. ASSUME NEW l \in Loggers, NEW h \in Handlers, AddHandler(l, h) PROVE Listed'
    <2>1. attached' = attached
      BY <1>3, AddsKeepCall DEF call
    <2> QED
      BY <1>3, <2>1, AddedHandler DEF AttachedThere
  <1>4. ASSUME NEW l \in Loggers, NEW h \in Handlers, RemoveHandler(l, h) PROVE Listed'
    <2>1. attached' = attached \ {<<l, h>>}
      BY <1>4 DEF RemoveHandler
    <2> QED
      BY <1>4, <2>1, RemovedHandler DEF AttachedThere
  <1>5. ASSUME NEW x, NEW f, AddFilter(x, f) \/ RemoveFilter(x, f)
        PROVE  UNCHANGED <<handlers, attached>>
    BY <1>5 DEF AddFilter, RemoveFilter, call
  <1>6. CASE UNCHANGED vars
    BY <1>1, <1>6 DEF vars, lists, call
  <1>7. CASE Walks
    BY <1>1, <1>7, WalksKeepHandlers
  <1> QED
    BY <1>1, <1>2, <1>3, <1>4, <1>5, <1>6, <1>7 DEF Next, Walks

-----------------------------------------------------------------------------
(* The loggers whose lists the loop is at or has still to come to.          *)
Ahead == IF cur = None THEN {} ELSE Reached(cur)

CurReached == Running /\ cur # None => cur \in Reached(start)

(* As long as no handler has been found nothing was attached all along to a *)
(* logger that the loop is done with.                                       *)
NoneFound ==
    /\ Running /\ ~ found =>
          /\ got = <<>> /\ index = 1
          /\ \A l \in Reached(start) \ Ahead : \A h \in Handlers : <<l, h>> \notin attached
    /\ Running /\ asked \in Handlers => found

NoFallbackYet == Running => Fallback \notin Range(got)

WayInv == CurReached /\ NoneFound /\ NoFallbackYet /\ FallbackIsLast

LEMMA ReachedKept ==
    ASSUME [Next]_vars, NEW l PROVE Reached(l)' = Reached(l')
  BY PropagateKept DEF Reached

(* A step of the loop up leaves one logger behind.                          *)
LEMMA Climbed ==
    ASSUME TypeOK, Climb
    PROVE  /\ cur \in Loggers /\ cur \notin Ahead' /\ Ahead = {cur} \cup Ahead'
           /\ cur' # None => propagate[cur] /\ cur' = Parent[cur] /\ cur' \in Loggers
  <1>1. cur \in Loggers /\ cur # None /\ cur' = IF propagate[cur] THEN Parent[cur] ELSE None
    BY DEF TypeOK, Climb, ListDone
  <1>2. UNCHANGED propagate
    BY DEF Climb, fixed, lists
  <1>3. Reached(cur)' = Reached(cur')
    BY <1>2 DEF Reached
  <1>4. CASE cur' = None
    BY <1>1, <1>4, ReachedEnd, NotBoth DEF Ahead
  <1>5. CASE cur' # None
    <2>1. propagate[cur] /\ cur' = Parent[cur]
      BY <1>1, <1>5
    <2>2. Parent[cur] \in Loggers /\ Reached(cur) = {cur} \cup Reached(Parent[cur])
          /\ cur \notin Reached(Parent[cur])
      BY <1>1, <1>5, <2>1, ReachedAbove, ReachedAcyclic
    <2> QED
      BY <1>1, <1>3, <1>5, <2>1, <2>2 DEF Ahead
  <1> QED
    BY <1>4, <1>5

LEMMA CurReachedStep == TypeOK /\ StartPassed /\ CurReached /\ [Next]_vars => CurReached'
  <1> SUFFICES ASSUME TypeOK, StartPassed, CurReached, [Next]_vars, Running', cur' # None
               PROVE  cur' \in Reached(start)'
    BY DEF CurReached
  <1>1. Reached(start)' = Reached(start')
    BY ReachedKept
  <1>2. CASE UNCHANGED <<cur, start>> /\ Running
    BY <1>1, <1>2 DEF CurReached
  <1>3. ASSUME NEW l \in Loggers, NEW r \in Records, Log(l, r)
        PROVE  cur' \in Reached(start)'
    BY <1>1, <1>3, ReachedClosed DEF Log
  <1>4. CASE FilterPasses \/ LoggerPasses \/ Offer \/ Emit
    BY <1>2, <1>4 DEF FilterPasses, Asking, LoggerPasses, Passed, Offer, InList, Emit, fixed,
                      loop
  <1>5. CASE FilterRefuses \/ FilterRaises
    <2>1. asked \notin Loggers /\ cur' = cur /\ start' = start /\ Running
      BY <1>5, NotBoth DEF FilterRefuses, FilterRaises, Asking, Rejected, fixed, Running
    <2> QED
      BY <1>2, <2>1
  <1>6. CASE EmitRaises \/ Return
    BY <1>6 DEF EmitRaises, Return, Running
  <1>7. CASE Climb
    <2>1. cur \in Loggers /\ propagate[cur] /\ cur' = Parent[cur] /\ start' = start /\ Running
      BY <1>7, Climbed DEF Climb, ListDone, fixed
    <2>2. start \in Loggers /\ cur # None
      BY <2>1, NotBoth DEF StartPassed, TypeOK
    <2>3. cur \in Reached(start)
      BY <2>1, <2>2 DEF CurReached
    <2> QED
      BY <1>1, <2>1, <2>2, <2>3, ReachedClosed DEF Closed
  <1>8. ASSUME NEW x, NEW y, AddHandler(x, y) \/ AddFilter(x, y)
        PROVE  UNCHANGED <<cur, start>> /\ Running
    BY <1>8, AddsKeepCall DEF call, loop, Running
  <1>9. ASSUME NEW x, NEW y, RemoveHandler(x, y) \/ RemoveFilter(x, y)
        PROVE  UNCHANGED <<cur, start>> /\ Running
    BY <1>9, RemovesShow DEF Running
  <1>10. CASE UNCHANGED vars
    BY <1>2, <1>10 DEF vars, call, loop, Running
  <1> QED
    BY <1>2, <1>3, <1>4, <1>5, <1>6, <1>7, <1>8, <1>9, <1>10 DEF Next

LEMMA NoneFoundStep ==
    TypeOK /\ Listed /\ StartPassed /\ NoneFound /\ [Next]_vars => NoneFound'
  <1> SUFFICES ASSUME TypeOK, Listed, StartPassed, NoneFound, [Next]_vars PROVE NoneFound'
    OBVIOUS
  <1>1. Reached(start)' = Reached(start') /\ Reached(cur)' = Reached(cur')
    BY ReachedKept
  <1>2. CASE /\ UNCHANGED <<cur, index, found, asked, outcome, got, start>>
             /\ attached' \subseteq attached
    BY <1>1, <1>2 DEF NoneFound, Running, Ahead
  <1>3. ASSUME NEW l \in Loggers, NEW r \in Records, Log(l, r) PROVE NoneFound'
    BY <1>1, <1>3, NotBoth DEF Log, NoneFound, Ahead
  <1>4. CASE FilterPasses
    BY <1>2, <1>4 DEF FilterPasses, fixed, loop
  <1>5. CASE FilterRefuses \/ FilterRaises
    <2>1. CASE asked \in Loggers
      BY <1>5, <2>1 DEF FilterRefuses, FilterRaises, NoneFound, Running
    <2>2. CASE asked \notin Loggers
      <3>1. asked \in Handlers /\ Running /\ found /\ found'
        BY <1>5, <2>2 DEF FilterRefuses, FilterRaises, Asking, TypeOK, Filterers, NoneFound
      <3> QED
        BY <3>1 DEF NoneFound
    <2> QED
      BY <2>1, <2>2
  <1>6. CASE LoggerPasses
    <2>1. UNCHANGED <<cur, index, found, outcome, got, start, attached>> /\ asked' \notin Handlers
      BY <1>6, NotBoth DEF LoggerPasses, fixed, loop
    <2> QED
      BY <1>1, <2>1 DEF NoneFound, Running, Ahead
  <1>7. CASE Offer
    BY <1>7 DEF Offer, NoneFound
  <1>8. CASE Emit
    BY <1>8 DEF Emit, Passed, NoneFound
  <1>9. CASE EmitRaises \/ Return
    BY <1>9 DEF EmitRaises, Return, NoneFound, Running
  <1>10. CASE Climb
    <2>1. /\ UNCHANGED <<found, asked, outcome, got, start, attached>>
          /\ Running /\ index' = 1 /\ index > Len(handlers[cur])
      BY <1>10 DEF Climb, ListDone, fixed, walk
    <2>2. /\ cur \in Loggers /\ Ahead = {cur} \cup Ahead'
      BY <1>10, Climbed
    <2>3. ASSUME ~ found, NEW h \in Handlers PROVE <<cur, h>> \notin attached
      <3>1. handlers[cur] \in Seq(Handlers) /\ Len(handlers[cur]) \in Nat /\ index = 1
        BY <2>1, <2>2, <2>3, LenProperties DEF TypeOK, NoneFound
      <3>2. 1 .. Len(handlers[cur]) = {}
        BY <2>1, <3>1
      <3> QED
        BY <2>2, <3>2, Attached DEF Listed, AttachedThere
    <2>4. ASSUME ~ found, NEW l \in Reached(start) \ Ahead', NEW h \in Handlers
          PROVE  <<l, h>> \notin attached
      BY <2>1, <2>2, <2>3, <2>4 DEF NoneFound
    <2> QED
      BY <1>1, <2>1, <2>4 DEF NoneFound, Running
  <1>11. ASSUME NEW x, NEW y, AddHandler(x, y) \/ AddFilter(x, y) PROVE NoneFound'
    BY <1>2, <1>11, AddsKeepCall DEF call, loop, walk
  <1>12. ASSUME NEW x, NEW y, RemoveHandler(x, y) \/ RemoveFilter(x, y) PROVE NoneFound'
    <2>1. UNCHANGED <<cur, index, found, asked, outcome, got, start>>
      BY <1>12 DEF RemoveHandler, RemoveFilter, loop, walk
    <2>2. attached' \subseteq attached
      BY <1>12 DEF RemoveHandler, RemoveFilter
    <2> QED
      BY <1>2, <2>1, <2>2
  <1>13. CASE UNCHANGED vars
    BY <1>2, <1>13 DEF vars, call, loop, walk
  <1> QED
    BY <1>3, <1>4, <1>5, <1>6, <1>7, <1>8, <1>9, <1>10, <1>11, <1>12, <1>13 DEF Next

(* Only the end of the loop gives the record to the fallback.               *)
LEMMA NoFallbackStep == TypeOK /\ NoFallbackYet /\ [Next]_vars => NoFallbackYet'
  <1> SUFFICES ASSUME TypeOK, NoFallbackYet, [Next]_vars, Running'
               PROVE  Fallback \notin Range(got')
    BY DEF NoFallbackYet
  <1>1. CASE UNCHANGED <<outcome, got>>
    BY <1>1 DEF NoFallbackYet, Running
  <1>2. ASSUME NEW l \in Loggers, NEW r \in Records, Log(l, r)
        PROVE  Fallback \notin Range(got')
    BY <1>2 DEF Log, Range
  <1>3. CASE FilterPasses \/ LoggerPasses \/ Offer \/ Climb
    BY <1>1, <1>3 DEF FilterPasses, LoggerPasses, Offer, Climb
  <1>4. CASE FilterRefuses \/ FilterRaises
    BY <1>1, <1>4 DEF FilterRefuses, FilterRaises, Running
  <1>5. CASE Emit
    <2>1. asked \in Handlers \cup {Fallback} /\ asked # Fallback /\ Running
          /\ got' = Append(got, asked)
      BY <1>5, NotBoth DEF Emit, Passed
    <2>2. Range(Append(got, asked)) = Range(got) \cup {asked}
      BY <2>1, OneMore
    <2> QED
      BY <2>1, <2>2 DEF NoFallbackYet
  <1>6. CASE EmitRaises \/ Return
    BY <1>6 DEF EmitRaises, Return, Running
  <1>7. ASSUME NEW x, NEW y, AddHandler(x, y) \/ AddFilter(x, y)
        PROVE  UNCHANGED <<outcome, got>>
    BY <1>7, AddsKeepCall DEF call
  <1>8. CASE UNCHANGED vars
    BY <1>1, <1>8 DEF vars, call
  <1> QED
    BY <1>1, <1>2, <1>3, <1>4, <1>5, <1>6, <1>7, <1>8, RemovesShow DEF Next

LEMMA FallbackStep ==
    TypeOK /\ StartPassed /\ NoneFound /\ NoFallbackYet /\ FallbackIsLast /\ [Next]_vars
        => FallbackIsLast'
  <1> SUFFICES ASSUME TypeOK, StartPassed, NoneFound, NoFallbackYet, FallbackIsLast, [Next]_vars,
                      Fallback \in Range(got')
               PROVE  got' = <<Fallback>> /\ \A h \in Handlers : PlacesOf(h)' = {}
    BY DEF FallbackIsLast
  <1>1. Reached(start)' = Reached(start')
    BY ReachedKept
  <1>2. CASE UNCHANGED <<got, start>> /\ attached' \subseteq attached
    BY <1>1, <1>2 DEF FallbackIsLast, PlacesOf
  <1>3. ASSUME NEW l \in Loggers, NEW r \in Records, Log(l, r) PROVE FALSE
    BY <1>3 DEF Log, Range
  <1>4. CASE FilterPasses \/ FilterRefuses \/ FilterRaises \/ LoggerPasses \/ Offer \/ Climb
    BY <1>2, <1>4 DEF FilterPasses, FilterRefuses, FilterRaises, LoggerPasses, Offer, Climb, fixed
  <1>5. CASE Emit \/ EmitRaises
    <2>1. asked \in Handlers \cup {Fallback} /\ asked # Fallback /\ Running
          /\ got' \in {got, Append(got, asked)}
      BY <1>5, NotBoth DEF Emit, EmitRaises, Passed
    <2>2. Range(Append(got, asked)) = Range(got) \cup {asked}
      BY <2>1, OneMore
    <2> QED
      BY <2>1, <2>2 DEF NoFallbackYet
  <1>6. CASE Return
    <2>1. Running /\ Fallback \notin Range(got) /\ UNCHANGED <<start, attached>> /\ Ahead = {}
      BY <1>6 DEF Return, NoFallbackYet, fixed, Ahead
    <2>2. ~ found /\ got' = Append(got, Fallback)
      BY <1>6, <2>1 DEF Return
    <2>3. got = <<>> /\ \A l \in Reached(start) : \A h \in Handlers : <<l, h>> \notin attached
      BY <2>1, <2>2 DEF NoneFound
    <2> QED
      BY <1>1, <2>1, <2>2, <2>3 DEF PlacesOf
  <1>7. ASSUME NEW x, NEW y, AddHandler(x, y) \/ AddFilter(x, y)
        PROVE  UNCHANGED <<got, start>> /\ attached' \subseteq attached
    BY <1>7, AddsKeepCall DEF call
  <1>8. ASSUME NEW x, NEW y, RemoveHandler(x, y) \/ RemoveFilter(x, y)
        PROVE  UNCHANGED <<got, start>> /\ attached' \subseteq attached
    BY <1>8 DEF RemoveHandler, RemoveFilter
  <1>9. CASE UNCHANGED vars
    BY <1>2, <1>9 DEF vars, call
  <1> QED
    BY <1>2, <1>3, <1>4, <1>5, <1>6, <1>7, <1>8, <1>9 DEF Next

LEMMA WayInit == Init => WayInv
  BY DEF Init, WayInv, CurReached, NoneFound, NoFallbackYet, FallbackIsLast, Running, Range

LEMMA WayStep == DispatchInv /\ Listed /\ WayInv /\ [Next]_vars => WayInv'
  BY CurReachedStep, NoneFoundStep, NoFallbackStep, FallbackStep DEF DispatchInv, WayInv

LEMMA DispatchStep == DispatchInv /\ [Next]_vars => DispatchInv'
  BY TypeStep, ScreensStep, TurnStep, NoRefusalStep, LoggerFirstStep, StartStep,
     HandlersStep DEF DispatchInv

(* The record goes to stderr only if nothing was attached all along to any  *)
(* logger on its way, and then to no handler: for any tree of loggers, and  *)
(* whatever is added and removed under the loop (logger.cxx:371).           *)
THEOREM FallbackComesLast == Spec => []FallbackIsLast
  <1>1. Init => DispatchInv /\ Listed /\ WayInv
    BY DispatchInit, ListedInit, WayInit
  <1>2. DispatchInv /\ Listed /\ WayInv /\ [Next]_vars => (DispatchInv /\ Listed /\ WayInv)'
    BY DispatchStep, ListedStep, WayStep DEF DispatchInv
  <1>3. WayInv => FallbackIsLast
    BY DEF WayInv
  <1> QED
    BY <1>1, <1>2, <1>3, PTL DEF Spec

-----------------------------------------------------------------------------
(* The loggers of the way to which h is attached and whose lists have been  *)
(* walked to the end, or beyond h.                                          *)
Behind(h) ==
    {l \in Reached(start) :
        /\ <<l, h>> \in Attachments
        /\ \/ l \notin Ahead
           \/ l = cur /\ \E i \in 1 .. Len(handlers[cur]) : i < index /\ handlers[cur][i] = h}

AllOf(h) == {l \in Reached(start) : <<l, h>> \in Attachments}
Lasting(h) == {l \in Behind(h) : <<l, h>> \in attached}

(* While the filters of a handler are asked it is the one at the index.     *)
AskedHere ==
    Running /\ ~ removals /\ asked \in Handlers =>
        cur \in Loggers /\ index \in 1 .. Len(handlers[cur]) /\ handlers[cur][index] = asked

(* No exception is left behind if no filter raises.                         *)
CalmFits == Running /\ ~ removals /\ Agreed(start) /\ Calm => ~ pending

ServedSoFar ==
    Running /\ ~ removals =>
        \A h \in Handlers :
            /\ Entitled(h) /\ Undisturbed(h) => Times(h) >= Cardinality(Lasting(h))
            /\ Times(h) <= Cardinality(Behind(h))

CountInv == AskedHere /\ CalmFits /\ ServedSoFar /\ EveryHandlerServed

LEMMA LoggersCount ==
    ASSUME NEW S \in SUBSET Loggers
    PROVE  /\ IsFiniteSet(S) /\ Cardinality(S) \in Nat
           /\ \A T \in SUBSET S : Cardinality(T) \in Nat /\ Cardinality(T) <= Cardinality(S)
           /\ \A x \in Loggers \ S : Cardinality(S \cup {x}) = Cardinality(S) + 1
  <1>1. IsFiniteSet(Loggers)
    BY DispatchAssumption DEF DispatchAssumption
  <1>2. IsFiniteSet(S)
    BY <1>1, FS_Subset
  <1>3. ASSUME NEW T \in SUBSET S
        PROVE  Cardinality(T) \in Nat /\ Cardinality(T) <= Cardinality(S)
    <2>1. IsFiniteSet(T) /\ Cardinality(T) <= Cardinality(S)
      BY <1>2, FS_Subset
    <2> QED
      BY <2>1, FS_CardinalityType
  <1>4. ASSUME NEW x \in Loggers \ S PROVE Cardinality(S \cup {x}) = Cardinality(S) + 1
    <2>1. x \notin S
      OBVIOUS
    <2> QED
      BY <1>2, <2>1, FS_AddElement
  <1> QED
    BY <1>2, <1>3, <1>4, FS_CardinalityType

LEMMA TimesNone ==
    ASSUME got = <<>>, NEW h PROVE Times(h) = 0
  <1>1. {i \in 1 .. Len(got) : got[i] = h} = {}
    OBVIOUS
  <1> QED
    BY <1>1, FS_EmptySet DEF Times

CountIn(s, h) == Cardinality({i \in 1 .. Len(s) : s[i] = h})

LEMMA CountIsNat ==
    ASSUME NEW S, NEW s \in Seq(S), NEW h
    PROVE  CountIn(s, h) \in Nat
  <1>1. Len(s) \in Nat
    BY LenProperties
  <1>2. /\ IsFiniteSet(1 .. Len(s))
        /\ {i \in 1 .. Len(s) : s[i] = h} \in SUBSET (1 .. Len(s))
    BY <1>1, FS_Interval
  <1>3. IsFiniteSet({i \in 1 .. Len(s) : s[i] = h})
    BY <1>2, FS_Subset
  <1> QED
    BY <1>3, FS_CardinalityType DEF CountIn

LEMMA TimesIsNat ==
    ASSUME NEW h
    PROVE  (TypeOK => Times(h) \in Nat) /\ (TypeOK' => Times(h)' \in Nat)
  <1>1. TypeOK => got \in Seq(Handlers \cup {Fallback})
    BY DEF TypeOK
  <1>2. TypeOK' => got' \in Seq(Handlers \cup {Fallback})
    BY DEF TypeOK
  <1>3. Times(h) = CountIn(got, h)
    BY DEF Times, CountIn
  <1>4. Times(h)' = CountIn(got', h)
    BY DEF Times, CountIn
  <1> QED
    BY <1>1, <1>2, <1>3, <1>4, CountIsNat

LEMMA TimesMore ==
    ASSUME TypeOK, NEW x \in Handlers \cup {Fallback}, got' = Append(got, x), NEW h
    PROVE  /\ Times(h) \in Nat
           /\ Times(h)' = IF x = h THEN Times(h) + 1 ELSE Times(h)
  <1> DEFINE I == {i \in 1 .. Len(got) : got[i] = h}
             J == {i \in 1 .. Len(got') : got'[i] = h}
  <1>1. got \in Seq(Handlers \cup {Fallback}) /\ Len(got) \in Nat
    BY LenProperties DEF TypeOK
  <1>2. /\ Len(got') = Len(got) + 1
        /\ \A i \in 1 .. Len(got) : got'[i] = got[i]
        /\ got'[Len(got) + 1] = x
    BY <1>1, AppendProperties
  <1>3. IsFiniteSet(I) /\ Cardinality(I) \in Nat
    <2>1. IsFiniteSet(1 .. Len(got)) /\ I \in SUBSET (1 .. Len(got))
      BY <1>1, FS_Interval
    <2>2. IsFiniteSet(I)
      BY <2>1, FS_Subset
    <2> QED
      BY <2>2, FS_CardinalityType
  <1>4. J = IF x = h THEN I \cup {Len(got) + 1} ELSE I
    BY <1>1, <1>2
  <1>5. Len(got) + 1 \notin I
    BY <1>1
  <1>6. Cardinality(I \cup {Len(got) + 1}) = Cardinality(I) + 1
    BY <1>3, <1>5, FS_AddElement
  <1> QED
    BY <1>3, <1>4, <1>6 DEF Times

LEMMA TimesKept ==
    ASSUME UNCHANGED got, NEW h PROVE Times(h)' = Times(h)
  BY DEF Times

(* Added filters make it harder to be let through by all of them.           *)
LEMMA FilterAdded ==
    ASSUME TypeOK, NEW x \in Filterers, NEW f \in Filters, AddFilter(x, f), start \in Loggers
    PROVE  /\ Calm' => Calm
           /\ Agreed(start)' => Agreed(start)
           /\ \A h \in Handlers : Entitled(h)' => Entitled(h)
           /\ \A h \in Handlers : Undisturbed(h)' => Undisturbed(h)
  <1>1. UNCHANGED <<record, start>>
    BY AddsKeepCall DEF call
  <1>2. \A y \in Filterers : Range(filters[y]) \subseteq Range(filters'[y])
    <2>1. filters' = [filters EXCEPT ![x] = Append(filters[x], f)] /\ filters[x] \in Seq(Filters)
      BY DEF AddFilter, TypeOK
    <2>2. Range(Append(filters[x], f)) = Range(filters[x]) \cup {f}
      BY <2>1, Appended
    <2> QED
      BY <2>1, <2>2 DEF TypeOK
  <1>3. start \in Filterers /\ Handlers \subseteq Filterers
    BY DEF Filterers
  <1>4. \A y \in Filterers : Agreed(y)' => Agreed(y)
    BY <1>1, <1>2 DEF Agreed
  <1>5. Agreed(start)' => Agreed(start)
    BY <1>1, <1>2, <1>3 DEF Agreed
  <1>6. Calm' => Calm
    BY <1>1, <1>2, <1>3 DEF Calm
  <1>7. \A h \in Handlers : Entitled(h)' => Entitled(h)
    BY <1>1, <1>3, <1>4, <1>5 DEF Entitled
  <1>8. \A h \in Handlers : Undisturbed(h)' => Undisturbed(h)
    BY <1>2, <1>3, <1>6 DEF Undisturbed
  <1> QED
    BY <1>5, <1>6, <1>7, <1>8

LEMMA ConditionsKept ==
    ASSUME UNCHANGED <<filters, record, start>>
    PROVE  /\ Calm' <=> Calm
           /\ Agreed(start)' <=> Agreed(start)
           /\ \A h : (Entitled(h)' <=> Entitled(h)) /\ (Undisturbed(h)' <=> Undisturbed(h))
  BY DEF Calm, Agreed, Entitled, Undisturbed

LEMMA AskedInRange ==
    ASSUME TypeOK, Asking
    PROVE  Filter \in Range(filters[asked])
  <1>1. filters[asked] \in Seq(Filters)
    BY FilterAsked DEF TypeOK
  <1> QED
    BY <1>1, FilterAsked, LenProperties DEF Filter, Range

LEMMA CalmStep ==
    DispatchInv /\ CalmFits /\ [Next]_vars => CalmFits'
  <1> SUFFICES ASSUME DispatchInv, CalmFits, [Next]_vars,
                      Running', ~ removals', Agreed(start)', Calm'
               PROVE  ~ pending'
    BY DEF CalmFits
  <1> USE DEF DispatchInv
  <1>1. CASE UNCHANGED <<filters, record, start, pending, removals>> /\ Running
    BY <1>1, ConditionsKept DEF CalmFits
  <1>2. ASSUME NEW l \in Loggers, NEW r \in Records, Log(l, r) PROVE ~ pending'
    BY <1>2 DEF Log
  <1>3. CASE FilterPasses
    <2>1. UNCHANGED <<filters, record, start, removals>> /\ pending' = Raises /\ Asking
      BY <1>3 DEF FilterPasses, fixed, lists
    <2>2. ~ pending /\ Agreed(start) /\ Calm
      BY <2>1, ConditionsKept DEF CalmFits, Asking
    <2>3. Filter \in Range(filters[asked])
      BY <2>1, AskedInRange
    <2>4. asked = start \/ asked \in Handlers
      BY <2>1, FilterAsked DEF LoggerFirst, Filterers, Asking
    <2>5. <<Filter, record>> \notin Raising
      BY <2>2, <2>3, <2>4 DEF Agreed, Calm
    <2> QED
      BY <2>1, <2>2, <2>5 DEF Raises
  <1>4. CASE FilterRefuses
    BY <1>4 DEF FilterRefuses
  <1>5. CASE FilterRaises
    <2>1. UNCHANGED <<filters, record, start, removals>> /\ Raises /\ Asking
      BY <1>5 DEF FilterRaises, fixed, lists
    <2>2. ~ pending /\ Agreed(start) /\ Calm
      BY <2>1, ConditionsKept DEF CalmFits, Asking
    <2>3. Filter \in Range(filters[asked])
      BY <2>1, AskedInRange
    <2>4. asked = start \/ asked \in Handlers
      BY <2>1, FilterAsked DEF LoggerFirst, Filterers, Asking
    <2>5. <<Filter, record>> \notin Raising
      BY <2>2, <2>3, <2>4 DEF Agreed, Calm
    <2> QED
      BY <2>1, <2>2, <2>5 DEF Raises
  <1>6. CASE LoggerPasses \/ Offer \/ Emit \/ Climb
    BY <1>1, <1>6 DEF LoggerPasses, Passed, Offer, InList, Emit, Climb, ListDone, fixed, lists
  <1>7. CASE EmitRaises \/ Return
    BY <1>7 DEF EmitRaises, Return, Running
  <1>8. ASSUME NEW l \in Loggers, NEW h \in Handlers, AddHandler(l, h)
        PROVE  UNCHANGED <<filters, record, start, pending, removals>> /\ Running
    BY <1>8 DEF AddHandler, call, Running
  <1>9. ASSUME NEW x \in Filterers, NEW f \in Filters, AddFilter(x, f) PROVE ~ pending'
    <2>1. UNCHANGED <<start, pending, removals, outcome>>
      BY <1>9, AddsKeepCall DEF call
    <2>2. start \in Loggers
      BY <2>1 DEF StartPassed, TypeOK, Running
    <2> QED
      BY <1>9, <2>1, <2>2, FilterAdded DEF CalmFits, Running
  <1>10. CASE UNCHANGED vars
    BY <1>1, <1>10 DEF vars, lists, call, Running
  <1> QED
    BY <1>1, <1>2, <1>3, <1>4, <1>5, <1>6, <1>7, <1>8, <1>9, <1>10, RemovesShow DEF Next

(* A handler that is added comes behind those of its list.                  *)
LEMMA ListGrows ==
    ASSUME TypeOK, NEW l \in Loggers, NEW h \in Handlers, AddHandler(l, h), NEW k \in Loggers
    PROVE  /\ 1 .. Len(handlers[k]) \subseteq 1 .. Len(handlers'[k])
           /\ \A i \in 1 .. Len(handlers[k]) : handlers'[k][i] = handlers[k][i]
  <1>1. handlers[k] \in Seq(Handlers) /\ handlers[l] \in Seq(Handlers) /\ Len(handlers[k]) \in Nat
    BY LenProperties DEF TypeOK
  <1>2. handlers'[k] = IF k = l THEN Append(handlers[l], h) ELSE handlers[k]
    BY DEF AddHandler, TypeOK
  <1>3. /\ Len(Append(handlers[l], h)) = Len(handlers[l]) + 1
        /\ \A i \in 1 .. Len(handlers[l]) : Append(handlers[l], h)[i] = handlers[l][i]
    BY <1>1, Appended
  <1> QED
    BY <1>1, <1>2, <1>3

LEMMA AskedHereStep == TypeOK /\ AskedHere /\ [Next]_vars => AskedHere'
  <1> SUFFICES ASSUME TypeOK, AskedHere, [Next]_vars, Running', ~ removals', asked' \in Handlers
               PROVE  /\ cur' \in Loggers /\ index' \in 1 .. Len(handlers'[cur'])
                      /\ handlers'[cur'][index'] = asked'
    BY DEF AskedHere
  <1> DEFINE G == /\ cur' \in Loggers /\ index' \in 1 .. Len(handlers'[cur'])
                  /\ handlers'[cur'][index'] = asked'
  <1>1. CASE UNCHANGED <<handlers, cur, index, asked, outcome, removals>>
    BY <1>1 DEF AskedHere, Running
  <1>2. CASE FilterPasses
    BY <1>1, <1>2 DEF FilterPasses, fixed, lists, loop
  <1>3. CASE Offer
    <2>1. CASE <<Here, record>> \in Wanted
      <3>1. asked' = Here /\ UNCHANGED <<handlers, cur, index>> /\ InList /\ cur \in Loggers
        BY <1>3, <2>1, HandlerHere DEF Offer, fixed, lists
      <3>2. index \in 1 .. Len(handlers[cur])
        BY <3>1, LenProperties DEF InList, TypeOK
      <3> QED
        BY <3>1, <3>2 DEF Here
    <2>2. CASE <<Here, record>> \notin Wanted
      BY <1>3, <2>2, NotBoth DEF Offer, InList, walk
    <2> QED
      BY <2>1, <2>2
  <1>4. CASE FilterRefuses \/ FilterRaises \/ LoggerPasses \/ Emit \/ EmitRaises
    BY <1>4, NotBoth DEF FilterRefuses, FilterRaises, Rejected, LoggerPasses, Emit, EmitRaises
  <1>5. CASE Climb
    BY <1>5, NotBoth DEF Climb, ListDone, walk
  <1>6. CASE Return
    BY <1>6 DEF Return, Running
  <1>7. ASSUME NEW l \in Loggers, NEW r \in Records, Log(l, r) PROVE G
    BY <1>7, NotBoth DEF Log
  <1>8. ASSUME NEW l \in Loggers, NEW h \in Handlers, AddHandler(l, h) PROVE G
    <2>1. UNCHANGED <<cur, index, asked, outcome, removals>>
      BY <1>8, AddsKeepCall DEF call, loop, walk
    <2>2. cur \in Loggers /\ index \in 1 .. Len(handlers[cur]) /\ handlers[cur][index] = asked
      BY <2>1 DEF AskedHere, Running
    <2> QED
      BY <1>8, <2>1, <2>2, ListGrows
  <1>9. ASSUME NEW x, NEW f, AddFilter(x, f)
        PROVE  UNCHANGED <<handlers, cur, index, asked, outcome, removals>>
    BY <1>9 DEF AddFilter, call, loop, walk
  <1>10. CASE UNCHANGED vars
    BY <1>1, <1>10 DEF vars, lists, call, loop, walk
  <1> QED
    BY <1>1, <1>2, <1>3, <1>4, <1>5, <1>6, <1>7, <1>8, <1>9, <1>10, RemovesShow DEF Next

LEMMA BehindCounts ==
    ASSUME start \in Loggers, NEW h \in Handlers
    PROVE  /\ Behind(h) \in SUBSET Loggers
           /\ Behind(h) \in SUBSET AllOf(h)
           /\ Lasting(h) \in SUBSET Behind(h)
           /\ Cardinality(Behind(h)) \in Nat /\ Cardinality(Lasting(h)) \in Nat
           /\ Cardinality(Behind(h)) <= Cardinality(AllOf(h))
  <1>1. AllOf(h) \in SUBSET Loggers
    BY ReachedClosed DEF AllOf
  <1>2. Behind(h) \in SUBSET AllOf(h)
    BY DEF Behind, AllOf
  <1>3. Lasting(h) \in SUBSET Behind(h)
    BY DEF Lasting
  <1>4. Behind(h) \in SUBSET Loggers
    BY <1>1, <1>2
  <1> QED
    BY <1>1, <1>2, <1>3, <1>4, LoggersCount

LEMMA BehindKept ==
    ASSUME [Next]_vars, UNCHANGED <<handlers, cur, index, start, attached>>, NEW h
    PROVE  Behind(h)' = Behind(h) /\ Lasting(h)' = Lasting(h)
  <1>1. Reached(start)' = Reached(start) /\ Reached(cur)' = Reached(cur)
    BY ReachedKept
  <1>2. Ahead' = Ahead /\ Attachments' = Attachments
    BY <1>1 DEF Ahead, Attachments
  <1>3. Behind(h)' = Behind(h)
    BY <1>1, <1>2 DEF Behind
  <1> QED
    BY <1>3 DEF Lasting

(* With the index one place further, one more attachment is behind.         *)
LEMMA BehindOneMore ==
    ASSUME TypeOK, HandlersOnce, CurReached, Running, cur \in Loggers, [Next]_vars,
           index \in 1 .. Len(handlers[cur]), index' = index + 1,
           UNCHANGED <<handlers, cur, start, attached>>, NEW h \in Handlers
    PROVE  /\ handlers[cur][index] # h => Behind(h)' = Behind(h) /\ Lasting(h)' = Lasting(h)
           /\ handlers[cur][index] = h =>
                 /\ cur \notin Behind(h) /\ Behind(h)' = Behind(h) \cup {cur}
                 /\ Lasting(h)' \in {Lasting(h), Lasting(h) \cup {cur}}
  <1>1. Reached(start)' = Reached(start) /\ Reached(cur)' = Reached(cur)
    BY ReachedKept
  <1>2. Ahead' = Ahead /\ Attachments' = Attachments /\ cur # None
    BY <1>1, NotBoth DEF Ahead, Attachments
  <1>3. cur \in Reached(start) /\ cur \in Ahead
    BY <1>2, ReachedClosed DEF CurReached, Ahead
  <1>4. handlers[cur] \in Seq(Handlers) /\ Len(handlers[cur]) \in Nat
        /\ DOMAIN handlers[cur] = 1 .. Len(handlers[cur])
    BY LenProperties DEF TypeOK
  <1> DEFINE Before(n) == \E i \in 1 .. Len(handlers[cur]) : i < n /\ handlers[cur][i] = h
  <1>5. Before(index + 1) <=> Before(index) \/ handlers[cur][index] = h
    <2>1. \A i \in 1 .. Len(handlers[cur]) : i < index + 1 <=> i < index \/ i = index
      BY <1>4
    <2> QED
      BY <2>1
  <1>6. handlers[cur][index] = h => ~ Before(index) /\ <<cur, h>> \in Attachments
    <2>1. \A i \in 1 .. Len(handlers[cur]) :
             handlers[cur][i] = handlers[cur][index] => i = index
      BY <1>4 DEF HandlersOnce, IsInjective
    <2>2. handlers[cur][index] = h => <<cur, h>> \in Attachments
      BY Attached
    <2> QED
      BY <1>4, <2>1, <2>2
  <1>7. Behind(h) = {l \in Reached(start) :
                        <<l, h>> \in Attachments /\ (l \notin Ahead \/ (l = cur /\ Before(index)))}
    BY DEF Behind
  <1>8. Behind(h)' = {l \in Reached(start) : <<l, h>> \in Attachments
                         /\ (l \notin Ahead \/ (l = cur /\ Before(index + 1)))}
    BY <1>1, <1>2 DEF Behind
  <1> HIDE DEF Before
  <1>9. handlers[cur][index] # h => Behind(h)' = Behind(h)
    BY <1>5, <1>7, <1>8
  <1>10. handlers[cur][index] = h =>
            cur \notin Behind(h) /\ Behind(h)' = Behind(h) \cup {cur}
    BY <1>3, <1>5, <1>6, <1>7, <1>8
  <1> QED
    BY <1>9, <1>10 DEF Lasting

(* When a list is done all that is in it is behind.                         *)
LEMMA BehindClimbed ==
    ASSUME TypeOK, [Next]_vars, Climb, start \in Loggers, NEW h \in Handlers
    PROVE  Behind(h)' = Behind(h) /\ Lasting(h)' = Lasting(h)
  <1>1. /\ UNCHANGED <<handlers, start, attached>> /\ index' = 1
        /\ cur \in Loggers /\ index > Len(handlers[cur])
    BY Climbed DEF Climb, ListDone, fixed, lists
  <1>2. Reached(start)' = Reached(start) /\ Attachments' = Attachments
    BY <1>1, ReachedKept DEF Attachments
  <1>3. cur \notin Ahead' /\ Ahead = {cur} \cup Ahead'
    BY Climbed
  <1>4. handlers[cur] \in Seq(Handlers) /\ Len(handlers[cur]) \in Nat /\ index \in Nat
    BY <1>1, LenProperties DEF TypeOK
  <1>5. <<cur, h>> \in Attachments =>
           \E i \in 1 .. Len(handlers[cur]) : i < index /\ handlers[cur][i] = h
    BY <1>1, <1>4, Attached
  <1>6. Behind(h) = {l \in Reached(start) : <<l, h>> \in Attachments /\ l \notin Ahead'}
    BY <1>3, <1>5 DEF Behind
  <1>7. cur' # None => cur' \in Ahead'
    <2> SUFFICES ASSUME cur' # None PROVE cur' \in Ahead'
      OBVIOUS
    <2>1. cur' \in Loggers /\ Reached(cur)' = Reached(cur')
      BY ReachedKept, Climbed
    <2> QED
      BY <2>1, ReachedClosed DEF Ahead
  <1>8. ~ \E i \in 1 .. Len(handlers'[cur']) : i < index' /\ handlers'[cur'][i] = h
    BY <1>1
  <1>9. Behind(h)' = {l \in Reached(start) : <<l, h>> \in Attachments /\ l \notin Ahead'}
    BY <1>2, <1>8 DEF Behind
  <1> QED
    BY <1>1, <1>6, <1>9 DEF Lasting

(* What is added stays out of the count of what was there all along.        *)
LEMMA BehindAdded ==
    ASSUME TypeOK, Listed, [Next]_vars, start \in Loggers,
           NEW l \in Loggers, NEW g \in Handlers, AddHandler(l, g), NEW h \in Handlers
    PROVE  Behind(h) \subseteq Behind(h)' /\ Lasting(h)' = Lasting(h)
  <1>1. UNCHANGED <<cur, index, start, attached>>
    BY AddsKeepCall DEF call, loop
  <1>2. Reached(start)' = Reached(start) /\ Ahead' = Ahead
    BY <1>1, ReachedKept DEF Ahead
  <1>3. HandlersOnce' /\ Attachments' = Attachments \cup {<<l, g>>}
    BY AddedHandler DEF Listed
  <1> DEFINE Before == \E i \in 1 .. Len(handlers[cur]) : i < index /\ handlers[cur][i] = h
  <1>4. cur \in Loggers /\ Before => Before'
    BY <1>1, ListGrows
  <1>5. cur \in Loggers /\ Before' /\ <<cur, h>> \in attached => Before
    <2> SUFFICES ASSUME cur \in Loggers, Before', <<cur, h>> \in attached PROVE Before
      OBVIOUS
    <2>1. PICK i \in 1 .. Len(handlers'[cur]) : i < index /\ handlers'[cur][i] = h
      BY <1>1
    <2>2. PICK j \in 1 .. Len(handlers[cur]) : handlers[cur][j] = h
      BY Attached DEF Listed, AttachedThere
    <2>3. j \in 1 .. Len(handlers'[cur]) /\ handlers'[cur][j] = h
      BY <2>2, ListGrows
    <2>4. handlers'[cur] \in Seq(Handlers)
      BY TypeStep DEF TypeOK
    <2>5. DOMAIN handlers'[cur] = 1 .. Len(handlers'[cur])
      BY <2>4, LenProperties
    <2>6. i = j
      BY <1>3, <2>1, <2>3, <2>5 DEF HandlersOnce, IsInjective
    <2> QED
      BY <2>1, <2>2, <2>6
  <1>6. \A k \in Reached(start) : k \in Loggers
    BY ReachedClosed
  <1>7. Behind(h) = {k \in Reached(start) :
                        <<k, h>> \in Attachments /\ (k \notin Ahead \/ (k = cur /\ Before))}
    BY DEF Behind
  <1>8. Behind(h)' = {k \in Reached(start) :
                        <<k, h>> \in Attachments' /\ (k \notin Ahead \/ (k = cur /\ Before'))}
    BY <1>1, <1>2 DEF Behind
  <1> HIDE DEF Before
  <1>9. Behind(h) \subseteq Behind(h)'
    BY <1>3, <1>4, <1>6, <1>7, <1>8
  <1>10. \A k \in Reached(start) : <<k, h>> \in attached =>
            (k \in Behind(h)' <=> k \in Behind(h))
    BY <1>3, <1>4, <1>5, <1>6, <1>7, <1>8 DEF Listed, AttachedThere
  <1>11. Behind(h)' \subseteq Reached(start)
    BY <1>8
  <1>12. Behind(h) \subseteq Reached(start)
    BY <1>7
  <1> QED
    BY <1>1, <1>9, <1>10, <1>11, <1>12 DEF Lasting

(* Nobody is passed over who is entitled to the record.                     *)
LEMMA SkippedNotEntitled ==
    ASSUME DispatchInv, AskedHere, CalmFits, ~ removals,
           (FilterRefuses \/ FilterRaises) /\ asked \in Handlers
    PROVE  ~ (Entitled(asked) /\ Undisturbed(asked))
  <1> USE DEF DispatchInv
  <1>1. Asking /\ Running /\ Filter \in Range(filters[asked])
    BY AskedInRange DEF FilterRefuses, FilterRaises, Asking
  <1>2. <<Filter, record>> \in Refusing \cup Raising => ~ Entitled(asked)
    BY <1>1 DEF Entitled, Agreed
  <1>3. CASE FilterRefuses
    BY <1>2, <1>3 DEF FilterRefuses
  <1>4. CASE FilterRaises /\ <<Filter, record>> \in Raising
    BY <1>2, <1>4
  <1>5. CASE FilterRaises /\ <<Filter, record>> \notin Raising
    <2>1. pending /\ Filter \in Methods
      BY <1>5 DEF FilterRaises, Raises
    <2>2. Range(filters[asked]) \cap Methods # {}
      BY <1>1, <2>1
    <2>3. Entitled(asked) => ~ Calm
      BY <1>1, <2>1 DEF CalmFits, Entitled
    <2> QED
      BY <2>2, <2>3 DEF Undisturbed
  <1> QED
    BY <1>3, <1>4, <1>5

LEMMA ServedStep ==
    DispatchInv /\ Listed /\ WayInv /\ CountInv /\ [Next]_vars => ServedSoFar'
  <1> SUFFICES ASSUME DispatchInv, Listed, WayInv, CountInv, [Next]_vars, Running', ~ removals',
                      NEW h \in Handlers
               PROVE  /\ (Entitled(h) /\ Undisturbed(h))' =>
                            Times(h)' >= Cardinality(Lasting(h)')
                      /\ Times(h)' <= Cardinality(Behind(h)')
    BY DEF ServedSoFar, Running, Lasting
  <1> DEFINE G == /\ (Entitled(h) /\ Undisturbed(h))' => Times(h)' >= Cardinality(Lasting(h)')
                  /\ Times(h)' <= Cardinality(Behind(h)')
  <1> USE DEF DispatchInv, CountInv
  <1>1. HandlersOnce /\ CurReached
    BY DEF Listed, WayInv
  <1>2. Running => start \in Loggers
    BY DEF StartPassed, TypeOK
  <1>3. Running => Cardinality(Behind(h)) \in Nat /\ Cardinality(Lasting(h)) \in Nat
    BY <1>2, BehindCounts
  <1>4. CASE /\ Running /\ ~ removals /\ got' = got
             /\ Behind(h)' = Behind(h) /\ Lasting(h)' = Lasting(h)
             /\ (Entitled(h) /\ Undisturbed(h))' => Entitled(h) /\ Undisturbed(h)
    BY <1>4, TimesKept DEF ServedSoFar
  <1>5. CASE /\ Running /\ UNCHANGED <<filters, removals, record, handlers, cur, index, start,
                                       attached, got>>
    <2>1. (Entitled(h) /\ Undisturbed(h))' => Entitled(h) /\ Undisturbed(h)
      BY <1>5, ConditionsKept
    <2>2. Behind(h)' = Behind(h) /\ Lasting(h)' = Lasting(h)
      BY <1>5, BehindKept
    <2> QED
      BY <1>4, <1>5, <2>1, <2>2
  <1>6. CASE FilterPasses \/ LoggerPasses
    BY <1>5, <1>6 DEF FilterPasses, LoggerPasses, Asking, Passed, fixed, lists, loop
  <1>7. ASSUME Running, ~ removals, cur \in Loggers, index \in 1 .. Len(handlers[cur]),
               index' = index + 1,
               UNCHANGED <<filters, removals, record, handlers, cur, start, attached, got>>,
               ~ (Entitled(handlers[cur][index]) /\ Undisturbed(handlers[cur][index]))
        PROVE  G
    <2>1. (Entitled(h) /\ Undisturbed(h))' <=> Entitled(h) /\ Undisturbed(h)
      BY <1>7, ConditionsKept
    <2>2. CASE handlers[cur][index] # h
      BY <1>1, <1>4, <1>7, <2>1, <2>2, BehindOneMore
    <2>3. CASE handlers[cur][index] = h
      <3>1. cur \notin Behind(h) /\ Behind(h)' = Behind(h) \cup {cur}
        BY <1>1, <1>7, <2>3, BehindOneMore
      <3>2. Cardinality(Behind(h)') = Cardinality(Behind(h)) + 1
        BY <1>2, <1>7, <3>1, BehindCounts, LoggersCount
      <3>3. Times(h)' = Times(h) /\ Times(h) \in Nat /\ Times(h) <= Cardinality(Behind(h))
        BY <1>7, TimesKept, TimesIsNat DEF ServedSoFar
      <3> QED
        BY <1>3, <1>7, <2>1, <2>3, <3>2, <3>3
    <2> QED
      BY <2>2, <2>3
  <1>8. CASE Offer
    <2>1. /\ Running /\ ~ removals /\ cur \in Loggers /\ InList
          /\ UNCHANGED <<filters, removals, record, handlers, cur, start, attached, got>>
      BY <1>8, HandlerHere DEF Offer, InList, fixed, lists
    <2>2. CASE <<Here, record>> \in Wanted
      BY <1>5, <1>8, <2>1, <2>2 DEF Offer
    <2>3. CASE <<Here, record>> \notin Wanted
      <3>1. index' = index + 1 /\ ~ Entitled(Here) /\ index \in 1 .. Len(handlers[cur])
        BY <1>8, <2>1, <2>3, LenProperties DEF Offer, Entitled, InList, TypeOK
      <3> QED
        BY <1>7, <2>1, <3>1 DEF Here
    <2> QED
      BY <2>2, <2>3
  <1>9. CASE FilterRefuses \/ FilterRaises
    <2>1. Running /\ asked \in Handlers /\ ~ removals
      <3>1. asked \in Filterers /\ Running /\ asked \notin Loggers
        BY <1>9, FilterAsked DEF FilterRefuses, FilterRaises, Asking, Running
      <3> QED
        BY <1>9, <3>1 DEF Filterers, FilterRefuses, FilterRaises, fixed
    <2>2. index' = index + 1
          /\ UNCHANGED <<filters, removals, record, handlers, cur, start, attached, got>>
      BY <1>9, <2>1, NotBoth DEF FilterRefuses, FilterRaises, Rejected, fixed, lists
    <2>3. cur \in Loggers /\ index \in 1 .. Len(handlers[cur]) /\ handlers[cur][index] = asked
      BY <2>1 DEF AskedHere
    <2>4. ~ (Entitled(asked) /\ Undisturbed(asked))
      BY <1>9, <2>1, SkippedNotEntitled
    <2> QED
      BY <1>7, <2>1, <2>2, <2>3, <2>4
  <1>10. CASE Emit
    <2>1. /\ Running /\ ~ removals /\ asked \in Handlers /\ index' = index + 1
          /\ got' = Append(got, asked)
          /\ UNCHANGED <<filters, removals, record, handlers, cur, start, attached>>
      BY <1>10 DEF Emit, Passed, fixed, lists
    <2>2. cur \in Loggers /\ index \in 1 .. Len(handlers[cur]) /\ handlers[cur][index] = asked
      BY <2>1 DEF AskedHere
    <2>3. (Entitled(h) /\ Undisturbed(h))' <=> Entitled(h) /\ Undisturbed(h)
      BY <2>1, ConditionsKept
    <2>4. Times(h) \in Nat /\ Times(h)' = IF asked = h THEN Times(h) + 1 ELSE Times(h)
      BY <2>1, TimesMore
    <2>5. /\ Entitled(h) /\ Undisturbed(h) => Times(h) >= Cardinality(Lasting(h))
          /\ Times(h) <= Cardinality(Behind(h))
      BY <2>1 DEF ServedSoFar
    <2>6. CASE asked # h
      <3>1. Behind(h)' = Behind(h) /\ Lasting(h)' = Lasting(h)
        BY <1>1, <2>1, <2>2, <2>6, BehindOneMore
      <3> QED
        BY <2>3, <2>4, <2>5, <2>6, <3>1
    <2>7. CASE asked = h
      <3>1. cur \notin Behind(h) /\ Behind(h)' = Behind(h) \cup {cur}
            /\ Lasting(h)' \in {Lasting(h), Lasting(h) \cup {cur}}
        BY <1>1, <2>1, <2>2, <2>7, BehindOneMore
      <3>2. Cardinality(Behind(h)') = Cardinality(Behind(h)) + 1
        BY <1>2, <2>1, <2>2, <3>1, BehindCounts, LoggersCount
      <3>3. Lasting(h) \in SUBSET Loggers /\ cur \notin Lasting(h)
        BY <1>2, <2>1, <3>1, BehindCounts
      <3>4. Cardinality(Lasting(h) \cup {cur}) = Cardinality(Lasting(h)) + 1
        BY <2>2, <3>3, LoggersCount
      <3>5. Cardinality(Lasting(h)') \in {Cardinality(Lasting(h)), Cardinality(Lasting(h)) + 1}
        BY <3>1, <3>4
      <3> QED
        BY <1>3, <2>1, <2>3, <2>4, <2>5, <2>7, <3>2, <3>5
    <2> QED
      BY <2>6, <2>7
  <1>11. CASE Climb
    <2>1. Running /\ UNCHANGED <<filters, removals, record, start, got>>
      BY <1>11 DEF Climb, ListDone, fixed, lists
    <2>2. Behind(h)' = Behind(h) /\ Lasting(h)' = Lasting(h)
      BY <1>2, <1>11, <2>1, BehindClimbed
    <2> QED
      BY <1>4, <2>1, <2>2, ConditionsKept
  <1>12. CASE EmitRaises \/ Return
    BY <1>12 DEF EmitRaises, Return, Running
  <1>13. ASSUME NEW l \in Loggers, NEW r \in Records, Log(l, r) PROVE G
    <2>1. /\ got' = <<>> /\ cur' = l /\ index' = 1 /\ start' = l /\ l # None
          /\ UNCHANGED handlers
      BY <1>13, NotBoth DEF Log, lists
    <2>2. Ahead' = Reached(start)'
      BY <2>1, ReachedKept DEF Ahead
    <2>3. Behind(h)' = {} /\ Lasting(h)' = {}
      <3>1. ~ \E i \in 1 .. Len(handlers'[cur']) : i < index'
        BY <2>1
      <3>2. Behind(h)' = {}
        BY <2>2, <3>1 DEF Behind
      <3> QED
        BY <3>2 DEF Lasting
    <2>4. Times(h)' = 0
      <3>1. {i \in 1 .. Len(got') : got'[i] = h} = {}
        BY <2>1
      <3> QED
        BY <3>1, FS_EmptySet DEF Times
    <2> QED
      BY <2>3, <2>4, FS_EmptySet
  <1>14. ASSUME NEW l \in Loggers, NEW g \in Handlers, AddHandler(l, g) PROVE G
    <2>1. Running /\ UNCHANGED <<filters, removals, record, start, got>>
      BY <1>14 DEF AddHandler, call, Running
    <2>2. Behind(h) \subseteq Behind(h)' /\ Lasting(h)' = Lasting(h)
      BY <1>2, <1>14, <2>1, BehindAdded
    <2>3. Behind(h)' \in SUBSET Loggers
      <3>1. start' \in Loggers
        BY <1>2, <2>1
      <3>2. Reached(start)' = Reached(start') /\ Reached(start') \subseteq Loggers
        BY <3>1, <1>2, <2>1, ReachedKept, ReachedClosed
      <3> QED
        BY <3>2 DEF Behind
    <2>4. Cardinality(Behind(h)') \in Nat /\ Cardinality(Behind(h)) <= Cardinality(Behind(h)')
      BY <2>2, <2>3, LoggersCount
    <2>5. Times(h)' = Times(h) /\ ((Entitled(h) /\ Undisturbed(h))' <=> Entitled(h) /\ Undisturbed(h))
      BY <2>1, TimesKept, ConditionsKept
    <2> QED
      BY <1>3, <2>1, <2>2, <2>4, <2>5, TimesIsNat DEF ServedSoFar
  <1>15. ASSUME NEW x \in Filterers, NEW f \in Filters, AddFilter(x, f) PROVE G
    <2>1. UNCHANGED <<outcome, removals, handlers, cur, index, start, attached, got>>
      BY <1>15 DEF AddFilter, call, loop
    <2>2. (Entitled(h) /\ Undisturbed(h))' => Entitled(h) /\ Undisturbed(h)
      BY <1>2, <1>15, <2>1, FilterAdded DEF Running
    <2> QED
      BY <1>4, <2>1, <2>2, BehindKept DEF Running
  <1>16. CASE UNCHANGED vars
    BY <1>5, <1>16 DEF vars, lists, call, loop, Running
  <1> QED
    BY <1>6, <1>8, <1>9, <1>10, <1>11, <1>12, <1>13, <1>14, <1>15, <1>16, RemovesShow DEF Next

(* What holds of the loop while it runs gives what the call promises.       *)
LEMMA EveryStep ==
    DispatchInv /\ Listed /\ WayInv /\ CountInv /\ ServedSoFar' /\ [Next]_vars
        => EveryHandlerServed'
  <1> SUFFICES ASSUME DispatchInv, Listed, WayInv, CountInv, ServedSoFar', [Next]_vars,
                      start' # None, ~ removals', NEW h \in Handlers
               PROVE  /\ (outcome = "returned" /\ Entitled(h) /\ Undisturbed(h))' =>
                            Times(h)' >= Cardinality(PlacesOf(h)')
                      /\ Times(h)' <= Cardinality(AllOf(h)')
    BY DEF EveryHandlerServed, PlacesOf, AllOf
  <1> USE DEF DispatchInv, CountInv
  <1>1. TypeOK' /\ StartPassed' /\ start' \in Loggers
    BY TypeStep, StartStep DEF TypeOK
  <1>2. Reached(start)' = Reached(start') /\ Reached(start') \subseteq Loggers
    BY <1>1, ReachedKept, ReachedClosed
  <1>3. AllOf(h)' = {l \in Reached(start)' : <<l, h>> \in Attachments'}
    BY DEF AllOf
  <1>4. AllOf(h)' \in SUBSET Loggers /\ Cardinality(AllOf(h)') \in Nat /\ Times(h)' \in Nat
    BY <1>1, <1>2, <1>3, TimesIsNat, LoggersCount
  <1>5. CASE Running'
    <2>1. Times(h)' <= Cardinality(Behind(h)')
      BY <1>5 DEF ServedSoFar, Running
    <2>2. Behind(h)' \in SUBSET AllOf(h)'
      BY DEF Behind, AllOf
    <2>3. Cardinality(Behind(h)') \in Nat /\ Cardinality(Behind(h)') <= Cardinality(AllOf(h)')
      BY <1>4, <2>2, LoggersCount
    <2> QED
      BY <1>4, <1>5, <2>1, <2>3 DEF Running
  <1>6. CASE ~ Running /\ ~ Running'
    <2>1. ~ Walks /\ ~ \E l \in Loggers, r \in Records : Log(l, r)
      BY <1>6 DEF Walks, FilterPasses, FilterRefuses, FilterRaises, Asking, LoggerPasses,
                  Passed, Offer, InList, Emit, EmitRaises, Climb, ListDone, Return, Log,
                  Running
    <2> DEFINE Calmer == /\ UNCHANGED <<record, outcome, got, attached, start, removals>>
                         /\ Attachments \subseteq Attachments'
                         /\ (Entitled(h) /\ Undisturbed(h))' => Entitled(h) /\ Undisturbed(h)
    <2>2. ASSUME NEW l \in Loggers, NEW g \in Handlers, AddHandler(l, g) PROVE Calmer
      <3>1. UNCHANGED <<filters, record, outcome, got, attached, start, removals>>
        BY <2>2 DEF AddHandler, call
      <3> QED
        BY <2>2, <3>1, AddedHandler, ConditionsKept DEF Listed
    <2>3. ASSUME NEW x \in Filterers, NEW f \in Filters, AddFilter(x, f) PROVE Calmer
      <3>1. UNCHANGED <<handlers, record, outcome, got, attached, start, removals>>
        BY <2>3 DEF AddFilter, call
      <3>2. Attachments' = Attachments /\ start \in Loggers
        BY <1>1, <3>1 DEF Attachments
      <3> QED
        BY <2>3, <3>1, <3>2, FilterAdded
    <2>4. ASSUME UNCHANGED vars PROVE Calmer
      <3>1. UNCHANGED <<handlers, filters, record, outcome, got, attached, start, removals>>
        BY <2>4 DEF vars, lists, call
      <3>2. Attachments' = Attachments
        BY <3>1 DEF Attachments
      <3> QED
        BY <3>1, <3>2, ConditionsKept
    <2>5. Calmer
      BY <2>1, <2>2, <2>3, <2>4, RemovesShow DEF Next, Walks
    <2>6. AllOf(h) \in SUBSET AllOf(h)' /\ PlacesOf(h)' = PlacesOf(h)
      <3>1. Reached(start)' = Reached(start)
        BY <1>2, <2>5
      <3> QED
        BY <2>5, <3>1 DEF AllOf, PlacesOf
    <2>7. Cardinality(AllOf(h)) \in Nat /\ Cardinality(AllOf(h)) <= Cardinality(AllOf(h)')
      BY <1>4, <2>6, LoggersCount
    <2>8. /\ outcome = "returned" /\ Entitled(h) /\ Undisturbed(h) =>
                Times(h) >= Cardinality(PlacesOf(h))
          /\ Times(h) <= Cardinality(AllOf(h))
      BY <2>5 DEF EveryHandlerServed, AllOf
    <2>9. Times(h)' = Times(h)
      BY <2>5, TimesKept
    <2> QED
      BY <1>4, <2>5, <2>6, <2>7, <2>8, <2>9
  <1>7. CASE Running /\ ~ Running'
    <2>1. Walks
      BY <1>7, AddsKeepCall, RemovesShow DEF Next, Walks, Log, Running, call, vars
    <2>2. /\ UNCHANGED <<handlers, filters, record, attached, start, removals>>
          /\ ~ removals /\ start \in Loggers
      BY <1>1, <2>1, WalksKeepLists, WalksKeepHandlers
    <2>3. Attachments' = Attachments /\ Reached(start)' = Reached(start)
      BY <1>2, <2>2 DEF Attachments
    <2>4. AllOf(h)' = AllOf(h) /\ PlacesOf(h)' = PlacesOf(h)
      BY <2>2, <2>3 DEF AllOf, PlacesOf
    <2>5. Behind(h) \in SUBSET AllOf(h) /\ AllOf(h) \in SUBSET Loggers
          /\ Cardinality(Behind(h)) \in Nat /\ Times(h) \in Nat
      BY <2>2, BehindCounts, TimesIsNat, ReachedClosed DEF AllOf
    <2>6. Cardinality(AllOf(h)) \in Nat /\ Cardinality(Behind(h)) <= Cardinality(AllOf(h))
      BY <2>5, LoggersCount
    <2>7. /\ Entitled(h) /\ Undisturbed(h) => Times(h) >= Cardinality(Lasting(h))
          /\ Times(h) <= Cardinality(Behind(h))
      BY <1>7, <2>2 DEF ServedSoFar
    <2>8. CASE FilterRefuses \/ FilterRaises
      <3>1. got' = got /\ Asking /\ asked \in Loggers
        BY <1>7, <2>8 DEF FilterRefuses, FilterRaises, Running
      <3>2. asked = start /\ Filter \in Range(filters[start])
        BY <1>7, <3>1, AskedInRange DEF LoggerFirst
      <3>3. FilterRefuses => ~ Entitled(h)'
        <4>1. FilterRefuses => <<Filter, record>> \in Refusing
          BY DEF FilterRefuses
        <4> QED
          BY <2>2, <3>2, <4>1, ConditionsKept DEF Entitled, Agreed
      <3>4. FilterRaises => outcome' = "raised"
        BY <3>1 DEF FilterRaises
      <3> QED
        BY <2>4, <2>5, <2>6, <2>7, <2>8, <3>1, <3>3, <3>4, TimesKept
    <2>9. CASE EmitRaises
      <3>1. got' \in {got, Append(got, asked)} /\ outcome' = "raised" /\ asked \in Handlers
        BY <2>9 DEF EmitRaises
      <3>2. Times(h)' <= Cardinality(AllOf(h))
        <4>1. CASE got' = got
          BY <2>5, <2>6, <2>7, <4>1, TimesKept
        <4>2. CASE got' = Append(got, asked) /\ asked # h
          BY <2>5, <2>6, <2>7, <3>1, <4>2, TimesMore
        <4>3. CASE got' = Append(got, asked) /\ asked = h
          <5>1. cur \in Loggers /\ index \in 1 .. Len(handlers[cur]) /\ handlers[cur][index] = h
            BY <1>7, <2>2, <3>1, <4>3 DEF AskedHere
          <5>2. cur \in AllOf(h)
            BY <1>7, <5>1, NotBoth, Attached DEF AllOf, WayInv, CurReached
          <5>3. cur \notin Behind(h)
            <6>1. /\ cur \in Ahead
                  /\ \A i \in 1 .. Len(handlers[cur]) : i < index => handlers[cur][i] # h
              <7>1. handlers[cur] \in Seq(Handlers)
                BY <5>1 DEF TypeOK
              <7>2. DOMAIN handlers[cur] = 1 .. Len(handlers[cur]) /\ Len(handlers[cur]) \in Nat
                BY <7>1, LenProperties
              <7>3. IsInjective(handlers[cur])
                BY <5>1 DEF Listed, HandlersOnce
              <7>4. \A i \in 1 .. Len(handlers[cur]) : handlers[cur][i] = h => i = index
                BY <5>1, <7>2, <7>3 DEF IsInjective
              <7> QED
                BY <5>1, <7>2, <7>4, NotBoth, ReachedClosed DEF Ahead
            <6> QED
              BY <6>1 DEF Behind
          <5>4. Cardinality(Behind(h) \cup {cur}) = Cardinality(Behind(h)) + 1
            BY <2>5, <5>1, <5>3, LoggersCount
          <5>5. Behind(h) \cup {cur} \in SUBSET AllOf(h)
            BY <2>5, <5>2
          <5>6. Cardinality(Behind(h) \cup {cur}) <= Cardinality(AllOf(h))
            BY <2>5, <5>5, LoggersCount
          <5>7. Times(h)' = Times(h) + 1
            BY <3>1, <4>3, TimesMore
          <5> QED
            BY <2>5, <2>6, <2>7, <5>4, <5>6, <5>7
        <4> QED
          BY <3>1, <4>1, <4>2, <4>3
      <3> QED
        BY <2>4, <3>1, <3>2
    <2>10. CASE Return
      <3>1. got' \in {got, Append(got, Fallback)} /\ cur = None
        BY <2>10 DEF Return
      <3>2. Times(h)' = Times(h)
        BY <3>1, TimesKept, TimesMore, NotBoth
      <3>3. Behind(h) = AllOf(h) /\ Lasting(h) = PlacesOf(h)
        <4>1. Behind(h) = AllOf(h)
          BY <3>1 DEF Behind, Ahead, AllOf
        <4> QED
          BY <4>1 DEF Lasting, PlacesOf, AllOf, Listed, AttachedThere
      <3> QED
        BY <2>2, <2>4, <2>7, <3>2, <3>3, ConditionsKept
    <2> QED
      BY <1>7, <2>1, <2>8, <2>9, <2>10
         DEF Walks, FilterPasses, LoggerPasses, Offer, Emit, Climb, Running
  <1> QED
    BY <1>5, <1>6, <1>7

LEMMA CountInit == Init => CountInv
  BY DEF Init, CountInv, AskedHere, CalmFits, ServedSoFar, EveryHandlerServed, Running

(* A call that returns has served every handler that is entitled to the     *)
(* record once for each logger on the way where it was attached all along,  *)
(* and no call serves one more often than it is attached: for any finite    *)
(* tree of loggers, any filters and whatever is added meanwhile             *)
(* (logger.cxx:329-369).                                                    *)
THEOREM EveryHandlerIsServed == Spec => []EveryHandlerServed
  <1> DEFINE Inv == DispatchInv /\ Listed /\ WayInv /\ CountInv
  <1>1. Init => Inv
    BY DispatchInit, ListedInit, WayInit, CountInit
  <1>2. Inv /\ [Next]_vars => Inv'
    <2> SUFFICES ASSUME Inv, [Next]_vars PROVE Inv'
      OBVIOUS
    <2>1. DispatchInv' /\ Listed' /\ WayInv'
      BY DispatchStep, ListedStep, WayStep DEF DispatchInv
    <2>2. AskedHere' /\ CalmFits'
      BY AskedHereStep, CalmStep DEF DispatchInv, CountInv
    <2>3. ServedSoFar'
      BY ServedStep
    <2>4. EveryHandlerServed'
      BY <2>3, EveryStep
    <2> QED
      BY <2>1, <2>2, <2>3, <2>4 DEF CountInv
  <1>3. Inv => EveryHandlerServed
    BY DEF CountInv
  <1> QED
    BY <1>1, <1>2, <1>3, PTL DEF Spec

=============================================================================
