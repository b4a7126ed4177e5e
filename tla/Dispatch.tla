------------------------------- MODULE Dispatch -------------------------------
(***************************************************************************)
(* Logger_logAndHandle (logger.cxx): one record on its way through the      *)
(* filters of a logger and the handlers of that logger and of those above   *)
(* it, each with filters of its own (filterer.cxx).  The lists are read by  *)
(* index while the code of a filter or handler, or another thread that gets *)
(* the GIL from it, adds and removes filters and handlers.                  *)
(***************************************************************************)
EXTENDS Integers, Sequences, FiniteSets, SequencesExt

CONSTANTS
    Loggers,
    Parent,          \* Logger.parent: a logger or None
    Handlers,
    Records,
    Enabled,         \* the pairs <<l, r>> that l's level lets through
    Wanted,          \* the pairs <<h, r>> that h's level lets through
    Faulty,          \* the pairs <<h, r>> for which h raises
    Filters,
    Methods,         \* those with a method filter; others are called themselves
    Refusing,        \* the pairs <<f, r>> to which f answers False or None
    Raising,         \* the pairs <<f, r>> for which f raises
    InitialHandlers, \* the lists that loggers and handlers may start with,
    InitialFilters,  \* each handler at most once in a list
    MaxChanges,      \* a bound on the changes of lists
    None

(* StreamHandler to stderr that every logger has, level NOTSET, no filters. *)
Fallback == "_fallback_handler"

Filterers == Loggers \cup Handlers

ASSUME DispatchAssumption ==
    /\ IsFiniteSet(Loggers)
    /\ None \notin Filterers /\ Loggers \cap Handlers = {}
    /\ Fallback \notin Handlers
    /\ Parent \in [Loggers -> Loggers \cup {None}]
    /\ \A S \in SUBSET Loggers :
          S # {} => \E l \in S : Parent[l] \notin S
    /\ Enabled \subseteq Loggers \X Records
    /\ Wanted \subseteq Handlers \X Records
    /\ Faulty \subseteq Wanted
    /\ Methods \subseteq Filters
    /\ Refusing \subseteq Filters \X Records
    /\ Raising \subseteq (Filters \X Records) \ Refusing
    /\ InitialHandlers \subseteq [Loggers -> Seq(Handlers)]
    /\ \A lists0 \in InitialHandlers : \A l \in Loggers : IsInjective(lists0[l])
    /\ InitialFilters \subseteq [Filterers -> Seq(Filters)]
    /\ MaxChanges \in Nat

VARIABLES
    handlers,   \* Logger.handlers
    filters,    \* Filterer.filters of loggers and handlers
    propagate,  \* Logger.propagate
    record,     \* the record of the latest call
    cur,        \* the logger whose handlers it is at, None when it is over
    index,      \* the next index in that logger's list
    asked,      \* the logger or handler whose filters it is at, or None
    turn,       \* the next index in that list of filters
    pending,    \* whether an exception was left behind by a filter
    found,      \* whether the loop has met a handler
    outcome,    \* "running", "returned" or "raised"
    got,        \* history: the handlers that have got the record, in order
    attached,   \* history: the pairs <<l, h>> there since the call began
    screening,  \* history: the filters there when the call began
    start,      \* history: the logger the call began at
    removals,   \* history: whether something has been removed during the call
    changes     \* how often a list has changed

loop == <<cur, index, found>>
walk == <<asked, turn>>
call == <<record, loop, walk, pending, outcome, got, attached, screening, start,
          removals>>
lists == <<handlers, filters, propagate, changes>>
fixed == <<lists, record, attached, screening, start, removals>>
vars == <<lists, call>>

Attachments == {a \in Loggers \X Handlers :
                   \E i \in 1 .. Len(handlers[a[1]]) : handlers[a[1]][i] = a[2]}

Init ==
    /\ handlers \in InitialHandlers
    /\ filters \in InitialFilters
    /\ propagate \in [Loggers -> BOOLEAN]
    /\ record = None /\ cur = None /\ index = 1 /\ found = FALSE
    /\ asked = None /\ turn = 1 /\ pending = FALSE
    /\ outcome = "returned" /\ got = <<>> /\ attached = {} /\ screening = filters
    /\ start = None /\ removals = FALSE
    /\ changes = 0

-----------------------------------------------------------------------------
Running == outcome = "running"

(* debug() ... log() of a record that passes the level of the logger it is  *)
(* logged to; the levels and filters of the loggers above are not asked.    *)
Log(l, r) ==
    /\ ~ Running /\ <<l, r>> \in Enabled
    /\ record' = r /\ cur' = l /\ index' = 1 /\ found' = FALSE
    /\ asked' = l /\ turn' = 1 /\ pending' = FALSE
    /\ outcome' = "running" /\ got' = <<>> /\ start' = l
    /\ attached' = Attachments /\ screening' = filters /\ removals' = FALSE
    /\ UNCHANGED lists

(* Filterer_filter: the next filter of the list.                            *)
Asking == Running /\ asked # None /\ turn <= Len(filters[asked])
Filter == filters[asked][turn]

(* The look for a method filter drops a pending exception if there is none; *)
(* if there is one, the call of it comes back as an error.                  *)
Raises == <<Filter, record>> \in Raising \/ (pending /\ Filter \in Methods)

(* A callable that raises has not said False or None: the loop goes on.     *)
FilterPasses ==
    /\ Asking
    /\ \/ ~ Raises /\ <<Filter, record>> \notin Refusing
       \/ Raises /\ Filter \notin Methods
    /\ turn' = turn + 1
    /\ pending' = Raises
    /\ UNCHANGED <<fixed, loop, asked, outcome, got>>

(* A handler that is kept from the record is passed over; a logger's call   *)
(* ends, without a look for handlers or the fallback.                       *)
Rejected ==
    /\ asked' = None
    /\ IF asked \in Loggers
       THEN cur' = None /\ UNCHANGED index
       ELSE index' = index + 1 /\ UNCHANGED cur

(* Mutant: a filter that refuses the record does not end the walk.          *)
FilterRefusesInVain ==
    /\ Asking /\ ~ Raises /\ <<Filter, record>> \in Refusing
    /\ turn' = turn + 1
    /\ UNCHANGED <<fixed, loop, asked, pending, outcome, got>>

FilterRefuses ==
    /\ Asking /\ ~ Raises /\ <<Filter, record>> \in Refusing
    /\ Rejected
    /\ pending' = FALSE
    /\ outcome' = IF asked \in Loggers THEN "returned" ELSE outcome
    /\ UNCHANGED <<fixed, turn, found, got>>

(* A method that raises ends the walk; logAndHandle and Handler_handle take *)
(* it for a refusal and return None over the exception, which comes up once *)
(* the caller goes on.                                                      *)
FilterRaises ==
    /\ Asking /\ Raises /\ Filter \in Methods
    /\ Rejected
    /\ outcome' = IF asked \in Loggers THEN "raised" ELSE outcome
    /\ pending' = TRUE
    /\ UNCHANGED <<fixed, turn, found, got>>

Passed == Running /\ asked # None /\ turn > Len(filters[asked])

LoggerPasses ==
    /\ Passed /\ asked \in Loggers
    /\ asked' = None
    /\ UNCHANGED <<fixed, loop, turn, pending, outcome, got>>

-----------------------------------------------------------------------------
InList == Running /\ asked = None /\ cur # None /\ index <= Len(handlers[cur])
Here == handlers[cur][index]

(* Mutant: a handler that passes the record over does not count as found.   *)
OfferFoundIfWanted ==
    /\ InList
    /\ found' = (found \/ <<Here, record>> \in Wanted)
    /\ IF <<Here, record>> \in Wanted
       THEN asked' = Here /\ turn' = 1 /\ UNCHANGED index
       ELSE index' = index + 1 /\ UNCHANGED walk
    /\ UNCHANGED <<fixed, cur, pending, outcome, got>>

(* The next handler of the list: its level, then Handler_handle.            *)
Offer ==
    /\ InList
    /\ found' = TRUE
    /\ IF <<Here, record>> \in Wanted
       THEN asked' = Here /\ turn' = 1 /\ UNCHANGED index
       ELSE index' = index + 1 /\ UNCHANGED walk
    /\ UNCHANGED <<fixed, cur, pending, outcome, got>>

Emit ==
    /\ Passed /\ asked \in Handlers /\ <<asked, record>> \notin Faulty /\ ~ pending
    /\ got' = Append(got, asked)
    /\ asked' = None
    /\ index' = index + 1
    /\ UNCHANGED <<fixed, cur, found, turn, pending, outcome>>

(* An exception of a handler is returned to the caller of the logger; with  *)
(* one pending the record may have been written before it shows.            *)
EmitRaises ==
    /\ Passed /\ asked \in Handlers /\ (<<asked, record>> \in Faulty \/ pending)
    /\ got' \in {got} \cup (IF pending THEN {Append(got, asked)} ELSE {})
    /\ outcome' = "raised"
    /\ asked' = None /\ cur' = None
    /\ UNCHANGED <<fixed, index, found, turn, pending>>

ListDone == Running /\ asked = None /\ cur # None /\ index > Len(handlers[cur])

(* Mutant: the index goes on from the last list.                            *)
ClimbWithoutReset ==
    /\ ListDone
    /\ cur' = IF propagate[cur] THEN Parent[cur] ELSE None
    /\ UNCHANGED <<fixed, index, found, walk, pending, outcome, got>>

Climb ==
    /\ ListDone
    /\ cur' = IF propagate[cur] THEN Parent[cur] ELSE None
    /\ index' = 1
    /\ UNCHANGED <<fixed, found, walk, pending, outcome, got>>

(* The fallback handler, if none was found; a pending exception is raised.  *)
Return ==
    /\ Running /\ cur = None
    /\ got' \in (IF found \/ pending THEN {got} ELSE {})
               \cup (IF found THEN {} ELSE {Append(got, Fallback)})
    /\ outcome' = IF pending THEN "raised" ELSE "returned"
    /\ UNCHANGED <<fixed, loop, walk, pending>>

-----------------------------------------------------------------------------
Change == changes < MaxChanges /\ changes' = changes + 1

AddHandler(l, h) ==
    /\ Change
    /\ <<l, h>> \notin Attachments
    /\ handlers' = [handlers EXCEPT ![l] = Append(@, h)]
    /\ UNCHANGED <<filters, propagate, call>>

(* list.remove moves the handlers behind h one place forward.               *)
RemoveHandler(l, h) ==
    /\ Change
    /\ \E i \in 1 .. Len(handlers[l]) :
          /\ handlers[l][i] = h
          /\ handlers' = [handlers EXCEPT ![l] = RemoveAt(@, i)]
    /\ attached' = attached \ {<<l, h>>}
    /\ removals' = TRUE
    /\ UNCHANGED <<filters, propagate, record, loop, walk, pending, outcome, got,
                   screening, start>>

(* Filterer_addFilter and Filterer_removeFilter.                            *)
AddFilter(x, f) ==
    /\ Change
    /\ f \notin Range(filters[x])
    /\ filters' = [filters EXCEPT ![x] = Append(@, f)]
    /\ UNCHANGED <<handlers, propagate, call>>

RemoveFilter(x, f) ==
    /\ Change
    /\ \E i \in 1 .. Len(filters[x]) :
          /\ filters[x][i] = f
          /\ filters' = [filters EXCEPT ![x] = RemoveAt(@, i)]
    /\ removals' = TRUE
    /\ UNCHANGED <<handlers, propagate, record, loop, walk, pending, outcome, got,
                   attached, screening, start>>

Next ==
    \/ \E l \in Loggers, r \in Records : Log(l, r)
    \/ FilterPasses \/ FilterRefuses \/ FilterRaises \/ LoggerPasses
    \/ Offer \/ Emit \/ EmitRaises \/ Climb \/ Return
    \/ \E l \in Loggers, h \in Handlers : AddHandler(l, h) \/ RemoveHandler(l, h)
    \/ \E x \in Filterers, f \in Filters : AddFilter(x, f) \/ RemoveFilter(x, f)

Spec == Init /\ [][Next]_vars

-----------------------------------------------------------------------------
TypeOK ==
    /\ handlers \in [Loggers -> Seq(Handlers)]
    /\ filters \in [Filterers -> Seq(Filters)]
    /\ propagate \in [Loggers -> BOOLEAN]
    /\ record \in Records \cup {None}
    /\ cur \in Loggers \cup {None}
    /\ index \in Nat \ {0}
    /\ asked \in Filterers \cup {None}
    /\ turn \in Nat \ {0}
    /\ pending \in BOOLEAN
    /\ found \in BOOLEAN
    /\ outcome \in {"running", "returned", "raised"}
    /\ got \in Seq(Handlers \cup {Fallback})
    /\ attached \subseteq Loggers \X Handlers
    /\ screening \in [Filterers -> Seq(Filters)]
    /\ start \in Loggers \cup {None}
    /\ removals \in BOOLEAN
    /\ changes \in 0 .. MaxChanges

(* The loggers a record logged to l is offered at: l and, through every     *)
(* logger that propagates, the loggers above it.                            *)
Reached(l) ==
    {m \in Loggers : \A S \in SUBSET Loggers :
        l \in S /\ (\A k \in S : propagate[k] /\ Parent[k] # None => Parent[k] \in S)
        => m \in S}

Times(h) == Cardinality({i \in 1 .. Len(got) : got[i] = h})
PlacesOf(h) == {l \in Reached(start) : <<l, h>> \in attached}

(* What x's filters would do with the record, were each of them asked.      *)
Agreed(x) == {<<f, record>> : f \in Range(filters[x])} \cap (Refusing \cup Raising) = {}
Barred(x) == {<<f, record>> : f \in Range(screening[x])} \cap Refusing # {}

(* The exception that one handler's filter left behind makes the method of  *)
(* a filter of the next one fail, and is gone at the next callable.         *)
Calm == \A g \in Handlers : {<<f, record>> : f \in Range(filters[g])} \cap Raising = {}
Undisturbed(h) == Calm \/ Range(filters[h]) \cap Methods = {}

Entitled(h) == <<h, record>> \in Wanted /\ Agreed(start) /\ Agreed(h)

(* As long as nothing is removed under the walks, a call that returns has   *)
(* given the record to every handler whose level and filters, and whose     *)
(* logger's filters, let it through, once for each logger on the way where  *)
(* it was attached all the time, and at no point has it given it to one     *)
(* more often than that is attached, whatever is added meanwhile; but for a *)
(* handler with a method filter only if no filter of a handler raises.      *)
EveryHandlerServed ==
    start # None /\ ~ removals =>
        \A h \in Handlers :
            /\ outcome = "returned" /\ Entitled(h) /\ Undisturbed(h) =>
                  Times(h) >= Cardinality(PlacesOf(h))
            /\ Times(h) <=
                  Cardinality({l \in Reached(start) : <<l, h>> \in Attachments})

(* The same without the restriction on filters that raise: the exception of *)
(* a filter of one handler does not keep the record from another.           *)
PoliteServed ==
    outcome = "returned" /\ start # None /\ ~ removals =>
        \A h \in Handlers : Entitled(h) => Times(h) >= Cardinality(PlacesOf(h))

(* The same without the restriction to calls that return: a handler that    *)
(* raises does not keep the record from the others.                         *)
OthersServed ==
    ~ Running /\ start # None /\ ~ removals =>
        \A h \in Handlers :
            Entitled(h) /\ Undisturbed(h) /\ <<h, record>> \notin Faulty =>
                Times(h) >= Cardinality(PlacesOf(h))

(* A record that a filter of the logger it was logged to refuses reaches no *)
(* handler, not even the fallback, and one that a filter of a handler       *)
(* refuses does not reach that handler, whatever filters raise before or    *)
(* are added meanwhile, as long as none is removed under the walk           *)
(* (filterer.cxx:39).                                                       *)
RefusedStaysOut ==
    start # None /\ ~ removals =>
        /\ Barred(start) => got = <<>>
        /\ \A h \in Handlers : Barred(h) => h \notin Range(got)

(* The record goes to stderr only when no handler was attached on its way,  *)
(* and then to nothing else, even if handlers come and go under the loop.   *)
FallbackIsLast ==
    Fallback \in Range(got) =>
        /\ got = <<Fallback>>
        /\ \A h \in Handlers : PlacesOf(h) = {}
==============================================================================
