------------------------------ MODULE DictConfig ------------------------------
(***************************************************************************)
(* dictConfig (config.py) over the logger hierarchy: the loggers of the     *)
(* configuration one after the other, then the loggers that were there      *)
(* before, then the root logger, while other threads call getLogger and     *)
(* setLevel.  Each logger is taken through several calls, and any of them   *)
(* may raise.                                                               *)
(***************************************************************************)
EXTENDS LoggerTree, Sequences, SequencesExt

CONSTANTS
    Configs,     \* the configurations; see MCDictConfig
    OtherLevels, \* what the application itself calls setLevel with
    MaxOthers    \* bound: loggers it does so with while dictConfig runs

(* The loggers of a dictionary are its keys, in some order; an entry may    *)
(* leave the level or propagate out, and may name a level or a handler that *)
(* does not exist.  So may the root's entry, which has no propagate.        *)
ASSUME ConfigAssumption ==
    /\ OtherLevels \subseteq LevelArgs /\ NOTSET \in LevelArgs
    /\ MaxOthers \in Nat
    /\ \A c \in Configs :
          /\ c.loggers \in Seq(Names) /\ IsInjective(c.loggers)
          /\ c.entries \in
                [Range(c.loggers) ->
                    [level : LevelArgs \cup {None}, handlers : SUBSET {"old", "new"},
                     propagate : BOOLEAN \cup {None}, fails : {None, "level", "handlers"}]]
          /\ c.root # None =>
                c.root \in [level : LevelArgs \cup {None}, handlers : SUBSET {"old", "new"},
                           fails : {None, "level", "handlers"}]
          /\ c.disable_existing \in BOOLEAN

VARIABLES
    handlers,       \* Logger.handlers
    disabled,       \* Logger.disabled
    propagate,      \* Logger.propagate
    at,             \* where configure() is, "idle", "done" or "raised"
    config,         \* its dictionary
    todo,           \* the loggers of it that are still to be configured
    existing,       \* the names found in loggerDict and not configured since
    child_loggers,  \* those below a logger that is configured
    before,         \* history: the loggers as they were when it began
    theirs          \* history: those the application set a level of since

own == <<handlers, disabled, propagate>>
walk == <<config, todo, existing, child_loggers, before>>
dvars == <<vars, own, at, walk, theirs>>

Now == [live |-> Live, keys |-> {n \in Names : loggerDict[n] # "absent"},
        level |-> level, handlers |-> handlers, disabled |-> disabled,
        propagate |-> propagate]

DInit ==
    /\ Init
    /\ handlers = [n \in Nodes |-> {}]
    /\ disabled = [n \in Nodes |-> FALSE]
    /\ propagate = [n \in Nodes |-> TRUE]
    /\ at = "idle" /\ config = None /\ todo = <<>>
    /\ existing = {} /\ child_loggers = {}
    /\ before = None /\ theirs = {}

Resting == at \in {"idle", "done", "raised"}

-----------------------------------------------------------------------------
(* The calls of the application: getLogger and setLevel at any time,        *)
(* addHandler before it configures.                                         *)
OtherGetLogger(n) ==
    /\ GetLogger(n) /\ careful' = careful
    /\ UNCHANGED <<own, at, walk, theirs>>

OtherSetLevel(n, l) ==
    /\ SetLevel(n, l) /\ careful' = (careful /\ Careful(n, l))
    /\ theirs' = IF at = "idle" THEN theirs ELSE theirs \cup {n}
    /\ Cardinality(theirs') <= MaxOthers
    /\ UNCHANGED <<own, at, walk>>

AddHandler(n) ==
    /\ at = "idle" /\ n \in Loggers
    /\ handlers' = [handlers EXCEPT ![n] = {"old"}]
    /\ UNCHANGED <<vars, disabled, propagate, at, walk, theirs>>

(* configure: the formatters, filters and handlers of the dictionary touch  *)
(* no logger; then the names of loggerDict, placeholders with them.         *)
Configure(c) ==
    /\ Resting
    /\ config' = c /\ todo' = c.loggers
    /\ existing' = Now.keys /\ child_loggers' = {}
    /\ before' = Now /\ theirs' = {}
    /\ at' = "loggers"
    /\ UNCHANGED <<vars, own>>

Below(n) == {m \in Names : n \in Above[m]}

(* Mutant: only the children of loggers that exist already are remembered.  *)
TakeLoggersOnly ==
    /\ at = "loggers" /\ todo # <<>>
    /\ child_loggers' = IF Head(todo) \in Live
                        THEN child_loggers \cup (Below(Head(todo)) \cap existing)
                        ELSE child_loggers
    /\ existing' = existing \ {Head(todo)}
    /\ at' = "getLogger"
    /\ UNCHANGED <<vars, own, config, todo, before, theirs>>

(* Mutant: a logger of the configuration stays among the existing ones.     *)
TakeAndKeep ==
    /\ at = "loggers" /\ todo # <<>>
    /\ child_loggers' = IF Head(todo) \in existing
                        THEN child_loggers \cup (Below(Head(todo)) \cap existing)
                        ELSE child_loggers
    /\ at' = "getLogger"
    /\ UNCHANGED <<vars, own, config, todo, existing, before, theirs>>

(* The next logger of the configuration, and the names below it, if any.    *)
Take ==
    /\ at = "loggers" /\ todo # <<>>
    /\ child_loggers' = IF Head(todo) \in existing
                        THEN child_loggers \cup (Below(Head(todo)) \cap existing)
                        ELSE child_loggers
    /\ existing' = existing \ {Head(todo)}
    /\ at' = "getLogger"
    /\ UNCHANGED <<vars, own, config, todo, before, theirs>>

(* configure_logger.                                                        *)
Get ==
    /\ at = "getLogger"
    /\ IF Head(todo) \in Live THEN UNCHANGED vars
       ELSE GetLogger(Head(todo)) /\ careful' = careful
    /\ at' = "setLevel"
    /\ UNCHANGED <<own, walk, theirs>>

Entry == config.entries[Head(todo)]

Level ==
    /\ at = "setLevel" /\ Entry.fails # "level"
    /\ IF Entry.level = None THEN UNCHANGED vars
       ELSE /\ SetLevel(Head(todo), Entry.level)
            /\ careful' = (careful /\ Careful(Head(todo), Entry.level))
    /\ at' = "handlers"
    /\ UNCHANGED <<own, walk, theirs>>

(* common_logger_config takes the old handlers away before it looks the new *)
(* ones up.                                                                 *)
Handlers ==
    /\ at = "handlers"
    /\ IF Entry.fails = "handlers"
       THEN /\ handlers' = [handlers EXCEPT ![Head(todo)] = {}]
            /\ at' = "raised"
            /\ UNCHANGED <<disabled, propagate, todo>>
       ELSE /\ handlers' = [handlers EXCEPT ![Head(todo)] = Entry.handlers]
            /\ disabled' = [disabled EXCEPT ![Head(todo)] = FALSE]
            /\ propagate' = IF Entry.propagate = None THEN propagate
                            ELSE [propagate EXCEPT ![Head(todo)] = Entry.propagate]
            /\ todo' = Tail(todo)
            /\ at' = "loggers"
    /\ UNCHANGED <<vars, config, existing, child_loggers, before, theirs>>

LevelRaises ==
    /\ at = "setLevel" /\ Entry.fails = "level"
    /\ at' = "raised"
    /\ UNCHANGED <<vars, own, walk, theirs>>

-----------------------------------------------------------------------------
(* _handle_existing_loggers, one of them after the other; here in any order. *)
HandleExisting == at = "loggers" /\ todo = <<>> /\ existing # {}

Reset(m) ==
    /\ HandleExisting /\ m \in existing \cap child_loggers \cap Live
    /\ SetLevel(m, NOTSET) /\ careful' = (careful /\ Careful(m, NOTSET))
    /\ handlers' = [handlers EXCEPT ![m] = {}]
    /\ propagate' = [propagate EXCEPT ![m] = TRUE]
    /\ existing' = existing \ {m}
    /\ UNCHANGED <<disabled, at, config, todo, child_loggers, before, theirs>>

(* A placeholder has no setLevel.                                           *)
ResetRaises(m) ==
    /\ HandleExisting /\ m \in (existing \cap child_loggers) \ Live
    /\ at' = "raised"
    /\ UNCHANGED <<vars, own, walk, theirs>>

(* Placeholders take the attribute as well, and nobody reads it.            *)
Disable(m) ==
    /\ HandleExisting /\ m \in existing \ child_loggers
    /\ disabled' = [disabled EXCEPT ![m] = (m \in Live /\ config.disable_existing)]
    /\ existing' = existing \ {m}
    /\ UNCHANGED <<vars, handlers, propagate, at, config, todo, child_loggers, before,
                   theirs>>

(* configure_root, which calls common_logger_config alone.                  *)
AtRoot == at = "loggers" /\ todo = <<>> /\ existing = {}

NoRoot ==
    /\ AtRoot /\ config.root = None
    /\ at' = "done"
    /\ UNCHANGED <<vars, own, walk, theirs>>

RootLevel ==
    /\ AtRoot /\ config.root # None /\ config.root.fails # "level"
    /\ IF config.root.level = None THEN UNCHANGED vars
       ELSE /\ SetLevel(Root, config.root.level)
            /\ careful' = (careful /\ Careful(Root, config.root.level))
    /\ at' = "root"
    /\ UNCHANGED <<own, walk, theirs>>

RootHandlers ==
    /\ at = "root"
    /\ LET fails == config.root.fails = "handlers"
       IN  /\ handlers' = [handlers EXCEPT ![Root] =
                              IF fails THEN {} ELSE config.root.handlers]
           /\ at' = IF fails THEN "raised" ELSE "done"
    /\ UNCHANGED <<vars, disabled, propagate, walk, theirs>>

RootRaises ==
    /\ AtRoot /\ config.root # None /\ config.root.fails = "level"
    /\ at' = "raised"
    /\ UNCHANGED <<vars, own, walk, theirs>>

DNext ==
    \/ \E n \in Names : OtherGetLogger(n)
    \/ \E n \in Nodes, l \in OtherLevels : OtherSetLevel(n, l)
    \/ \E n \in Nodes : AddHandler(n)
    \/ \E c \in Configs : Configure(c)
    \/ Take \/ Get \/ Level \/ Handlers \/ LevelRaises
    \/ \E m \in Names : Reset(m) \/ ResetRaises(m) \/ Disable(m)
    \/ NoRoot \/ RootLevel \/ RootHandlers \/ RootRaises

DSpec == DInit /\ [][DNext]_dvars

-----------------------------------------------------------------------------
ConfigTypeOK ==
    /\ TypeOK
    /\ handlers \in [Nodes -> SUBSET {"old", "new"}]
    /\ disabled \in [Nodes -> BOOLEAN] /\ propagate \in [Nodes -> BOOLEAN]
    /\ \A n \in Names \ Live : handlers[n] = {} /\ ~ disabled[n] /\ propagate[n]
    /\ at \in {"idle", "done", "raised", "loggers", "getLogger", "setLevel",
               "handlers", "root"}
    /\ child_loggers \subseteq Names /\ theirs \subseteq Nodes
    /\ at \in {"getLogger", "setLevel", "handlers"} => todo # <<>> /\ Head(todo) \notin existing

Named == Range(config.loggers)

(* A level that the application has set meanwhile is its own.               *)
HasLevel(m, l) == m \in theirs \/ level[m] = l

Unchanged(m) ==
    /\ HasLevel(m, before.level[m]) /\ handlers[m] = before.handlers[m]
    /\ disabled[m] = before.disabled[m] /\ propagate[m] = before.propagate[m]

(* dictConfig has come to its end, or to a bad entry of the root.           *)
LoggersDone == at = "done" \/ (at = "raised" /\ todo = <<>> /\ existing = {})

RootConfigured ==
    IF config.root = None THEN Unchanged(Root)
    ELSE /\ handlers[Root] = config.root.handlers
         /\ HasLevel(Root, IF config.root.level = None THEN before.level[Root]
                           ELSE UShort(config.root.level))

(* Once dictConfig returns, every logger it names exists, is enabled and    *)
(* has the level and the handlers of its entry; every other logger that was *)
(* there before is reset if it is below a name of the configuration that    *)
(* was there too, and left as it was but for disabled otherwise, whatever   *)
(* other threads have made meanwhile and but for the levels they have set   *)
(* (config.py:129).  The root is as its entry says.  An entry of the root   *)
(* that makes it raise, which comes last, spoils none of the others.        *)
Configured ==
    /\ LoggersDone =>
        /\ \A n \in Named :
              /\ n \in Live /\ ~ disabled[n]
              /\ handlers[n] = config.entries[n].handlers
              /\ propagate[n] = IF config.entries[n].propagate = None
                                THEN before.propagate[n] ELSE config.entries[n].propagate
              /\ HasLevel(n, IF config.entries[n].level = None THEN before.level[n]
                             ELSE UShort(config.entries[n].level))
        /\ \A m \in before.live \ Named :
              IF Above[m] \cap Named \cap before.keys # {}
              THEN /\ HasLevel(m, NOTSET) /\ handlers[m] = {} /\ propagate[m]
                   /\ disabled[m] = before.disabled[m]
              ELSE /\ HasLevel(m, before.level[m]) /\ handlers[m] = before.handlers[m]
                   /\ propagate[m] = before.propagate[m]
                   /\ disabled[m] = config.disable_existing
    /\ at = "done" => RootConfigured

(* A dictConfig that raises over a bad entry of a logger has not touched    *)
(* the loggers it does not name, nor the root.                              *)
FailureSpares ==
    at = "raised" /\ todo # <<>> =>
        \A m \in (before.live \cup {Root}) \ Named : Unchanged(m)

ConfiguredOrSpared == Configured /\ FailureSpares

(* dictConfig raises for a bad entry only.                                  *)
RaisesForEntries == at = "raised" => todo # <<>> \/ LoggersDone

(* A logger that was reset has the effective level that the hierarchy gives *)
(* it (config.py:44 resets it with setLevel(NOTSET)).                       *)
ResetLevelsInherited ==
    at = "done" =>
        \A m \in before.live \ Named :
            Above[m] \cap Named \cap before.keys # {}
                => effective_level[m] = InheritedLevel(m)
==============================================================================
