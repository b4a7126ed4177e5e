------------------------------ MODULE RecordText ------------------------------
(***************************************************************************)
(* LogRecord, Formatter, Handler_format and QueueHandler.prepare: the text  *)
(* each handler makes of one record, which all of them share and which      *)
(* keeps message, asctime and exc_text of the formatter before, while the   *)
(* filters of the handlers rewrite what the text is made of.                *)
(***************************************************************************)
EXTENDS FormatStyle, SequencesExt

CONSTANTS
    Handlers,     \* handlers of loggers
    Queues,       \* those of them that are QueueHandlers
    Listening,    \* the handlers of the QueueListener
    Formatters,   \* the formatters the application gives each handler
    Calls,        \* the arguments of log calls and of LogRecord()
    Rewrites,     \* what filters do to a record
    Hash,         \* a path's hash
    Stem          \* a path's last component

Messages == [text : Text, takes : {"nothing", "value", "mapping"}]
ExcInfos(kinds) == Optional([kind : kinds, exception : Optional(Word)])
Paths == DOMAIN Hash \cap DOMAIN Stem
AreTexts(values) == \A name \in DOMAIN values : values[name] \in Text

(* Texts for what Python may hand over: the arguments of a call, those of a *)
(* formatter, and what a filter sets.                                       *)
CallFits(c) ==
    /\ c.msg \in Messages /\ c.args \in {"()", "(value)", "(mapping)", Py_None}
    /\ c.levelno \in Word /\ c.pathname \in Paths
    /\ c.exc_info \in ExcInfos(IF c.via = "LogRecord" THEN {"tuple", "other"}
                               ELSE {"exception", "tuple", "flag", "other"})
    /\ c.handling \in Word /\ c.stack_info \in Optional(Word)

FormatterFits(f) ==
    /\ f.kind \in {"Formatter", "FormatStyle"}
    /\ f.fmt \in Optional(Seq(Piece)) /\ f.style \in Styles
    /\ f.defaults # Py_None => AreTexts(f.defaults)
    /\ f.datefmt \in Optional(Word)

(* The slots of a record, by the names that Python knows them by.           *)
SlotNames == (field_map \ {"funcname"}) \cup {"funcName"}

RewriteFits(w) ==
    /\ w.kind \in {"message", "clear", "set", "exception"}
    /\ w.kind = "message" => w.msg \in Messages
    /\ w.kind = "set" => AreTexts(w.dict) /\ DOMAIN w.dict \cap SlotNames = {}
    /\ w.kind = "exception" => w.exc_info \in ExcInfos({"tuple", "other"})

ASSUME RecordTextAssumption ==
    /\ Queues \subseteq Handlers
    /\ DOMAIN Formatters = Handlers \cup Listening
    /\ \A h \in DOMAIN Formatters : \A f \in Formatters[h] : FormatterFits(f)
    /\ \A c \in Calls : CallFits(c)
    /\ \A w \in Rewrites : RewriteFits(w)
    /\ AreTexts(Stem)

VARIABLES
    formatter,   \* Handler.formatter
    record,      \* the record the handlers get
    queued,      \* the record a QueueHandler made of it, if it did
    cache,       \* FilepathCache.cache: pairs of a hash and a file name
    last,        \* history: the text made in the latest step, and of what
    sent         \* history: the text the queued record was made of

textVars == <<formatter, record, queued, cache, last, sent>>

NoText == [of |-> "nothing", text |-> Py_None, formatter |-> Py_None]

TextInit ==
    /\ formatter = [h \in Handlers \cup Listening |-> Py_None]
    /\ record = Py_None /\ queued = Py_None
    /\ cache = <<>>
    /\ last = NoText /\ sent = Py_None

-----------------------------------------------------------------------------
(* FilepathCache::lookup: the first entry with the path's hash, or a new    *)
(* one at the end.                                                          *)
Cached(pathname) == \E i \in 1 .. Len(cache) : cache[i][1] = Hash[pathname]

CacheWith(pathname) ==
    IF Cached(pathname) THEN cache
    ELSE Append(cache, <<Hash[pathname], Stem[pathname]>>)

Lookup(pathname) ==
    LET entries == CacheWith(pathname)
        first == SelectInSeq(entries, LAMBDA e : e[1] = Hash[pathname])
    IN  entries[first][2]

(* LogRecord_create; a tuple of one mapping stands for that mapping.        *)
LogRecord_create(msg, args, levelno, pathname, exc_info, sinfo, created) ==
    [msg |-> msg,
     args |-> IF args = "(mapping)" THEN "mapping" ELSE args,
     hasArgs |-> args \notin {"()", Py_None},
     levelno |-> levelno,
     levelname |-> <<<<"level", levelno>>>>,
     pathname |-> pathname, filename |-> Lookup(pathname),
     excInfo |-> exc_info, excText |-> Py_None, stackInfo |-> sinfo,
     message |-> Py_None, asctime |-> Py_None, created |-> created,
     dict |-> <<>>]

(* PyUnicode_Format(msg, args): None, the exception, unless they fit.       *)
PyUnicode_Format(msg, args) ==
    LET fits == CASE msg.takes = "nothing" -> args \in {"()", "mapping"}
                  [] msg.takes = "value" -> args \in {"(value)", "mapping", Py_None}
                  [] msg.takes = "mapping" -> args = "mapping"
    IN  IF ~ fits THEN Py_None
        ELSE IF msg.takes = "nothing" THEN msg.text
        ELSE Append(msg.text, <<"with", args>>)

(* Mutant: what an earlier call has written is returned as it is.           *)
MessageKept(r) ==
    IF r.message # Py_None THEN r.message
    ELSE IF r.hasArgs THEN PyUnicode_Format(r.msg, r.args) ELSE r.msg.text

(* LogRecord_writeMessage, which getMessage calls too: the new message.     *)
Message(r) ==
    IF r.hasArgs THEN PyUnicode_Format(r.msg, r.args) ELSE r.msg.text

Str(text) == IF text = Py_None THEN <<<<"None">>>> ELSE text

(* The texts of the slots; what no formatter changes is known by its name.  *)
Slot(r, name) ==
    CASE name = "message" -> Str(r.message)
      [] name = "asctime" -> Str(r.asctime)
      [] name = "exc_text" -> Str(r.excText)
      [] name = "levelname" -> r.levelname
      [] name = "filename" -> r.filename
      [] name \in IntegerSlots -> <<<<"integer", name>>>>
      [] name \in FloatSlots -> <<<<"float", name>>>>
      [] OTHER -> <<<<name>>>>

(* LogRecord_getDict: the slots of the record, over what else is set on it. *)
LogRecord_getDict(r) == Merged([name \in SlotNames |-> Slot(r, name)], r.dict)

(* What fragments write: funcName is a slot they know by another name too,  *)
(* and of msecs, the milliseconds of the clock in a long, they write an int. *)
FragmentSlots(r) == [funcname |-> Slot(r, "funcName"), msecs |-> <<<<"int", "msecs">>>>]
Attributes(r) == Merged(FragmentSlots(r), LogRecord_getDict(r))

-----------------------------------------------------------------------------
(* Formatter_init, or an object of another class with a method format.      *)
NewFormatter(f) ==
    LET style == NewFormatStyle(f.fmt, f.defaults, f.style)
    IN  [kind |-> f.kind, style |-> style, usesTime |-> UsesTime(style),
         dateFmt |-> f.datefmt]

DefaultFormatter ==
    [kind |-> "Formatter", fmt |-> Py_None, defaults |-> Py_None, style |-> "%",
     datefmt |-> Py_None]

(* FormatStyle_format: with defaults, which go over the attributes and into *)
(* the record's dictionary to stay there, it is Python that formats.        *)
FormatStyle_format(self, r) ==
    IF self.defaults = Py_None
    THEN [record |-> r, text |-> FormatFragments(self, Attributes(r))]
    ELSE [record |-> [r EXCEPT !.dict = Merged(self.defaults, @)],
          text |-> FormatByPython(self, Merged(self.defaults, LogRecord_getDict(r)))]

EndsLine(text) == text # <<>> /\ text[Len(text)] = <<"\n">>

WithLines(text, more) ==
    IF more = Py_None THEN text
    ELSE (IF EndsLine(text) THEN text ELSE Append(text, <<"\n">>)) \o more

(* The text of an exception as print_exception writes it.                   *)
Traceback(exc_info) == <<<<"traceback", exc_info.exception>>>>

(* Formatter_format of the stack: False, None and "" add nothing.           *)
StackLines(sinfo) == IF sinfo \in {"False", "", Py_None} THEN Py_None ELSE <<<<sinfo>>>>

(* Formatter_format: message, asctime and exc_text are written to the       *)
(* record as it goes, and stay there when a later part raises.              *)
Formatter_format(self, r) ==
    LET message == Message(r)
        stamped ==
            [r EXCEPT !.message = message,
                      !.asctime = IF self.usesTime
                                  THEN <<<<"time", r.created, self.dateFmt>>>> ELSE @]
        body == FormatStyle_format(self.style, stamped)
        pending == body.record.excInfo # Py_None /\ body.record.excText = Py_None
        traced == IF pending
                  THEN [body.record EXCEPT !.excText = Traceback(body.record.excInfo)]
                  ELSE body.record
    IN  IF message = Py_None THEN [record |-> r, text |-> Py_None]
        ELSE IF body.text = Py_None THEN body
        ELSE IF pending /\ body.record.excInfo.kind # "tuple"
             THEN [body EXCEPT !.text = Py_None]
        ELSE [record |-> traced,
              text |-> WithLines(WithLines(body.text, traced.excText),
                                 StackLines(traced.stackInfo))]

(* Handler_format: a handler without a formatter gets the default one.      *)
FormatterOf(h) ==
    IF formatter[h] = Py_None THEN NewFormatter(DefaultFormatter) ELSE formatter[h]

Formatted(h, r) ==
    IF FormatterOf(h).kind = "Formatter" THEN Formatter_format(FormatterOf(h), r)
    ELSE FormatStyle_format(FormatterOf(h).style, r)

Handler_format(h, r, of) ==
    /\ formatter' = [formatter EXCEPT ![h] = FormatterOf(h)]
    /\ last' = [of |-> of, text |-> Formatted(h, r).text,
                formatter |-> FormatterOf(h)]

-----------------------------------------------------------------------------
(* Logger_logAndHandle: an exception, a tuple, or anything else, for which  *)
(* the exception being handled is taken, if there is one.                   *)
ExcInfo(c) ==
    IF c.exc_info = Py_None THEN Py_None
    ELSE IF c.exc_info.kind \in {"exception", "tuple"}
         THEN [kind |-> "tuple", exception |-> c.exc_info.exception]
    ELSE [kind |-> "tuple", exception |-> c.handling]

(* Logger_logMessageAsRecord: the stack is printed for True only.           *)
StackInfo(c) == IF c.stack_info = "True" THEN "stack" ELSE c.stack_info

New(msg, args, c, exc_info, sinfo, created) ==
    LogRecord_create(msg, args, c.levelno, c.pathname, exc_info, sinfo, created)

(* A log call, after which the handlers get the record.                     *)
LogCall(c) ==
    /\ c.via = "logger"
    /\ record' = New(c.msg, c.args, c, ExcInfo(c), StackInfo(c), "logged")
    /\ cache' = CacheWith(c.pathname)
    /\ last' = NoText
    /\ queued' = Py_None /\ sent' = Py_None
    /\ UNCHANGED formatter

(* LogRecord(...), given to Logger.handle: exc_info stays what it is.       *)
LogRecord_new(c) ==
    /\ c.via = "LogRecord"
    /\ record' = New(c.msg, c.args, c, c.exc_info, c.stack_info, "logged")
    /\ cache' = CacheWith(c.pathname)
    /\ last' = NoText
    /\ queued' = Py_None /\ sent' = Py_None
    /\ UNCHANGED formatter

Handler_setFormatter(h, f) ==
    /\ formatter' = [formatter EXCEPT ![h] = NewFormatter(f)]
    /\ last' = NoText
    /\ UNCHANGED <<record, queued, cache, sent>>

(* StreamHandler_emit, or the emit of another handler that writes a text.   *)
Emit(h) ==
    /\ record # Py_None /\ h \notin Queues
    /\ Handler_format(h, record, "record")
    /\ record' = Formatted(h, record).record
    /\ UNCHANGED <<queued, cache, sent>>

(* Mutant: the exception goes into the queue beside the text it is in.      *)
PrepareWithException(h) ==
    LET out == Formatted(h, record)
    IN  /\ record # Py_None /\ h \in Queues
        /\ Handler_format(h, record, "record")
        /\ record' = out.record
        /\ IF out.text = Py_None THEN UNCHANGED <<queued, cache, sent>>
           ELSE /\ queued' = New([text |-> out.text, takes |-> "nothing"], Py_None,
                                 record, record.excInfo, record.stackInfo, "prepared")
                /\ cache' = CacheWith(record.pathname)
                /\ sent' = out.text

(* QueueHandler.emit: the text is the message of a new record, which keeps  *)
(* the stack beside; if there is no text, handleError has the exception.    *)
Prepare(h) ==
    LET out == Formatted(h, record)
    IN  /\ record # Py_None /\ h \in Queues
        /\ Handler_format(h, record, "record")
        /\ record' = out.record
        /\ IF out.text = Py_None THEN UNCHANGED <<queued, cache, sent>>
           ELSE /\ queued' = New([text |-> out.text, takes |-> "nothing"], Py_None,
                                 record, Py_None, record.stackInfo, "prepared")
                /\ cache' = CacheWith(record.pathname)
                /\ sent' = out.text

(* The same by a handler of the QueueListener.                              *)
Listen(h) ==
    /\ queued # Py_None
    /\ Handler_format(h, queued, "queued")
    /\ queued' = Formatted(h, queued).record
    /\ UNCHANGED <<record, cache, sent>>

(* What a filter of a handler, or of the logger, does to the record.        *)
Rewritten(w) ==
    CASE w.kind = "message" -> [record EXCEPT !.msg = w.msg, !.args = "()"]
      [] w.kind = "clear" -> [record EXCEPT !.args = Py_None]
      [] w.kind = "set" -> [record EXCEPT !.dict = Merged(w.dict, @)]
      [] w.kind = "exception" ->
            [record EXCEPT !.excInfo = w.exc_info, !.excText = Py_None]

Rewrite(w) ==
    /\ record # Py_None
    /\ record' = Rewritten(w)
    /\ last' = NoText
    /\ UNCHANGED <<formatter, queued, cache, sent>>

TextNext ==
    \/ \E c \in Calls : LogCall(c) \/ LogRecord_new(c)
    \/ \E h \in Handlers \cup Listening : \E f \in Formatters[h] : Handler_setFormatter(h, f)
    \/ \E h \in Handlers : Emit(h) \/ Prepare(h)
    \/ \E h \in Listening : Listen(h)
    \/ \E w \in Rewrites : Rewrite(w)

TextSpec == TextInit /\ [][TextNext]_textVars

-----------------------------------------------------------------------------
(* Slots have the values C code takes for granted: FormatStyle_init fills   *)
(* in as many fragments as FormatStyle_new made room for, exc_info is no    *)
(* bare exception, and no two entries of the cache have one hash            *)
(* (formatstyle.cxx:108, 371; logger.cxx:287; filepathcache.cxx:6).         *)
TextTypeOK ==
    /\ \A h \in DOMAIN formatter :
          formatter[h] # Py_None =>
              /\ formatter[h].kind \in {"Formatter", "FormatStyle"}
              /\ Len(formatter[h].style.fragments) = formatter[h].style.size
    /\ \A r \in {record, queued} \ {Py_None} :
          /\ r.args \in {"()", "(value)", "mapping", Py_None}
          /\ r.hasArgs \in BOOLEAN
          /\ r.excInfo # Py_None => r.excInfo.kind \in {"tuple", "other"}
          /\ r.created \in {"logged", "prepared"}
    /\ \A i, j \in 1 .. Len(cache) : cache[i][1] = cache[j][1] => i = j

(* What the application has put into a record, not what formatters left in  *)
(* it, formatted by Python: the text that a formatter owes for it.          *)
OwnText(f, r) ==
    LET message == IF r.args \in {"()", Py_None} THEN r.msg.text
                   ELSE PyUnicode_Format(r.msg, r.args)
        own == [r EXCEPT !.message = message,
                         !.levelname = <<<<"level", r.levelno>>>>,
                         !.filename = Stem[r.pathname],
                         !.asctime = <<<<"time", r.created, f.dateFmt>>>>]
        trace == IF r.excInfo = Py_None THEN Py_None ELSE Traceback(r.excInfo)
        body == FormatByPython(f.style, LogRecord_getDict(own))
    IN  IF message = Py_None \/ body = Py_None THEN Py_None
        ELSE IF trace # Py_None /\ r.excInfo.kind # "tuple" THEN Py_None
        ELSE WithLines(WithLines(body, trace), StackLines(r.stackInfo))

(* The pieces that fragments write as Python does.  They drop conversions,  *)
(* and take what they do not know for literals.                             *)
Alike(piece) ==
    /\ piece.kind = "field" /\ piece.name \notin {"funcname", "msecs"}
    /\ piece.conversion = "s" \/ (piece.conversion = "d" /\ piece.name \in IntegerSlots)

(* The pieces about what other formatters did: exc_text, names of defaults, *)
(* and a padded "{asctime}", for which UsesTime does not look.              *)
Borrowed(piece) ==
    \/ piece.name = "exc_text"
    \/ piece.name = "asctime" /\ piece.kind = "padded" /\ piece.style = "{"
    \/ \E g \in UNION Range(Formatters) :
          g.defaults # Py_None /\ piece.name \in DOMAIN g.defaults

PiecesOf(f) == {piece \in Range(f.style.fmt) : Of(piece, f.style.style)}

(* Formatters with defaults leave all to Python.                            *)
Shared(f) ==
    \E piece \in PiecesOf(f) :
        Borrowed(piece) \/ (f.style.defaults = Py_None /\ ~ Alike(piece))

(* What a Formatter makes of a record does not depend on the formatters and *)
(* filters that had it before, nor on what they left in it: it is the text  *)
(* that Python's own formatting gives for what the application put into the *)
(* record, or an exception where that raises one, if the fragments write    *)
(* the pieces of the format as Python does (logrecord.cxx:228,              *)
(* formatter.cxx:86, filepathcache.cxx:6).                                  *)
LastIsOwn ==
    last.text = OwnText(last.formatter, IF last.of = "record" THEN record ELSE queued)

TextIsOwn ==
    last.of # "nothing" /\ last.formatter.kind = "Formatter" /\ ~ Shared(last.formatter) =>
        LastIsOwn

(* The same of the other formats too: their conversions, funcname, msecs    *)
(* and malformed parts come out as they do without Python                   *)
(* (test_percentstyle.py:43, 59; test_formatter.py:134, 238).               *)
WrittenAsPython ==
    /\ last.of # "nothing" /\ last.formatter.kind = "Formatter"
    /\ ~ \E piece \in PiecesOf(last.formatter) : Borrowed(piece)
    => LastIsOwn

(* What a QueueHandler formatted is what the listener's handlers write, the *)
(* exception in it once, if nothing is added by their own formats           *)
(* (handlers.py:570).                                                       *)
Plain(f) ==
    /\ f.kind = "Formatter" /\ f.style.fmt = default_fmt /\ f.style.style = "%"
    /\ f.style.defaults = Py_None

QueuedArrivesOnce ==
    last.of = "queued" /\ Plain(last.formatter) /\ StackLines(queued.stackInfo) = Py_None =>
        last.text = sent

(* The same with a stack; handlers.py:567 has stack_info dropped with the   *)
(* exception once the text is made.                                         *)
QueuedStackOnce ==
    last.of = "queued" /\ Plain(last.formatter) => last.text = sent
=============================================================================
