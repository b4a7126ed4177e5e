---------------------------- MODULE MCRecordText ----------------------------
(* Values for RecordText's constants.                                        *)
EXTENDS RecordText

CONSTANTS h1, q1, l1

Plain1 == [text |-> <<<<"plain">>>>, takes |-> "nothing"]
OneValue == [text |-> <<<<"one %s">>>>, takes |-> "value"]
Keyed == [text |-> <<<<"%(key)s">>>>, takes |-> "mapping"]

Exception(kind, e) == [kind |-> kind, exception |-> e]

Call(msg, args) ==
    [via |-> "logger", msg |-> msg, args |-> args, levelno |-> "INFO",
     pathname |-> "a/one.py", exc_info |-> Py_None, handling |-> "nothing",
     stack_info |-> "False"]

(* Messages with and without arguments that fit, an exception in each of    *)
(* the forms that a call takes, a stack, and records made by hand.          *)
MCCalls ==
    {Call(Plain1, "()"), Call(Plain1, "(value)"),
     [Call(OneValue, "(value)") EXCEPT !.exc_info = Exception("exception", "e1")],
     [Call(OneValue, "()") EXCEPT !.exc_info = Exception("flag", Py_None), !.handling = "e2",
                                  !.pathname = "b/two.py"],
     [Call(Keyed, "(mapping)") EXCEPT !.stack_info = "True"],
     [Call(OneValue, "(value)") EXCEPT !.via = "LogRecord", !.stack_info = Py_None,
                                       !.exc_info = Exception("tuple", "e1")],
     [Call(Plain1, "()") EXCEPT !.via = "LogRecord", !.stack_info = "",
                                !.exc_info = Exception("other", Py_None)]}

Style(kind, fmt, style) ==
    [kind |-> kind, fmt |-> fmt, style |-> style, defaults |-> Py_None, datefmt |-> Py_None]

Timed == Style("Formatter", <<Field("%", "asctime"), Literal, Field("%", "message"),
                              LineBreak>>, "%")
TimedInBraces ==
    [Style("Formatter", <<Literal, Field("{", "filename"), Field("{", "message"),
                          Field("{", "asctime"), Field("%", "levelname")>>, "{")
     EXCEPT !.datefmt = "time of day"]
WithDefaults ==
    [Style("FormatStyle", <<Padded("%", "levelname"), Field("%", "message"),
                            Field("%", "shop")>>, "%")
     EXCEPT !.defaults = "shop" :> <<<<"default">>>>]

(* What Python writes otherwise than the fragments: it raises at the end.   *)
Unlike ==
    Style("Formatter", <<As("d", "msecs"), As("f", "created"), As("r", "message"),
                         Escaped("%"), Field("%", "funcname")>>, "%")

(* The formats mix literals, fields, names of the other style and names that *)
(* only a filter sets; two ask for the time, in different forms.             *)
MCFormatters ==
    h1 :> {Timed, WithDefaults,
           Style("Formatter", <<Field("%", "user"), As("d", "levelno"), Literal>>, "%"),
           Unlike, [Unlike EXCEPT !.defaults = <<>>]}
    @@ q1 :> {TimedInBraces}
    @@ l1 :> {Timed}

MCRewrites ==
    {[kind |-> "message", msg |-> [text |-> <<<<"redacted">>>>, takes |-> "nothing"]],
     [kind |-> "set", dict |-> "user" :> <<<<"someone">>>>],
     [kind |-> "exception", exc_info |-> Exception("tuple", "e2")]}

(* A filter that sets args to None, as QueueHandler.prepare does.            *)
MCClearing == {[kind |-> "clear"]}

MCHash == "a/one.py" :> 1 @@ "b/two.py" :> 2
MCStem == "a/one.py" :> <<<<"one.py">>>> @@ "b/two.py" :> <<<<"two.py">>>>
=============================================================================
