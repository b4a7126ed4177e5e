------------------------------ MODULE FormatStyle ------------------------------
(***************************************************************************)
(* Format strings (formatstyle.cxx).  FormatStyle_new counts the fragments  *)
(* of a format to allocate room for them, FormatStyle_init walks over the   *)
(* format again to fill them in, FormatStyle_format writes them out.        *)
(* A format is a sequence of pieces, a text a sequence of parts.            *)
(***************************************************************************)
EXTENDS Integers, Sequences, FiniteSets

CONSTANTS
    Py_None    \* Python's None; as a text, the exception raised in its place

(* The names that are written from the slots of the record, whatever else   *)
(* has been set on it.                                                      *)
field_map ==
    {"name", "msg", "args", "levelno", "levelname", "pathname", "filename",
     "module", "lineno", "funcname", "created", "msecs", "relativeCreated",
     "thread", "threadName", "processName", "process", "exc_info", "exc_text",
     "stack_info", "message", "asctime"}

(* Texts are sequences of parts, and parts name what stands for them.  The  *)
(* words of this module and of RecordText are listed, as the provers do not *)
(* know that a string is in STRING.                                         *)
Word == STRING \cup field_map \cup
    {"%", "{", "literal", "\n", "verbatim", "field", "padded", "escaped", "malformed",
     "s", "r", "d", "f", "integer", "int", "float", "message", "None", "()", "(value)",
     "(mapping)", "mapping", "with", "level", "time", "logged", "prepared",
     "traceback", "stack", "False", "funcName"}
Optional(S) == S \cup {Py_None}
Part == Seq(Optional(Word))
Text == Seq(Part)

ASSUME FormatStyleAssumption == Py_None \notin Word /\ Py_None \notin Text

Styles == {"%", "{"}

(* What the regular expression of a style finds is a "field" of it.  Python *)
(* also knows fields with more to them, "padded" like %(name)-8s; and %% or  *)
(* {{, "escaped"; and a "malformed" one, as "%(name " without its end, it    *)
(* does not take.  Conversions: s and r as str and repr write, d, one for   *)
(* integers, and f, one that writes numbers in another form.                *)
Piece == [kind : {"field", "padded", "escaped", "malformed"}, style : Styles,
          name : Word, conversion : {"s", "r", "d", "f"}]
         \cup [kind : {"text"}, part : {<<"literal">>, <<"\n">>}]

PieceOf(kind, style, name, conversion) ==
    [kind |-> kind, style |-> style, name |-> name, conversion |-> conversion]

Field(style, name) == PieceOf("field", style, name, "s")
As(conversion, name) == PieceOf("field", "%", name, conversion)
Padded(style, name) == PieceOf("padded", style, name, "s")
Escaped(style) == PieceOf("escaped", style, style, "s")
Malformed(style) == PieceOf("malformed", style, style, "s")
Literal == [kind |-> "text", part |-> <<"literal">>]
LineBreak == [kind |-> "text", part |-> <<"\n">>]

Of(piece, style) == piece.kind # "text" /\ piece.style = style

default_fmt == <<Field("%", "message")>>

-----------------------------------------------------------------------------
(* The places where the regular expression of the style matches.            *)
Matches(fmt, style) ==
    {i \in 1 .. Len(fmt) : fmt[i].kind = "field" /\ fmt[i].style = style}

(* Mutant: the literal fragment at the end is forgotten.                    *)
FragmentLenWithoutTail(fmt, style) ==
    LET M == Matches(fmt, style)
    IN  Cardinality(M) + Cardinality({i \in M : i > 1 /\ i - 1 \notin M})

(* FormatStyle_new: a fragment for every match, and one for what lies       *)
(* before a match, or before the end, and after the match before.           *)
FragmentLen(fmt, style) ==
    LET M == Matches(fmt, style)
    IN  Cardinality(M) + Cardinality({i \in M \cup {Len(fmt) + 1} :
                                         i > 1 /\ i - 1 \notin M})

LiteralFragment(pieces) ==
    IF pieces = <<>> THEN <<>> ELSE <<[field |-> "LiteralFragment", of |-> pieces]>>

FieldFragment(name) ==
    [field |-> IF name \in field_map THEN name ELSE "Field_Unknown", of |-> name]

(* FormatStyle_init: the matches from left to right, a cursor behind them.  *)
Past(walk, i, fmt, style) ==
    IF i \notin Matches(fmt, style) THEN walk
    ELSE [cursor |-> i + 1,
          found |-> walk.found \o LiteralFragment(SubSeq(fmt, walk.cursor, i - 1))
                        \o <<FieldFragment(fmt[i].name)>>]

Fragments(fmt, style) ==
    LET walk[i \in 0 .. Len(fmt)] ==
            IF i = 0 THEN [cursor |-> 1, found |-> <<>>]
            ELSE Past(walk[i - 1], i, fmt, style)
        end == walk[Len(fmt)]
    IN  end.found \o LiteralFragment(SubSeq(fmt, end.cursor, Len(fmt)))

(* FormatStyle(fmt, defaults, style); a format of None is the default one,  *)
(* for which one fragment is allocated.                                     *)
NewFormatStyle(fmt, defaults, style) ==
    LET given == IF fmt = Py_None THEN default_fmt ELSE fmt
    IN  [fmt |-> given, style |-> style, defaults |-> defaults,
         usesDefaultFmt |-> fmt = Py_None,
         size |-> IF fmt = Py_None THEN 1 ELSE FragmentLen(fmt, style),
         fragments |-> Fragments(given, style)]

(* FormatStyle_usesTime looks for "%(asctime)", with which a padded one     *)
(* begins too, or for "{asctime}".                                          *)
UsesTime(self) ==
    /\ ~ self.usesDefaultFmt
    /\ \E i \in 1 .. Len(self.fmt) :
          /\ Of(self.fmt[i], self.style) /\ self.fmt[i].name = "asctime"
          /\ self.fmt[i].kind \in IF self.style = "%" THEN {"field", "padded"} ELSE {"field"}

-----------------------------------------------------------------------------
(* Texts are written one after the other, until one of them raises.         *)
Joined(text, more) ==
    IF text = Py_None \/ more = Py_None THEN Py_None ELSE text \o more

Join(texts) ==
    LET written[i \in 0 .. Len(texts)] ==
            IF i = 0 THEN <<>> ELSE Joined(written[i - 1], texts[i])
    IN  written[Len(texts)]

Verbatim(piece) ==
    IF piece.kind = "text" THEN <<piece.part>>
    ELSE <<<<"verbatim", piece.kind, piece.style, piece.name, piece.conversion>>>>

(* An attribute or key that is not there raises.                            *)
Get(values, name) == IF name \in DOMAIN values THEN values[name] ELSE Py_None

(* A dictionary updated by another: TLC's @@, which the provers do not know. *)
Merged(new, old) ==
    [name \in DOMAIN new \cup DOMAIN old |->
        IF name \in DOMAIN new THEN new[name] ELSE old[name]]

(* FormatStyle_format without defaults, from the fragments: a value as str  *)
(* writes it, whatever the conversion.                                      *)
WriteFragment(fragment, values) ==
    IF fragment.field = "LiteralFragment"
    THEN Join([i \in 1 .. Len(fragment.of) |-> Verbatim(fragment.of[i])])
    ELSE Get(values, fragment.of)

FormatFragments(self, values) ==
    Join([i \in 1 .. self.size |->
             IF i \in 1 .. Len(self.fragments)
             THEN WriteFragment(self.fragments[i], values) ELSE Py_None])

(* The numbers of a record, as str writes them.                             *)
IntegerSlots == {"levelno", "lineno", "msecs", "thread", "process"}
FloatSlots == {"created", "relativeCreated"}
IsInteger(text) == \E name \in IntegerSlots : text = <<<<"integer", name>>>>
IsNumber(text) == IsInteger(text) \/ \E name \in FloatSlots : text = <<<<"float", name>>>>

(* PyUnicode_Format and str.format: d and f are for numbers only.           *)
Converted(text, conversion) ==
    IF \/ text = Py_None \/ conversion = "s"
       \/ conversion = "r" /\ IsNumber(text)
       \/ conversion = "d" /\ IsInteger(text)
    THEN text
    ELSE IF conversion = "r" \/ IsNumber(text) THEN Append(text, <<conversion>>)
    ELSE Py_None

WritePiece(piece, style, values) ==
    LET value == Converted(Get(values, piece.name), piece.conversion)
    IN  IF ~ Of(piece, style) THEN Verbatim(piece)
        ELSE CASE piece.kind = "field" -> value
               [] piece.kind = "padded" -> Joined(value, <<<<"padded">>>>)
               [] piece.kind = "escaped" -> <<<<piece.name>>>>
               [] piece.kind = "malformed" -> Py_None

FormatByPython(self, values) ==
    Join([i \in 1 .. Len(self.fmt) |-> WritePiece(self.fmt[i], self.style, values)])
==============================================================================
