----------------------------------- MODULE Log -----------------------------------
(***************************************************************************)
(* Log records as lines of text (src/log.rs), and the level below which    *)
(* Host::set_log_sink has them dropped (src/lib.rs).                       *)
(*                                                                         *)
(* A text is a sequence of characters: "sp" and "nl" are blanks, "eq",     *)
(* "qt" and "bs" the other characters that matter.  The words of a line    *)
(* that are always the same count as one character each.                   *)
(***************************************************************************)
EXTENDS Integers, SequencesExt

Characters == {"a", "sp", "nl", "eq", "qt", "bs"}
Separators == {"sp", "nl", "eq", "qt"}

Severity == [trace |-> 0, debug |-> 1, info |-> 2, warn |-> 3, error |-> 4]

LogField  == [key : Seq(Characters), value : Seq(Characters)]
LogRecord == [level : DOMAIN Severity, component : Seq(Characters), message : Seq(Characters),
              fields : Seq(LogField)]

\* Level::parse, with what set_log_sink takes for a value it does not know.
ParseLevel(name) ==
  CASE name \in DOMAIN Severity -> name
    [] name = "warning"         -> "warn"
    [] OTHER                    -> "info"

Replace(text, c, by) == FlattenSeq([k \in 1..Len(text) |-> IF text[k] = c THEN by ELSE <<text[k]>>])

\* Fault: the backslashes that protect quotes are doubled.
EscapeQuotesFirst(text) == Replace(Replace(text, "qt", <<"bs", "qt">>), "bs", <<"bs", "bs">>)

Escape(text) == Replace(Replace(text, "bs", <<"bs", "bs">>), "qt", <<"bs", "qt">>)

Quote(text) ==
  IF text = <<>> \/ \E k \in 1..Len(text) : text[k] \in Separators
    THEN <<"qt">> \o Escape(text) \o <<"qt">>
    ELSE text

\* Fault: blanks are taken for the only whitespace.
SanitizeKeyBlanks(key) == [k \in 1..Len(key) |-> IF key[k] \in {"sp", "eq", "qt"} THEN "_" ELSE key[k]]

SanitizeKey(key) == [k \in 1..Len(key) |-> IF key[k] \in Separators THEN "_" ELSE key[k]]

Field(key, value) == key \o <<"eq">> \o value

\* Record::render
Render(r) ==
  Field(<<"level">>, <<r.level>>)
    \o <<"sp">> \o Field(<<"component">>, Quote(r.component))
    \o <<"sp">> \o Field(<<"message">>, Quote(r.message))
    \o FlattenSeq([k \in 1..Len(r.fields) |->
                     <<"sp">> \o Field(SanitizeKey(r.fields[k].key), Quote(r.fields[k].value))])

\* Logger::emit into a StderrSink, by what it adds to the stream.
Emit(level, r) ==
  IF Severity[r.level] < Severity[ParseLevel(level)] THEN <<>> ELSE Append(Render(r), "nl")

\* What the stream holds after records were emitted one after another.
Stream(level, records) == FlattenSeq([k \in 1..Len(records) |-> Emit(level, records[k])])

-----------------------------------------------------------------------------
(* A parser that recovers the fields: to it a line ends at a line break outside quotes *)

Reader == [mode |-> "key", key |-> <<>>, value |-> <<>>, pairs |-> <<>>, lines |-> <<>>]

EndOfPair(s) ==
  [s EXCEPT !.mode = "key", !.key = <<>>, !.value = <<>>, !.pairs = Append(@, <<s.key, s.value>>)]
EndOfLine(s) == [s EXCEPT !.pairs = <<>>, !.lines = Append(@, s.pairs)]

Read(s, c) ==
  CASE s.mode = "key" /\ c = "eq"                -> [s EXCEPT !.mode = "value"]
    [] s.mode = "key" /\ c /= "eq"               -> [s EXCEPT !.key = Append(@, c)]
    [] s.mode = "value" /\ c = "qt"              -> [s EXCEPT !.mode = "quoted"]
    [] s.mode \in {"value", "plain"} /\ c = "sp" -> EndOfPair(s)
    [] s.mode \in {"value", "plain"} /\ c = "nl" -> EndOfLine(EndOfPair(s))
    [] s.mode = "quoted" /\ c = "bs"             -> [s EXCEPT !.mode = "escaped"]
    [] s.mode = "quoted" /\ c = "qt"             -> [s EXCEPT !.mode = "plain"]
    [] OTHER ->
         [s EXCEPT !.mode = IF @ \in {"quoted", "escaped"} THEN "quoted" ELSE "plain",
                   !.value = Append(@, c)]

After(s, text) ==
  LET state[k \in 0..Len(text)] == IF k = 0 THEN s ELSE Read(state[k - 1], text[k])
  IN state[Len(text)]

ReadLines(text) == After(Reader, text).lines

Pairs(r) ==
  <<<<<<"level">>, <<r.level>>>>, <<<<"component">>, r.component>>, <<<<"message">>, r.message>>>>
    \o [k \in 1..Len(r.fields) |-> <<SanitizeKey(r.fields[k].key), r.fields[k].value>>]
=============================================================================
