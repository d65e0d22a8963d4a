------------------------------- MODULE Algorithms -------------------------------
(***************************************************************************)
(* The pure parts of the library, Config, Log and Parity, and what their   *)
(* documentation asks of them.  A behaviour takes one input and computes   *)
(* one result.                                                             *)
(***************************************************************************)
EXTENDS Config, Log, Parity

CONSTANTS  \* the inputs looked at
  SizeTexts, DurationTexts, Configurations, LogLevels, LogRecords, HostWits

ASSUME InputsAssumption ==
  /\ SizeTexts \subseteq Text
  /\ DurationTexts \subseteq Text
  /\ Configurations \subseteq RawConfig
  /\ LogRecords \subseteq Seq(LogRecord)
  /\ HostWits \subseteq HostWit

VARIABLES
  task,    \* what is computed, and from what
  result   \* a set: empty, then of the one result

vars == <<task, result>>

Init ==
  /\ task \in [on : {"size"}, text : SizeTexts]
            \union [on : {"duration"}, text : DurationTexts]
            \union [on : {"config"}, raw : Configurations]
            \union [on : {"log"}, level : LogLevels, records : LogRecords]
            \union [on : {"parity"}, wit : HostWits, registrations : SUBSET Registration]
  /\ result = {}

Compute(on, value) == task.on = on /\ result = {} /\ result' = {value} /\ UNCHANGED task

Next ==
  \/ task.on = "size" /\ Compute("size", ParseSize(task.text))
  \/ task.on = "duration" /\ Compute("duration", ParseDuration(task.text))
  \/ task.on = "config" /\ Compute("config", Parse(task.raw))
  \/ task.on = "log" /\ Compute("log", Stream(task.level, task.records))
  \/ task.on = "parity" /\ Compute("parity", Check(task.wit, task.registrations))

Spec == Init /\ [][Next]_vars

-----------------------------------------------------------------------------
(* Properties *)

Done(on) == task.on = on /\ result /= {}
Result   == CHOOSE r \in result : TRUE

\* config.rs, parse_size: a size is read as the exact number of bytes the text stands for, and
\* is refused when that is no u64; it never comes out smaller than it was written.
SizesExact ==
  Done("size") =>
    LET n == task.text.digits
        u == task.text.unit
        bytes == CASE u = <<>>                -> n
                   [] u \in {<<"K">>, <<"k">>} -> n * Kibi
                   [] u \in {<<"M">>, <<"m">>} -> n * (Kibi * Kibi)
                   [] u \in {<<"G">>, <<"g">>} -> n * (Kibi * Kibi * Kibi)
                   [] OTHER                   -> NoNumber
    IN Result = IF IsU64(n) /\ IsU64(bytes) THEN bytes ELSE Refused

\* config.rs, parse_duration: every unit means what it says, in whole seconds and the rest,
\* whenever the seconds fit in a u64; a text without a unit it knows is refused.
DurationsExact ==
  Done("duration") =>
    LET n == task.text.digits
        u == task.text.unit
        Means(letter, factor) ==
          u = <<letter>> /\ IsU64(factor * n) => Result = {Duration(factor * n, 0)}
    IN IF ~IsU64(n) \/ u \notin {<<"m", "s">>, <<"s">>, <<"m">>, <<"h">>}
         THEN Result = {}
         ELSE /\ Means("s", 1) /\ Means("m", 60) /\ Means("h", 3600)
              /\ u = <<"m", "s">> =>
                   \E d \in Result :
                     Result = {d} /\ d.millis \in 0..999 /\ 1000 * d.secs + d.millis = n

\* config.rs, parse: a configuration that is accepted makes a pool that can serve, whichever of
\* the two bounds the file leaves to its default; it is what InstancePool assumes of them.
AcceptedFitsPool ==
  Done("config") /\ Result = "accepted" =>
    LET Lower == task.raw.instancesMin \union (IF task.raw.instancesMin = {} THEN {8} ELSE {})
        Upper == task.raw.instancesMax \union (IF task.raw.instancesMax = {} THEN {128} ELSE {})
    IN \A lower \in Lower, upper \in Upper : upper > 0 /\ lower <= upper

\* log.rs, render: "values are quoted so a parser can recover the original fields".  One that
\* follows quotes from line to line recovers every record at or above the level, with all its
\* fields and nothing else, whatever characters they are made of.
StreamReadsBack ==
  Done("log") =>
    LET least == CASE task.level = "warning" -> 3
                   [] task.level \in DOMAIN Severity -> Severity[task.level]
                   [] OTHER -> 2
        Kept(r) == IF Severity[r.level] >= least THEN <<Pairs(r)>> ELSE <<>>
    IN ReadLines(Result) = FlattenSeq([k \in 1..Len(task.records) |-> Kept(task.records[k])])

\* log.rs, StderrSink: "one line per record".  A parser that takes the stream line by line gets
\* a record a line as long as no component, message or value of them has a line break, whatever
\* the keys are made of; and else it does not, for quote lets a line break through as it is.
OneLineUnlessValueBreaks ==
  Done("log") =>
    LET Breaks(t) == {k \in 1..Len(t) : t[k] = "nl"}
        Kept == {k \in 1..Len(task.records) : Emit(task.level, task.records[k]) /= <<>>}
        HasBreak(r) ==
          \/ Breaks(r.component) \union Breaks(r.message) /= {}
          \/ \E k \in 1..Len(r.fields) : Breaks(r.fields[k].value) /= {}
    IN Cardinality(Breaks(Result)) = Cardinality(Kept)
         <=> \A k \in Kept : ~HasBreak(task.records[k])

\* parity.rs: the check passes exactly when host.wit parses, every interface that its own worlds
\* export is registered, and by a working implementation only, and no other interface is.
ParityMeansServed ==
  Done("parity") =>
    LET Declares(i) ==
          \E w \in task.wit.worlds : w.own /\ [interface |-> TRUE, name |-> i] \in w.exports
        Has(i, kind) == [interface |-> i, kind |-> kind] \in task.registrations
    IN Result = {} <=>
         /\ task.wit.parses
         /\ \A i \in Interfaces : ~Has(i, "stub") /\ (Declares(i) <=> Has(i, "real"))
=============================================================================
