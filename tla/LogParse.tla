--------------------------------- MODULE LogParse ---------------------------------
(*******************************************************************************)
(* log_parse: records out of lines, a full log, a filter, and output or a      *)
(* summary (src/applets/log_parse).                                            *)
(*                                                                             *)
(* The text of a line is abstracted to what log_parse extracts: in regex mode  *)
(* the groups that are set, in JSONL mode the top-level fields of the object.  *)
(* Records are formatted in a DynamicBuffer, piece by piece, and any of its    *)
(* allocations may fail.  A stream of stdio is what was given to it and        *)
(* whether any of that was lost.  Numbers are integers.                        *)
(*******************************************************************************)
EXTENDS DynamicBuffer, Sequences, SequencesExt

CONSTANTS
  Names,       \* field names
  Int64,       \* the texts strtoll reads whole, and their values
  Atof,        \* what atof makes of each text
  Substrings,  \* <<t, u>>: strstr(t, u) finds u in t
  Size,        \* bytes of a name or text when it is written
  Options,     \* argument lists
  Lines,       \* input lines
  MaxLines     \* bound: length of the input

Texts == DOMAIN Atof

NoFilter == [op |-> "none", key |-> "", text |-> ""]

ASSUME LogParseAssumption ==
  /\ DOMAIN Int64 \subseteq Texts
  /\ \A line \in Lines :
       /\ DOMAIN line.fields \subseteq Names
       /\ \A name \in DOMAIN line.fields :
            line.fields[name] \in [text : Texts, kind : {"string", "number", "nested"}]
  /\ \A text \in Texts : Atof[text] \in Int
  \* A text lies in memory, with its quotes or its terminator.
  /\ 2 \in Sizes
  /\ \A t \in Names \cup Texts : Size[t] \in Nat /\ Size[t] + 2 \in Sizes
  /\ \A o \in Options :
       /\ o.fields \in Seq(Names)
       /\ o.agg \in {"none", "sum", "avg", "min", "max"}

VARIABLES
  opt,         \* the options
  pc,          \* where log_parse_main is
  seen,        \* the lines it has read
  values,      \* regex_state.log.values: the copies made so far
  pieces,      \* what is still to be appended to the buffer, by size
  dest,        \* where the formatted record goes
  agg,         \* agg_sum, agg_min, agg_max, agg_count
  matched,     \* matched_count
  full_log,    \* the two output streams
  out,
  summary,     \* what was printed at the end
  exit_code

vars ==
  <<bufferVars, opt, pc, seen, values, pieces, dest, agg, matched, full_log, out,
    summary, exit_code>>

line == Last(seen)

Stream == [text |-> <<>>, lost |-> FALSE]

\* The stream holds one item more, or has lost something.
Takes(stream, n) == [stream EXCEPT !.text = Append(@, n)]
Loses(stream) == [stream EXCEPT !.lost = TRUE]

Init ==
  /\ BufferInit
  /\ opt \in Options
  /\ pc = "setup"
  /\ seen = <<>>
  /\ values = <<>>
  /\ pieces = <<>>
  /\ dest = "log"
  /\ agg = [sum |-> 0, min |-> 0, max |-> 0, count |-> 0]
  /\ matched = 0
  /\ full_log = Stream
  /\ out = Stream
  /\ summary = <<>>
  /\ exit_code = 0

-----------------------------------------------------------------------------------
(* Options                                                                       *)

Aggregates == opt.agg # "none"

BadOptions ==
  \/ opt.filter.op = "bad"
  \/ opt.format = "bad"
  \/ /\ opt.regex
     /\ \/ opt.fields = <<>>
        \/ Aggregates /\ opt.agg_field \notin Range(opt.fields)
  \/ /\ ~opt.regex
     /\ opt.fields # <<>> \/ (opt.format \in {"json", "csv"} /\ ~Aggregates)

Goto(where) ==
  /\ pc' = where
  /\ UNCHANGED <<opt, seen>>

Setup ==
  /\ pc = "setup"
  /\ ~BadOptions
  /\ Goto("read")
  /\ UNCHANGED <<bufferVars, values, pieces, dest, agg, matched, full_log, out, summary,
                 exit_code>>

\* The options are refused; or the full log cannot be opened, the pattern not
\* compiled, or the list of fields not allocated.
SetupFails ==
  /\ pc = "setup"
  /\ BadOptions \/ opt.full_log \/ opt.regex
  /\ Goto("exited")
  /\ exit_code' = 1
  /\ UNCHANGED <<bufferVars, values, pieces, dest, agg, matched, full_log, out, summary>>

-----------------------------------------------------------------------------------
(* Lines                                                                         *)

\* log_filter_match_jsonl returns 0.
Validates(l) ==
  /\ l.ok
  /\ opt.filter.op \in {"=", "!=", "~"} =>
       opt.filter.key \in DOMAIN l.fields /\ l.fields[opt.filter.key].kind # "nested"

ReadLine ==
  /\ pc = "read"
  /\ Len(seen) < MaxLines
  /\ \E l \in Lines :
       /\ seen' = Append(seen, l)
       /\ pc' = CASE ~opt.regex /\ Validates(l) -> "log"
                  [] opt.regex /\ l.ok         -> "capture"
                  [] OTHER                     -> "read"
  /\ UNCHANGED <<bufferVars, opt, values, pieces, dest, agg, matched, full_log, out,
                 summary, exit_code>>

Group == opt.fields[Len(values) + 1]

\* lp_strndup of one capture group.
Capture ==
  /\ pc = "capture"
  /\ Group \in DOMAIN line.fields
  /\ values' = Append(values, line.fields[Group].text)
  /\ Goto(IF Len(values') = Len(opt.fields) THEN "log" ELSE "capture")
  /\ UNCHANGED <<bufferVars, pieces, dest, agg, matched, full_log, out, summary, exit_code>>

\* Fault: the copies already made are not freed.
GroupUnset_KeepValues ==
  /\ pc = "capture" /\ Group \notin DOMAIN line.fields
  /\ Goto("read")
  /\ UNCHANGED <<bufferVars, values, pieces, dest, agg, matched, full_log, out, summary,
                 exit_code>>

\* A group that took no part in the match: the line counts as one that does not match.
GroupUnset ==
  /\ pc = "capture"
  /\ Group \notin DOMAIN line.fields
  /\ values' = <<>>
  /\ Goto("read")
  /\ UNCHANGED <<bufferVars, pieces, dest, agg, matched, full_log, out, summary, exit_code>>

\* The loop is left with exit_code 2.
Break ==
  /\ values' = <<>>
  /\ exit_code' = 2
  /\ Goto("summary")
  /\ UNCHANGED <<agg, matched, summary>>

CaptureFails ==
  /\ pc = "capture"
  /\ Break
  /\ UNCHANGED <<bufferVars, pieces, dest, full_log, out>>

-----------------------------------------------------------------------------------
(* Formatting: log_output_write_json and log_output_emit_csv                     *)

JsonPieces ==
  <<1>> \o FlattenSeq([i \in DOMAIN opt.fields |->
             (IF i > 1 THEN <<1>> ELSE <<>>)
               \o <<Size[opt.fields[i]] + 2, 1, Size[values[i]] + 2>>])
        \o <<2>>

CsvPieces ==
  FlattenSeq([i \in DOMAIN opt.fields |->
    (IF i > 1 THEN <<1>> ELSE <<>>) \o <<Size[values[i]]>>]) \o <<1>>

StartFormat(target, list) ==
  /\ dest' = target
  /\ pieces' = list
  /\ Goto("format")
  /\ UNCHANGED <<bufferVars, values, agg, matched, full_log, out, summary, exit_code>>

AppendPiece ==
  /\ pc = "format"
  /\ rc = 0
  /\ pieces # <<>>
  /\ AppendBytes(Head(pieces))
  /\ pieces' = Tail(pieces)
  /\ UNCHANGED <<opt, pc, seen, values, dest, agg, matched, full_log, out, summary,
                 exit_code>>

GrowBuffer ==
  /\ pc = "format"
  /\ Grow
  /\ UNCHANGED <<opt, pc, seen, values, pieces, dest, agg, matched, full_log, out, summary,
                 exit_code>>

FormatFails ==
  /\ pc = "format"
  /\ rc = -1
  /\ Free
  /\ pieces' = <<>>
  /\ Break
  /\ UNCHANGED <<dest, full_log, out>>

Formatted == pc = "format" /\ rc = 0 /\ pieces = <<>> /\ phase = "idle"

-----------------------------------------------------------------------------------
(* The full log, before the filter                                               *)

NoLog ==
  /\ pc = "log"
  /\ ~opt.full_log
  /\ Goto("use")
  /\ UNCHANGED <<bufferVars, values, pieces, dest, agg, matched, full_log, out, summary,
                 exit_code>>

FormatLog ==
  /\ pc = "log"
  /\ opt.full_log
  /\ opt.regex
  /\ StartFormat("log", JsonPieces)

\* A formatted record, or the line itself, goes to the full log.
ToLog ==
  \/ Formatted /\ dest = "log" /\ Free
  \/ pc = "log" /\ opt.full_log /\ ~opt.regex /\ UNCHANGED bufferVars

WriteLog ==
  /\ ToLog
  /\ full_log' = Takes(full_log, Len(seen))
  /\ Goto("use")
  /\ UNCHANGED <<values, pieces, dest, agg, matched, out, summary, exit_code>>

WriteLogFails ==
  /\ ToLog
  /\ full_log' = Loses(full_log)
  /\ Break
  /\ UNCHANGED <<pieces, dest, out>>

-----------------------------------------------------------------------------------
(* The filter                                                                    *)

Compares(text) ==
  CASE opt.filter.op = "="  -> text = opt.filter.text
    [] opt.filter.op = "!=" -> text # opt.filter.text
    [] opt.filter.op = "~"  -> <<text, opt.filter.text>> \in Substrings
    [] opt.filter.op = ">"  -> /\ {text, opt.filter.text} \subseteq DOMAIN Int64
                               /\ Int64[text] > Int64[opt.filter.text]

\* log_filter_match_fields, and *matched of log_filter_match_jsonl.
Matches(l) ==
  \/ opt.filter.op = "none"
  \/ /\ opt.filter.key \in DOMAIN l.fields
     /\ opt.regex => opt.filter.key \in Range(opt.fields)
     /\ ~opt.regex /\ opt.filter.op = ">" => l.fields[opt.filter.key].kind = "number"
     /\ Compares(l.fields[opt.filter.key].text)

Prints == pc = "use" /\ Matches(line) /\ ~Aggregates /\ opt.format # "count"

\* log_regex_free_values, and the next line.
NextLine ==
  /\ values' = <<>>
  /\ Goto("read")
  /\ UNCHANGED <<pieces, dest, full_log, summary, exit_code>>

Drop ==
  /\ pc = "use"
  /\ ~Matches(line)
  /\ NextLine
  /\ UNCHANGED <<bufferVars, agg, matched, out>>

-----------------------------------------------------------------------------------
(* Aggregation, counting, printing                                               *)

\* Fault: minimum and maximum start from zero.
Accumulate_FromZero(val) ==
  agg' = [sum |-> agg.sum + val, count |-> agg.count + 1,
          min |-> IF val < agg.min THEN val ELSE agg.min,
          max |-> IF val > agg.max THEN val ELSE agg.max]

Accumulate(val) ==
  agg' = [sum   |-> agg.sum + val,
          count |-> agg.count + 1,
          min   |-> IF agg.count = 0 \/ val < agg.min THEN val ELSE agg.min,
          max   |-> IF agg.count = 0 \/ val > agg.max THEN val ELSE agg.max]

\* Every text of a regex field is a number to atof; in JSONL the field must be one.
HasNumber(l) ==
  /\ opt.agg_field \in DOMAIN l.fields
  /\ ~opt.regex => l.fields[opt.agg_field].kind = "number"

NumberIn(l) == Atof[l.fields[opt.agg_field].text]

Aggregate ==
  /\ pc = "use"
  /\ Matches(line)
  /\ Aggregates
  /\ IF HasNumber(line) THEN Accumulate(NumberIn(line)) ELSE UNCHANGED agg
  /\ NextLine
  /\ UNCHANGED <<bufferVars, matched, out>>

Count ==
  /\ pc = "use"
  /\ Matches(line)
  /\ ~Aggregates
  /\ opt.format = "count"
  /\ matched' = matched + 1
  /\ NextLine
  /\ UNCHANGED <<bufferVars, agg, out>>

FormatOut ==
  /\ Prints
  /\ opt.regex
  /\ StartFormat("out", IF opt.format = "csv" THEN CsvPieces ELSE JsonPieces)

\* A formatted record, or the line itself, goes to standard output.
ToOut ==
  \/ Formatted /\ dest = "out" /\ Free
  \/ Prints /\ ~opt.regex /\ UNCHANGED bufferVars

WriteOut ==
  /\ ToOut
  /\ out' = Takes(out, Len(seen))
  /\ NextLine
  /\ UNCHANGED <<agg, matched>>

\* log_output_write_json looks at the result of fputs; log_output_emit_csv and the
\* puts of JSONL mode do not.
WriteOutFails ==
  /\ ToOut
  /\ out' = Loses(out)
  /\ IF opt.regex /\ opt.format # "csv"
     THEN Break /\ UNCHANGED <<pieces, dest, full_log>>
     ELSE NextLine /\ UNCHANGED <<agg, matched>>

-----------------------------------------------------------------------------------
(* The end                                                                       *)

\* getline finds no more lines, or fails.
EndOfInput ==
  /\ pc = "read"
  /\ exit_code' \in {0, 2}
  /\ Goto("summary")
  /\ UNCHANGED <<bufferVars, values, pieces, dest, agg, matched, full_log, out, summary>>

Result ==
  IF ~Aggregates THEN <<matched, 1>>
  ELSE IF agg.count = 0 THEN <<0, 1>>
  ELSE CASE opt.agg = "sum" -> <<agg.sum, 1>>
         [] opt.agg = "avg" -> <<agg.sum, agg.count>>
         [] opt.agg = "min" -> <<agg.min, 1>>
         [] opt.agg = "max" -> <<agg.max, 1>>

PrintSummary ==
  /\ pc = "summary"
  /\ summary' = IF exit_code = 0 /\ (Aggregates \/ opt.format = "count")
                THEN <<Result>> ELSE <<>>
  /\ Goto("close")
  /\ UNCHANGED <<bufferVars, values, pieces, dest, agg, matched, full_log, out, exit_code>>

\* Fault: nobody asks whether the full log could be closed.
Close_Unchecked ==
  /\ pc = "close"
  /\ full_log' \in {full_log} \cup (IF opt.full_log THEN {Loses(full_log)} ELSE {})
  /\ Goto("exited")
  /\ UNCHANGED <<bufferVars, values, pieces, dest, agg, matched, out, summary, exit_code>>

\* fclose writes what is buffered and may fail; so may the fflush of stdout.
Close ==
  /\ pc = "close"
  /\ out' \in {out, Loses(out)}
  /\ \/ UNCHANGED <<full_log, exit_code>>
     \/ /\ opt.full_log
        /\ full_log' = Loses(full_log)
        /\ exit_code' = 2
  /\ Goto("exited")
  /\ UNCHANGED <<bufferVars, values, pieces, dest, agg, matched, summary>>

Next ==
  \/ Setup \/ SetupFails
  \/ ReadLine \/ Capture \/ GroupUnset \/ CaptureFails
  \/ AppendPiece \/ GrowBuffer \/ FormatFails
  \/ NoLog \/ FormatLog \/ WriteLog \/ WriteLogFails
  \/ Drop \/ Aggregate \/ Count \/ FormatOut \/ WriteOut \/ WriteOutFails
  \/ EndOfInput \/ PrintSummary \/ Close

\* One process that runs when it can; MaxLines ends its input.
Spec == Init /\ [][Next]_vars /\ WF_vars(Next)

-----------------------------------------------------------------------------------

\* The list holds the numbers of S, each once, in ascending order.
Lists(list, S) ==
  /\ Range(list) = S
  /\ \A i, j \in DOMAIN list : i < j => list[i] < list[j]

\* Written as a recursive function, which can be reasoned about.
Sum(numbers) ==
  LET sum[i \in 0 .. Len(numbers)] == IF i = 0 THEN 0 ELSE sum[i - 1] + numbers[i]
  IN  sum[Len(numbers)]

\* What log_parse takes for a record.
IsRecord(l) ==
  IF opt.regex THEN l.ok /\ Range(opt.fields) \subseteq DOMAIN l.fields ELSE Validates(l)

Records == {i \in DOMAIN seen : IsRecord(seen[i])}

Passing == {i \in Records : Matches(seen[i])}

\* The lines a summary is about: those that pass and have a number.
Counted == {i \in Passing : HasNumber(seen[i])}

\* Exit status 0 means that the full log holds every record read, once, in order and
\* before any filtering, whatever stdio reported when: the writes and the fclose are
\* both looked at (log_parse.c:246, 298, 356).  In JSONL mode an object that lacks the
\* key of a filter other than ">" is no record.
SuccessIsLogged ==
  pc = "exited" /\ exit_code = 0 /\ opt.full_log =>
    ~full_log.lost /\ Lists(full_log.text, Records)

Total == Sum([i \in DOMAIN seen |-> IF i \in Counted THEN NumberIn(seen[i]) ELSE 0])

\* The summary, from all lines at once, as a fraction.
Expected ==
  LET numbers == {NumberIn(seen[i]) : i \in Counted}
  IN  IF ~Aggregates THEN <<Cardinality(Passing), 1>>
      ELSE IF Counted = {} THEN <<0, 1>>
      ELSE CASE opt.agg = "sum" -> <<Total, 1>>
             [] opt.agg = "avg" -> <<Total, Cardinality(Counted)>>
             [] opt.agg = "min" -> <<Min(numbers), 1>>
             [] opt.agg = "max" -> <<Max(numbers), 1>>

Summarises == Aggregates \/ opt.format = "count"

\* Standard output is what passes, in order, and it is all of it after exit status 0
\* unless stdout itself failed; a summary is printed over the whole input or not at
\* all (log_parse.c:332-347).
OutputIsExact ==
  LET expected == IF Summarises THEN {} ELSE Passing
  IN  /\ ~out.lost => \E k \in 0 .. Len(seen) : Lists(out.text, expected \cap 1 .. k)
      /\ summary # <<>> => summary = <<Expected>>
      /\ pc = "exited" /\ exit_code = 0 =>
           /\ out.lost \/ Lists(out.text, expected)
           /\ Summarises => summary # <<>>

\* The copies of the capture groups belong to the line at hand, and there are none
\* when the next line is parsed or the loop is left: every early end of a turn frees
\* them (log_regex.c:69-76, log_parse.c:248, 274, 281, 290).
CapturesBelong ==
  /\ \A i \in DOMAIN values :
       opt.fields[i] \in DOMAIN line.fields /\ values[i] = line.fields[opt.fields[i]].text
  /\ pc \in {"read", "summary", "close", "exited"} => values = <<>>

\* log_parse ends when its input does: formatting never hangs, however long the
\* record and wherever an allocation fails.
Ends == <>(pc = "exited")
===================================================================================
