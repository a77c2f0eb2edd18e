-------------------------------- MODULE MCLogParse --------------------------------
(* Records of a type and a size; sizes are "2", "-3" and the word "big", type is a  *)
(* word or, for one line, nested.                                                  *)
EXTENDS LogParse

MCNames == {"type", "size"}

MCInt64 == [t \in {"2", "-3"} |-> IF t = "2" THEN 2 ELSE -3]

MCAtof == [t \in {"2", "-3", "big"} |-> CASE t = "2" -> 2 [] t = "-3" -> -3 [] OTHER -> 0]

MCSubstrings == {<<t, t>> : t \in {"2", "-3", "big"}} \cup {<<"-3", "2">>}

\* The record {"size":"big"} needs 13 bytes with its terminator, between the doubled
\* capacity 12 and SizeMax; one of two fields needs more than SizeMax.
MCSize ==
  [t \in MCNames \cup {"2", "-3", "big"} |->
     CASE t = "big" -> 3 [] t = "type" -> 2 [] OTHER -> 1]

Option(regex, fields, format, op, stat, log) ==
  [regex |-> regex, fields |-> fields, format |-> format,
   filter |-> IF op \in {"none", "bad"} THEN [NoFilter EXCEPT !.op = op]
              ELSE [op |-> op, key |-> "size", text |-> "2"],
   agg |-> stat, agg_field |-> "size", full_log |-> log]

MCOptions ==
  {Option(TRUE, <<"size">>, format, op, "none", TRUE) :
     format \in {"json", "csv", "count", "bad"}, op \in {"none", "=", "bad"}}
  \cup {Option(TRUE, <<"size", "type">>, format, op, stat, FALSE) :
           format \in {"json", "csv"}, op \in {"none", "!=", ">"}, stat \in {"none", "sum", "min"}}
  \cup {Option(FALSE, <<>>, format, op, stat, log) :
           format \in {"unset", "count", "csv"}, op \in {"none", "=", "!=", "~", ">"},
           stat \in {"none", "sum", "avg", "min", "max"}, log \in BOOLEAN}
  \cup {Option(TRUE, <<>>, "json", "none", "none", FALSE),
        Option(TRUE, <<"type">>, "json", "none", "max", FALSE),
        Option(FALSE, <<"size">>, "json", "none", "none", FALSE)}

Value(text, kind) == [text |-> text, kind |-> kind]

Object(fields) == [ok |-> TRUE, fields |-> fields]

MCLines ==
  {[ok |-> FALSE, fields |-> <<>>],
   Object([name \in {"type"} |-> Value("big", "string")]),
   Object([name \in {"size"} |-> Value("-3", "number")])}
  \cup {Object([name \in MCNames |-> IF name = "type" THEN Value("big", "nested") ELSE size]) :
          size \in {Value("2", "number"), Value("2", "string"), Value("big", "string"),
                   Value("-3", "number")}}
===================================================================================
