------------------------------- MODULE MCPipeline -------------------------------
(* One session or two of a client that sends a segment in two fragments, and    *)
(* the same segment uncut, then a chunk of the next second.                      *)
EXTENDS Pipeline

Datagram(cmd, id, seq, ts_ms, part, count) ==
  [cmd |-> cmd, id |-> id, seq |-> seq, ts_ms |-> ts_ms, index |-> part,
   count |-> count]

Command(cmd, id) == Datagram(cmd, id, 0, 0, 0, 0)

MCSessions == {"s1", "s2"}

MCDatagrams ==
  {Command("STRT", "s1"), Command("STRT", "s2"), Command("END", ""),
   Command("SHUTDOWN", ""),
   Datagram("SEGMENT", "", 1, 1000, 0, 2), Datagram("SEGMENT", "", 1, 1000, 1, 2),
   Datagram("SEGMENT", "", 1, 1000, 0, 1), Datagram("SEGMENT", "", 1, 1000, 2, 2),
   Datagram("DATASEQ", "", 2, 2100, 0, 0)}

MCKeys == MCSessions \X {0, 1, 2}

MCValues == {"line"}

\* All keys of a session collide.
MCHash == [key \in MCKeys |-> IF key[1] = "s1" THEN 3 ELSE 7]

MCQueries == [id : {"s1"}, keys : {{}, {<<"s1", 1>>}}]

\* A writer was killed inside a row, and the next row was glued to what it left.
MCOldFile ==
  LET old(whole) ==
        [key |-> <<"s1", 1>>, val |-> "line", exp |-> 0, n |-> 0, whole |-> whole]
  IN  <<old(FALSE), old(TRUE)>>
=================================================================================
