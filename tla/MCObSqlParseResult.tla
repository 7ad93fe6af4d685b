-------------------------- MODULE MCObSqlParseResult --------------------------
EXTENDS ObSqlParseResult

\* Names of lengths 1 and 2, so that a length taken from the wrong string
\* reads differently.
MCNameLen == [n \in Names |-> IF n = "n1" THEN 1 ELSE 2]

\* A statement carries a trace id, a text ps name and a route server, or not.
MCTraceIds == {Empty, "n2"}
MCTextPsNames == {Empty, "n1"}
MCRouteAddrs == {Empty, "a1"}
====
