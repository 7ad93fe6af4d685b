---------------------------- MODULE MCExprParser ----------------------------
(***************************************************************************)
(* Instantiates ExprParser for TLC.  The table is db.t, alias a, with a    *)
(* first-level partition key id (schema column 1) and a second-level key   *)
(* sub (schema column 0); c is an ordinary column and t2 another table of  *)
(* the statement.  The .cfg files pick the predicate sets below.           *)
(***************************************************************************)
EXTENDS ExprParser, TLC

MCPartKeys ==
    (0 :> [name |-> "id", level |-> "ONE", pos |-> 0, schemaIdx |-> 1])
    @@ (1 :> [name |-> "sub", level |-> "TWO", pos |-> 0, schemaIdx |-> 0])

id   == WCol(None, None, "id")
aid  == WCol(None, "a", "id")          \* alias-qualified (case 51)
dtid == WCol("db", "t", "id")          \* database-qualified (case 52)
t2id == WCol(None, "t2", "id")         \* the same name in another table
sub  == WCol(None, None, "sub")
c    == WCol(None, None, "c")

Cmp(l, op, r) == [form |-> "cmp", left |-> l, op |-> op, right |-> r]

\* Column against literal or placeholder, in both orientations, under
\* every comparison operator; column against column; ROW_ID = 'x'.
MCCmpPreds ==
    {Cmp(<<col>>, op, <<lit>>) : col \in {id, aid, dtid, t2id, sub, c},
                                  op \in Comps, lit \in {WInt(1), WQm}}
    \cup {Cmp(<<lit>>, op, <<col>>) : col \in {id, t2id, sub},
                                       op \in Comps, lit \in {WInt(1), WQm}}
    \cup {Cmp(<<id>>, "EQ", <<c>>), Cmp(<<WRowId>>, "EQ", <<WStr>>)}

\* `1 + id = 2`: an arithmetic expression over the key.
MCArithPreds == MCCmpPreds \cup {Cmp(<<WInt(1), WPlus, id>>, "EQ", <<WInt(2)>>)}

MCInPreds ==
    {[form |-> "in", left |-> <<id>>, items |-> <<<<WInt(1)>>, <<WInt(2)>>>>],
     [form |-> "in", left |-> <<sub>>, items |-> <<<<WInt(2)>>>>]}

\* `id IN (?, ?)`: a prepared IN list.
MCInPlaceholderPreds ==
    MCInPreds \cup {[form |-> "in", left |-> <<id>>, items |-> <<<<WQm>>, <<WQm>>>>]}

MCBetweenPreds ==
    {[form |-> "between", left |-> <<id>>, low |-> <<WInt(1)>>, high |-> <<WInt(2)>>],
     [form |-> "between", left |-> <<WInt(1)>>, low |-> <<sub>>, high |-> <<WQm>>]}

MCNullPreds ==
    {[form |-> "isnull", left |-> <<id>>, neg |-> b] : b \in BOOLEAN}

MCValueExprs == {<<WInt(1)>>, <<WQm>>}

====
