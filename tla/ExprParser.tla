------------------------------ MODULE ExprParser ------------------------------
(***************************************************************************)
(* The semantic actions of the obproxy expression parser                   *)
(* (src/obproxy/opsql/expr_parser/ob_expr_parser_utf8_tab.c).              *)
(*                                                                         *)
(* The LALR tables are not modelled: one step of the model is one grammar  *)
(* reduction that has a semantic action, applied to ObExprParseResult.  A  *)
(* bool_pri reduction is taken together with the token reductions that    *)
(* precede it (cases 48-60, which number placeholders and resolve column   *)
(* references) and the cond_expr / set_expr reduction that follows it     *)
(* (cases 21-25, 81-82: check_and_add_relation), since nothing else can    *)
(* change the result between them.                                         *)
(*                                                                         *)
(* Besides the parser state the model keeps a ghost record of what was     *)
(* written: the predicates of the condition chain with their connectors,   *)
(* the INSERT column list and the VALUES rows.  The properties compare the *)
(* relation lists the parser returns with what the statement says.        *)
(***************************************************************************)
EXTENDS Integers, Sequences, FiniteSets, SequencesExt

CONSTANTS
    PartKeys,        \* part_key_info_.part_keys_: [0..key_num_-1 -> [name, level, pos, schemaIdx]]
    DbName,          \* table_info_.database_name_
    TableName,       \* table_info_.table_name_
    AliasName,       \* table_info_.alias_name_
    RowIdName,       \* the ROW_ID pseudo column
    None,            \* NULL
    ParseModes,      \* subset of {"select", "insert"}: result->parse_mode_
    Connectors,      \* subset of {"AND", "OR"}: AND_OP / OR_OP in cond_expr
    CmpPreds,        \* written `expr comp expr` predicates (rules 26-28)
    InPreds,         \* written `expr IN (in_expr_list)` predicates (rule 29)
    BetweenPreds,    \* written `expr BETWEEN expr AND expr` predicates (rule 30)
    NullPreds,       \* written `expr IS [NOT] NULL` predicates (rules 31-32)
    InsertColumns,   \* column names an INSERT column list may name (rule 78)
    ValueExprs,      \* written VALUES items (rules 79-80)
    MaxPreds,        \* bound: bool_pri reductions in one statement
    MaxColumns,      \* bound: names in an INSERT column list
    MaxRows,         \* bound: rows in VALUES
    MaxRowLen,       \* bound: items in one VALUES row
    MaxRelationNum,  \* OBPROXY_MAX_RELATION_NUM
    RelAllocMayFail, \* whether obproxy_parse_malloc of a relation may return NULL
    Vals             \* column and placeholder values used to evaluate predicates

ASSUME MaxRelationNum \in Nat /\ MaxPreds \in Nat /\ RelAllocMayFail \in BOOLEAN

KeyIds == DOMAIN PartKeys
KeyNames == {PartKeys[i].name : i \in KeyIds}
NoKey == -1                                   \* IDX_NO_PART_KEY_COLUMN
Comps == {"EQ", "NSEQ", "GE", "GT", "LE", "LT", "NE"}

(* Written operands of a token_list, the input alphabet of the model.     *)
WCol(db, tbl, name) == [kind |-> "col", db |-> db, tbl |-> tbl, name |-> name]
WRowId == [kind |-> "rowid"]
WInt(v) == [kind |-> "int", val |-> v]
WStr == [kind |-> "str"]
WQm == [kind |-> "qm"]
WPlus == [kind |-> "op"]

VARIABLES
    state,            \* where the parse is: "where", "insert", "set", "columns",
                      \* "values", "row", "accept", "abort"
    relations,        \* relation_info_.relations_[0..relation_num_-1]
    allRelations,     \* all_relation_info_.relations_[0..relation_num_-1]
    rightValueNum,    \* all_relation_info_.right_value_num_
    keyIdx,           \* part_keys_[i].idx_
    keyExist,         \* part_keys_[i].is_exist_in_sql_
    columnIdx,        \* column_idx_
    valuesListIdx,    \* values_list_idx_
    multiParamValues, \* multi_param_values_
    placeholderIdx,   \* placeholder_list_idx_
    hasRowid,         \* has_rowid_
    clause,           \* ghost: <<connector, predicate>> of the condition chain
    columns,          \* ghost: the INSERT column list, None when omitted
    rows              \* ghost: the VALUES rows as token lists

parserVars == <<relations, allRelations, rightValueNum, keyIdx, keyExist, columnIdx,
                valuesListIdx, multiParamValues, placeholderIdx, hasRowid>>
vars == <<state, parserVars, clause, columns, rows>>

-----------------------------------------------------------------------------
(* Token construction and list helpers.                                    *)

\* is_equal: length and strncasecmp; names are case-folded model values.
IsEqual(l, r) == l # None /\ r # None /\ l = r

\* get_part_key_idx: db and table qualifiers must name this table.
GetPartKeyIdx(db, tbl, name) ==
    IF KeyIds = {}
       \/ (db # None /\ ~IsEqual(db, DbName))
       \/ (tbl # None /\ ~IsEqual(tbl, TableName) /\ ~IsEqual(tbl, AliasName))
    THEN NoKey
    ELSE LET m == {i \in KeyIds : IsEqual(name, PartKeys[i].name)}
         IN IF m = {} THEN NoKey ELSE Min(m)

\* Cases 48-60: the token a written operand reduces to, given the
\* placeholder counter before it.
TokenOf(w, ph) ==
    CASE w.kind = "col"   -> [kind |-> "col", key |-> GetPartKeyIdx(w.db, w.tbl, w.name),
                              name |-> w.name]
      [] w.kind = "rowid" -> [kind |-> "col", key |-> 0, name |-> RowIdName]
      [] w.kind = "int"   -> [kind |-> "int", val |-> w.val]
      [] w.kind = "qm"    -> [kind |-> "ph", idx |-> ph]
      [] OTHER            -> [kind |-> w.kind]

QmCount(l) == Cardinality({i \in 1..Len(l) : l[i].kind = "qm"})

\* Cases 43-44 over a written token_list: malloc_list then add_token.
RECURSIVE TokenList(_, _)
TokenList(l, ph) ==
    IF l = <<>> THEN <<>>
    ELSE <<TokenOf(Head(l), ph)>> \o TokenList(Tail(l), ph + QmCount(<<Head(l)>>))

\* Token lists of several token_lists reduced one after another.
TokenLists(ls, ph) ==
    [j \in 1..Len(ls) |->
        TokenList(ls[j], ph + FoldLeft(LAMBDA a, l : a + QmCount(l), 0, SubSeq(ls, 1, j - 1)))]

HasRowIdIn(ls) == \E j \in 1..Len(ls) : \E i \in 1..Len(ls[j]) : ls[j][i].kind = "rowid"

\* column_node_: set by malloc_list for a leading column and overwritten
\* by add_token for every later column, so the last column token.
ColumnNode(l) ==
    LET cs == {i \in 1..Len(l) : l[i].kind = "col"}
    IN IF cs = {} THEN None ELSE l[Max(cs)]

\* add_token_list: appends only the head of the next list, and only when
\* both ends are INT, STR or FUNC tokens.
ValueKinds == {"int", "str", "func"}
AddTokenList(l, n) ==
    IF l # <<>> /\ n # <<>> /\ Last(l).kind \in ValueKinds /\ n[1].kind \in ValueKinds
    THEN Append(l, n[1])
    ELSE l

\* Variant with the GT case missing from the switch (mirror check).
get_reverse_func_no_gt(t) ==
    CASE t = "GE" -> "LE" [] t = "LE" -> "GE" [] t = "LT" -> "GT" [] OTHER -> t

get_reverse_func(t) ==
    CASE t = "GE" -> "LE" [] t = "GT" -> "LT"
      [] t = "LE" -> "GE" [] t = "LT" -> "GT"
      [] OTHER -> t

-----------------------------------------------------------------------------
(* Relation construction.                                                  *)

\* The level loop shared by set_relation_part_with_column_name/_idx over
\* the keys ks that match; later matches overwrite the column position.
PartLevelOf(ks) ==
    LET ones == {i \in ks : PartKeys[i].level = "ONE"}
        twos == {i \in ks : PartKeys[i].level = "TWO"}
    IN [level  |-> IF ones # {} /\ twos # {} THEN "BOTH"
                   ELSE IF twos # {} THEN "TWO"
                   ELSE IF ones # {} THEN "ONE" ELSE "ZERO",
        first  |-> IF ones = {} THEN 0 ELSE PartKeys[Max(ones)].pos,
        second |-> IF twos = {} THEN 0 ELSE PartKeys[Max(twos)].pos]

set_relation_part_with_column_name(name, rowid) ==
    IF rowid /\ name = RowIdName THEN [level |-> "ONE", first |-> 0, second |-> 0]
    ELSE PartLevelOf({i \in KeyIds : IsEqual(PartKeys[i].name, name)})

set_relation_part_with_column_idx(idx, kIdx, kExist) ==
    PartLevelOf({i \in KeyIds : idx = kIdx[i] /\ kExist[i]})

Relation(key, type, left, right, part) ==
    [key |-> key, type |-> type, left |-> left, right |-> right,
     level |-> part.level, first |-> part.first, second |-> part.second]

\* get_relation: the side whose column node is a partition key becomes the
\* left side, the operator mirrored when it was the right; NE gives NULL,
\* and so does a failed allocation (ok = FALSE).
get_relation(left, type, right, rowid, ok) ==
    LET ln == ColumnNode(left)
        rn == ColumnNode(right)
        useLeft  == ln # None /\ ln.key >= 0
        useRight == ~useLeft /\ rn # None /\ rn.key >= 0
        col == IF useLeft THEN ln ELSE rn
        t == IF useLeft THEN type ELSE get_reverse_func(type)
    IN IF ~(useLeft \/ useRight) \/ t = "NE" \/ ~ok THEN None
       ELSE Relation(col.key, t, IF useLeft THEN left ELSE right,
                     IF useLeft THEN right ELSE left,
                     set_relation_part_with_column_name(col.name, rowid))

\* add_relation: every column-vs-anything comparison, whether or not the
\* column is a partition key, into all_relation_info_ (level ZERO; the
\* column index and part positions stay uninitialised: None).
add_relation(all, left, type, right, ok) ==
    LET useLeft  == ColumnNode(left) # None
        useRight == ~useLeft /\ ColumnNode(right) # None
        t == IF useLeft THEN type ELSE get_reverse_func(type)
    IN IF Len(all) >= MaxRelationNum \/ ~(useLeft \/ useRight) \/ t = "NE" \/ ~ok
       THEN all
       ELSE Append(all, [key |-> None, type |-> t,
                         left |-> IF useLeft THEN left ELSE right,
                         right |-> IF useLeft THEN right ELSE left,
                         level |-> "ZERO", first |-> None, second |-> None])

\* check_and_add_relation: routable relations only, silently dropped once
\* OBPROXY_MAX_RELATION_NUM are held (the YYACCEPT there is commented out).
\* Variant without the OBPROXY_MAX_RELATION_NUM test (bound check).
check_and_add_relation_unbounded(rels, r) ==
    IF r = None \/ r.level = "ZERO" THEN rels ELSE Append(rels, r)

check_and_add_relation(rels, r) ==
    IF r = None \/ r.level = "ZERO" \/ Len(rels) >= MaxRelationNum THEN rels
    ELSE Append(rels, r)

(* INSERT helpers.                                                         *)

\* set_part_key_column_idx: every key of that name takes the ordinal.
\* Variant recording the ordinal after column_idx_++ (ordering check).
set_part_key_column_idx_late(name, kIdx, colIdx) ==
    [i \in KeyIds |-> IF IsEqual(name, PartKeys[i].name) THEN colIdx + 1 ELSE kIdx[i]]

set_part_key_column_idx(name, kIdx, colIdx) ==
    [i \in KeyIds |-> IF IsEqual(name, PartKeys[i].name) THEN colIdx ELSE kIdx[i]]

\* add_left_relation_value: a relation per listed column, right side NULL.
add_left_relation_value(all, left, ok) ==
    IF Len(all) >= MaxRelationNum \/ ~ok THEN all
    ELSE Append(all, [key |-> None, type |-> "EQ", left |-> left, right |-> None,
                      level |-> None, first |-> None, second |-> None])

\* get_values_relation: the first key present in the SQL whose ordinal is
\* the position of this VALUES item.
get_values_relation(right, vIdx, kIdx, kExist, ok) ==
    LET ks == {i \in KeyIds : vIdx = kIdx[i] /\ kExist[i]}
    IN IF ks = {} \/ ~ok THEN None
       ELSE Relation(Min(ks), "EQ", None, right,
                     set_relation_part_with_column_idx(vIdx, kIdx, kExist))

\* add_right_relation_value: the item becomes the right side of the
\* relation at right_value_num_; <<all, right_value_num_>> after it.
\* Variant that does not advance right_value_num_ (pairing check).
add_right_relation_value_no_advance(all, rvn, right) ==
    IF Len(all) >= MaxRelationNum \/ rvn >= Len(all) THEN <<all, rvn>>
    ELSE <<[all EXCEPT ![rvn + 1].type = "EQ", ![rvn + 1].right = right], rvn>>

add_right_relation_value(all, rvn, right) ==
    IF Len(all) >= MaxRelationNum \/ rvn >= Len(all) THEN <<all, rvn>>
    ELSE <<[all EXCEPT ![rvn + 1].type = "EQ", ![rvn + 1].right = right], rvn + 1>>

-----------------------------------------------------------------------------
(* Actions.                                                                *)

Init ==
    /\ state \in {IF m = "select" THEN "where" ELSE "insert" : m \in ParseModes}
    /\ relations = <<>>
    /\ allRelations = <<>>
    /\ rightValueNum = 0
    /\ keyIdx = [i \in KeyIds |-> PartKeys[i].schemaIdx]
    /\ keyExist = [i \in KeyIds |-> FALSE]
    /\ columnIdx = 0
    /\ valuesListIdx = 0
    /\ multiParamValues = 0
    /\ placeholderIdx = 0
    /\ hasRowid = FALSE
    /\ clause = <<>>
    /\ columns = <<>>
    /\ rows = <<>>

AllocResults == IF RelAllocMayFail THEN BOOLEAN ELSE {TRUE}

\* The token_lists of a written predicate in textual order.
Operands(p) ==
    CASE p.form = "cmp"     -> <<p.left, p.right>>
      [] p.form = "in"      -> <<p.left>> \o p.items
      [] p.form = "between" -> <<p.left, p.low, p.high>>
      [] p.form = "isnull"  -> <<p.left>>

QmTotal(ls) == FoldLeft(LAMBDA a, l : a + QmCount(l), 0, ls)

\* A bool_pri can start the WHERE chain, follow AND/OR in it, or start or
\* continue the SET list of an INSERT (rule 69, `,` separated).
CanReadPred == state \in {"where", "insert", "set"} /\ Len(clause) < MaxPreds
Conns == IF clause = <<>> THEN {"FIRST"} ELSE IF state = "set" THEN {","} ELSE Connectors

\* What every bool_pri step does besides the relations: the token
\* reductions advance the placeholder counter and may see ROW_ID.
ReadPred(p, conn) ==
    /\ placeholderIdx' = placeholderIdx + QmTotal(Operands(p))
    /\ hasRowid' = (hasRowid \/ HasRowIdIn(Operands(p)))
    /\ clause' = Append(clause, <<conn, p>>)
    /\ state' = IF state = "insert" THEN "set" ELSE state
    /\ UNCHANGED <<rightValueNum, keyIdx, keyExist, columnIdx, valuesListIdx,
                   multiParamValues, columns, rows>>

\* Rules 26-28 then 21-25/81-82: add_relation and get_relation (in either
\* order; they touch different lists), then check_and_add_relation.
ReduceComparison ==
    /\ CanReadPred
    /\ \E p \in CmpPreds, conn \in Conns, okAdd, okGet \in AllocResults :
         LET ts == TokenLists(Operands(p), placeholderIdx)
             rowid == hasRowid \/ HasRowIdIn(Operands(p))
         IN /\ allRelations' = add_relation(allRelations, ts[1], p.op, ts[2], okAdd)
            /\ relations' = check_and_add_relation(relations,
                                get_relation(ts[1], p.op, ts[2], rowid, okGet))
            /\ ReadPred(p, conn)

\* Rules 40-41 then 29: the items are merged by add_token_list into the
\* first item's list, which becomes the right side of one EQ relation.
ReduceIn ==
    /\ CanReadPred
    /\ \E p \in InPreds, conn \in Conns, okAdd, okGet \in AllocResults :
         LET ts == TokenLists(Operands(p), placeholderIdx)
             merged == FoldLeft(AddTokenList, ts[2], SubSeq(ts, 3, Len(ts)))
             rowid == hasRowid \/ HasRowIdIn(Operands(p))
         IN /\ relations' = check_and_add_relation(relations,
                                get_relation(ts[1], "EQ", merged, rowid, okGet))
            /\ allRelations' = add_relation(allRelations, ts[1], "EQ", merged, okAdd)
            /\ ReadPred(p, conn)

\* Rule 30: a GE and an LE relation, each checked and added in the action
\* itself; the enclosing cond_expr reduction then sees NULL.
ReduceBetween ==
    /\ CanReadPred
    /\ \E p \in BetweenPreds, conn \in Conns, g1, a1, g2, a2 \in AllocResults :
         LET ts == TokenLists(Operands(p), placeholderIdx)
             rowid == hasRowid \/ HasRowIdIn(Operands(p))
             rels1 == check_and_add_relation(relations,
                          get_relation(ts[1], "GE", ts[2], rowid, g1))
             all1 == add_relation(allRelations, ts[1], "GE", ts[2], a1)
         IN /\ relations' = check_and_add_relation(rels1,
                                get_relation(ts[1], "LE", ts[3], rowid, g2))
            /\ allRelations' = add_relation(all1, ts[1], "LE", ts[3], a2)
            /\ ReadPred(p, conn)

\* Rules 31-32: bool_pri is NULL; only the tokens are reduced.
ReduceIsNull ==
    /\ CanReadPred
    /\ \E p \in NullPreds, conn \in Conns :
         /\ UNCHANGED <<relations, allRelations>>
         /\ ReadPred(p, conn)

\* Rule 74: no column list; init_part_key_all_match marks every key as
\* present, so VALUES items pair with keys by their schema ordinal.
NoColumnList ==
    /\ state = "insert"
    /\ keyExist' = [i \in KeyIds |-> TRUE]
    /\ columns' = None
    /\ state' = "values"
    /\ UNCHANGED <<relations, allRelations, rightValueNum, keyIdx, columnIdx,
                   valuesListIdx, multiParamValues, placeholderIdx, hasRowid, clause, rows>>

\* Rule 78 then 76/77: a name of the column list.
ReduceColumn ==
    /\ state \in {"insert", "columns"}
    /\ Len(columns) < MaxColumns
    \* the server rejects a column named twice, so such lists are not inputs
    /\ \E name \in InsertColumns \ ToSet(columns), ok \in AllocResults :
         /\ keyIdx' = set_part_key_column_idx(name, keyIdx, columnIdx)
         /\ keyExist' = [i \in KeyIds |-> keyExist[i] \/ IsEqual(name, PartKeys[i].name)]
         /\ columnIdx' = columnIdx + 1
         /\ allRelations' = add_left_relation_value(allRelations,
                               <<[kind |-> "col", key |-> None, name |-> name]>>, ok)
         /\ columns' = Append(columns, name)
    /\ state' = "columns"
    /\ UNCHANGED <<relations, rightValueNum, valuesListIdx, multiParamValues,
                   placeholderIdx, hasRowid, clause, rows>>

\* Rules 79 (first item of a row) and 80 (a later item).  Only while
\* multi_param_values_ < 1, i.e. in the first row, is the item paired with
\* a key and with the column list.
ReduceValue ==
    /\ \/ state = "values" /\ Len(rows) < MaxRows
       \/ state = "columns" /\ rows = <<>>
       \/ state = "row" /\ Len(Last(rows)) < MaxRowLen
    /\ \E e \in ValueExprs, ok \in AllocResults :
         LET first == state # "row"
             tl == TokenList(e, placeholderIdx)
             vIdx == IF first THEN 0 ELSE valuesListIdx + 1
             ar == add_right_relation_value(allRelations,
                                            IF first THEN 0 ELSE rightValueNum, tl)
         IN /\ IF multiParamValues < 1
               THEN /\ valuesListIdx' = vIdx
                    /\ relations' = check_and_add_relation(relations,
                                        get_values_relation(tl, vIdx, keyIdx, keyExist, ok))
                    /\ allRelations' = ar[1]
                    /\ rightValueNum' = ar[2]
               ELSE UNCHANGED <<valuesListIdx, relations, allRelations, rightValueNum>>
            /\ placeholderIdx' = placeholderIdx + QmCount(e)
            /\ hasRowid' = (hasRowid \/ HasRowIdIn(<<e>>))
            /\ rows' = IF first THEN Append(rows, <<tl>>)
                       ELSE [rows EXCEPT ![Len(rows)] = Append(@, tl)]
    /\ state' = "row"
    /\ UNCHANGED <<keyIdx, keyExist, columnIdx, multiParamValues, clause, columns>>

\* Rules 72-73: the `)` closing a VALUES row.
EndRow ==
    /\ state = "row"
    /\ multiParamValues' = multiParamValues + 1
    /\ state' = "values"
    /\ UNCHANGED <<relations, allRelations, rightValueNum, keyIdx, keyExist, columnIdx,
                   valuesListIdx, placeholderIdx, hasRowid, clause, columns, rows>>

\* Rules 4-6 and 68-70: end_flag reached, YYACCEPT.
Accept ==
    /\ \/ state \in {"where", "set"} /\ clause # <<>>
       \/ state = "values" /\ rows # <<>>
    /\ state' = "accept"
    /\ UNCHANGED <<parserVars, clause, columns, rows>>

\* yyerror is a no-op and error recovery pops back to the start state,
\* where `select_root: error` (rule 7) is reduced and accepted: the result
\* keeps whatever was reduced before the error.
SyntaxError ==
    /\ state \notin {"accept", "abort"}
    /\ state' = "accept"
    /\ UNCHANGED <<parserVars, clause, columns, rows>>

\* malloc_node / malloc_list returning NULL: YYABORT.
AllocAbort ==
    /\ state \notin {"accept", "abort"}
    /\ state' = "abort"
    /\ UNCHANGED <<parserVars, clause, columns, rows>>

\* The parse has returned; the result no longer changes.
Terminated ==
    /\ state \in {"accept", "abort"}
    /\ UNCHANGED vars

Next ==
    \/ ReduceComparison \/ ReduceIn \/ ReduceBetween \/ ReduceIsNull
    \/ NoColumnList \/ ReduceColumn \/ ReduceValue \/ EndRow
    \/ Accept \/ SyntaxError \/ AllocAbort \/ Terminated

Spec == Init /\ [][Next]_vars

-----------------------------------------------------------------------------
(* Properties.                                                             *)

Token == [kind : {"col"}, key : {NoKey, None} \cup KeyIds, name : STRING \cup {RowIdName}]
         \cup [kind : {"int"}, val : Int] \cup [kind : {"ph"}, idx : Nat]
         \cup [kind : {"str", "op", "hex", "func"}]
RelationRec == [key : KeyIds \cup {None}, type : Comps \ {"NE"},
                left : Seq(Token) \cup {None}, right : Seq(Token) \cup {None},
                level : {"ZERO", "ONE", "TWO", "BOTH", None},
                first : Nat \cup {None}, second : Nat \cup {None}]

TypeOK ==
    /\ state \in {"where", "insert", "set", "columns", "values", "row", "accept", "abort"}
    /\ relations \in Seq(RelationRec) /\ Len(relations) <= MaxRelationNum
    /\ allRelations \in Seq(RelationRec) /\ Len(allRelations) <= MaxRelationNum
    /\ rightValueNum \in 0..Len(allRelations)
    /\ keyIdx \in [KeyIds -> Nat] /\ keyExist \in [KeyIds -> BOOLEAN]
    /\ {columnIdx, valuesListIdx, multiParamValues, placeholderIdx} \subseteq Nat
    /\ hasRowid \in BOOLEAN

(* The meaning of what was written.  A column of this table is one whose   *)
(* qualifiers name the statement's database and table or alias (spec 4.2). *)
(* An operand the model does not evaluate (another table's column, a       *)
(* string, an expression over them) makes its predicate an atom, taken    *)
(* TRUE: predicates occur only positively, so that is the case in which    *)
(* the most rows satisfy the WHERE clause.                                 *)
Unknown == None

IsTableKeyColumn(w) ==
    /\ w.kind = "col" /\ w.name \in KeyNames
    /\ w.db \in {None, DbName} /\ w.tbl \in {None, TableName, AliasName}

WValue(w, ph, v) ==
    CASE w.kind = "int" -> w.val
      [] w.kind = "qm" -> v.ph[ph]
      [] IsTableKeyColumn(w) -> v.col[w.name]
      [] OTHER -> Unknown

\* A token_list is a single operand or `a + b`.
WListValue(l, ph, v) ==
    IF Len(l) = 1 THEN WValue(l[1], ph, v)
    ELSE LET a == WValue(l[1], ph, v)
             b == WValue(l[3], ph + QmCount(<<l[1]>>), v)
         IN IF Len(l) = 3 /\ l[2].kind = "op" /\ a # Unknown /\ b # Unknown
            THEN a + b ELSE Unknown

Compare(op, a, b) ==
    CASE op \in {"EQ", "NSEQ"} -> a = b [] op = "NE" -> a # b
      [] op = "GE" -> a >= b [] op = "GT" -> a > b
      [] op = "LE" -> a <= b [] op = "LT" -> a < b

PredHolds(p, ph, v) ==
    LET ls == Operands(p)
        x(j) == WListValue(ls[j], ph + QmTotal(SubSeq(ls, 1, j - 1)), v)
    IN \/ \E j \in 1..Len(ls) : x(j) = Unknown
       \/ CASE p.form = "cmp"     -> Compare(p.op, x(1), x(2))
            [] p.form = "in"      -> \E j \in 2..Len(ls) : x(1) = x(j)
            [] p.form = "between" -> x(2) <= x(1) /\ x(1) <= x(3)
            [] p.form = "isnull"  -> p.neg

\* Placeholders written before the j-th predicate of the chain.
ClausePh(j) == FoldLeft(LAMBDA a, e : a + QmTotal(Operands(e[2])), 0, SubSeq(clause, 1, j - 1))

\* SQL precedence: AND (and the `,` of SET) bind tighter than OR, so the
\* chain holds when all predicates of one OR-separated group hold.
WhereHolds(v) ==
    \E s, e \in 1..Len(clause) :
        /\ s <= e
        /\ s = 1 \/ clause[s][1] = "OR"
        /\ e = Len(clause) \/ clause[e + 1][1] = "OR"
        /\ \A j \in (s + 1)..e : clause[j][1] # "OR"
        /\ \A j \in s..e : PredHolds(clause[j][2], ClausePh(j), v)

Valuations == [col : [KeyNames -> Vals], ph : [0..(ClausePh(Len(clause) + 1) - 1) -> Vals]]

(* How the decision engine reads the relation list (spec 4.4): per key     *)
(* column, the EQ relations are alternatives (one candidate per value,     *)
(* unioned), the range relations all bound it.  A right side that is not a *)
(* list of values constrains nothing; a placeholder the statement does not *)
(* have constrains to nothing.  ROW_ID relations are decoded separately.   *)
TokValue(t, v) ==
    CASE t.kind = "int" -> t.val
      [] t.kind = "ph" -> v.ph[t.idx]
      [] OTHER -> Unknown

RelHolds(r, v) ==
    LET vs == {TokValue(r.right[i], v) : i \in 1..Len(r.right)}
        x == v.col[PartKeys[r.key].name]
    IN /\ \A i \in 1..Len(r.right) : r.right[i].kind = "ph" => r.right[i].idx \in DOMAIN v.ph
       /\ \/ Unknown \in vs
          \/ r.type \in {"EQ", "NSEQ"} /\ x \in vs
          \/ \E y \in vs : vs = {y} /\ Compare(r.type, x, y)

IsRowIdRelation(r) == ColumnNode(r.left) # None /\ ColumnNode(r.left).name = RowIdName

ColumnAdmits(n, v) ==
    LET rs == {r \in ToSet(relations) : ~IsRowIdRelation(r) /\ PartKeys[r.key].name = n}
        eqs == {r \in rs : r.type \in {"EQ", "NSEQ"}}
    IN /\ eqs = {} \/ \E r \in eqs : RelHolds(r, v)
       /\ \A r \in rs \ eqs : RelHolds(r, v)

(* Routing by the WHERE / SET relations never loses a row: every valuation *)
(* of the key columns and placeholders that satisfies the written chain is *)
(* admitted by the relations get_relation normalised (operand swap,       *)
(* get_reverse_func), BETWEEN split, IN merged and check_and_add_relation *)
(* kept or dropped at OBPROXY_MAX_RELATION_NUM.                           *)
RelationsImpliedByWhere ==
    columns = <<>> /\ rows = <<>> =>
        \A v \in Valuations :
            WhereHolds(v) => \A n \in KeyNames : ColumnAdmits(n, v)

\* The 0-based position of key k's value in a VALUES row.
ColumnPos(k) ==
    IF columns = None THEN PartKeys[k].schemaIdx
    ELSE LET ps == {i \in 1..Len(columns) : columns[i] = PartKeys[k].name}
         IN IF ps = {} THEN None ELSE Max(ps) - 1

(* An INSERT is routed by the values it inserts: every relation built     *)
(* from a VALUES item (get_values_relation, values_list_idx_, the idx_     *)
(* recorded by set_part_key_column_idx) is on a key whose column is at    *)
(* that item's position of the first row.                                 *)
InsertRelationsMatchFirstRow ==
    \A i \in 1..Len(relations) :
        relations[i].left = None =>
            LET p == ColumnPos(relations[i].key)
            IN /\ p # None /\ rows # <<>> /\ p < Len(rows[1])
               /\ relations[i].right = rows[1][p + 1]

(* Once the first VALUES row is closed, the column relations of           *)
(* all_relation_info_ carry the values of that row in order: the i-th     *)
(* listed column's relation has the i-th value (add_left_relation_value,  *)
(* add_right_relation_value, right_value_num_), for as many as both have.  *)
AllRelationsPairColumnsWithValues ==
    columns \notin {None, <<>>} /\ multiParamValues >= 1 =>
        /\ rightValueNum = Min({Len(allRelations), Len(rows[1])})
        /\ \A i \in 1..rightValueNum :
               /\ allRelations[i].left = <<[kind |-> "col", key |-> None, name |-> columns[i]]>>
               /\ allRelations[i].right = rows[1][i]

====
