\* SELECT and INSERT fragments with conjunctive chains: relation extraction
\* and the pairing of INSERT columns with VALUES.
CONSTANTS
    PartKeys <- MCPartKeys
    DbName = "db"
    TableName = "t"
    AliasName = "a"
    RowIdName = "rowid"
    None = None
    ParseModes = {"select", "insert"}
    Connectors = {"AND"}
    CmpPreds <- MCCmpPreds
    InPreds <- MCInPreds
    BetweenPreds <- MCBetweenPreds
    NullPreds <- MCNullPreds
    InsertColumns = {"id", "sub", "c"}
    ValueExprs <- MCValueExprs
    MaxPreds = 2
    MaxColumns = 2
    MaxRows = 2
    MaxRowLen = 2
    MaxRelationNum = 3
    RelAllocMayFail = FALSE
    Vals = {0, 1, 2}
INIT Init
NEXT Next
INVARIANTS
    TypeOK
    RelationsImpliedByWhere
    InsertRelationsMatchFirstRow
    AllRelationsPairColumnsWithValues
