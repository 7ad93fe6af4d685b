\* Every ObList call on a list of up to three nodes, with allocation and
\* item decoding failures, and one caller iterator.
CONSTANTS
    Nodes = {n1, n2, n3}
    Root = Root
    Null = Null
    None = None
    Values = {"a", "b"}
    Containers <- MCContainers
    AllocMayFail = TRUE
    ItemMayFail = TRUE
INIT Init
NEXT Next
INVARIANTS
    TypeOK
    ListWellLinked
PROPERTIES
    ObListImplementsSpec
