CONSTANTS
    Nodes <- Nodes_
    NameOf <- NameOf_
    Hash <- Hash_
    Junk <- Junk_
    NULL = NULL
SPECIFICATION FairSpec
INVARIANTS TypeOK TablesAgree NeverPanics
PROPERTIES ImplementsLaiChildren WalksEnd
