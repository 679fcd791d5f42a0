\* Full and incremental passes over responses that change between them.
SPECIFICATION Spec
CONSTANTS
    Anime <- MCAnime
    Tags = {"t"}
    Studios = {"s"}
    Names = {"x", "y"}
    Items = {"e1", "r1"}
    ResourceOf <- MCResourceOf
    KeptWhenNull = {"e1"}
    Texts = {"v"}
    Rows <- MCRows
    DetailsDocs <- MCDetailsDocs
    ItemDocs <- MCItemDocs
    None = None
    Null = Null
    Place <- MCPlace
    BatchSize = 2
    MaxStores = 4
    MaxFaults = 1
INVARIANTS
    CatalogueInv
    RowsAreMirrored
    NamesAgree
PROPERTIES
    FullPassRepairs
    ImplementsMirror
