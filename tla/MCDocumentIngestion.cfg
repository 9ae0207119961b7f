SPECIFICATION MCSpec
CONSTANTS
    Texts = {"short", "long"}
    ChunksOf <- MCChunksOf
    MaxChunks = 2
    Runner = pool
    Editors = {e}
    Importers = {i}
    NoDoc = NoDoc
    MaxVersion = 2
    MaxFaults = 1
    MaxSize = 6
    Overlap = 2
    Paragraphs <- MCParagraphs
    MaxLength = 3
INVARIANTS CompletedIsThere SerialWholeOrNothing SerialServedIsCurrent 
CHECK_DEADLOCK FALSE
