SPECIFICATION MCSpec
CONSTANTS
    Turns = {t1, t2}
    Contents = {"hello", "edited"}
    Calls = {c1, c2}
    OpenThreads = {home}
    NoThread = NoThread
    NoCall = NoCall
    NoReceipt = NoReceipt
    NoRequest = NoRequest
    NoTurn = NoTurn
    NoText = NoText
    MaxFaults = 1
INVARIANTS SentIsExecuted AtMostOnceExecution CanonicalAnswer CompletedTurnIsWhole
PROPERTIES ReceiptSettles ImplementsTurnOnce
CHECK_DEADLOCK FALSE
