SPECIFICATION FairSpec
CONSTANTS
    Issuers = {d1}
    Crediters = {e1}
    Amount = 2
    Refundable = {1, 2}
    MaxInvoices = 3
    MaxCredits = 3
    MaxRefunds = 2
    MaxFaults = 1
    MaxOperator = 1
INVARIANTS  PaidOnce BooksBalance 
PROPERTIES IssuedStays Decided
CHECK_DEADLOCK FALSE
