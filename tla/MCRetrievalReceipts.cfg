SPECIFICATION Spec
CONSTANTS
    c1 = c1
    c2 = c2
    signature = signature
    body = body
    t1 = t1
    t2 = t2
    Clients = {c1, c2}
    Places = {signature, body}
    Texts = {t1, t2}
    Overlap <- EveryPair
    Times = {0, 1}
    Ttl = 1
    MaxReceipts = 2
    MaxPerReceipt = 2
    MaxTotal = 2
    MaxRows = 3
    MaxEvents = 4
SYMMETRY Symmetry
CHECK_DEADLOCK FALSE
INVARIANTS
    QuotasKept
PROPERTIES
    WithheldWasShown
    SourceKept
    UnknownForGood
    CarriedIsCurrent
