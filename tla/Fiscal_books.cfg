\* A salon's invoices, their records and the queue to the AEAT.
SPECIFICATION FairSpec
CONSTANTS
    i1 = i1
    i2 = i2
    r1 = r1
    c1 = c1
    c2 = c2
    Invoices = {i1, i2, r1}
    Rectifies <- WithRectification
    SeriesOf <- TwoSeries
    SourceOf <- SameVisit
    NoInvoice = NoInvoice
    Calls = {c1, c2}
    Kinds <- TwoDesks
    Senders = {"backend"}
    MaxRecords = 3
    MaxPerSubmission = 2
    NoCall = NoCall
CHECK_DEADLOCK FALSE
INVARIANTS TypeOK ChainIsALine LocalMatchesAeat RecordsTellTheTruth CancelledIsAnnulled
PROPERTIES BookKept QueueDrains
