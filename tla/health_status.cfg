SPECIFICATION FairStatusSpec
CONSTANTS
    web = web
    mail = mail
    r1 = r1
    Nil = Nil
    Names <- MCNames
    Readers <- MCReaders
    MaxEdits = 2
INVARIANTS
    LookupsLinearizable
PROPERTIES
    ErrorsPreserve
    StatusFollows
