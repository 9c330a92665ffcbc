SPECIFICATION FairSpec
CONSTANTS
    CommandLines <- AllLines
    Registrations <- Services
    Classes <- ClassTable
    Files <- FileTable
    None = None
INVARIANT OutcomeAsDocumented RefusedUnbound
PROPERTY EveryStartResolved
CHECK_DEADLOCK FALSE
