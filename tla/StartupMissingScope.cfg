SPECIFICATION Spec
CONSTANTS
    CommandLines <- ScopeLast
    Registrations <- NoServices
    Classes <- ClassTable
    Files <- FileTable
    None = None
INVARIANT MissingScopeRefused
CHECK_DEADLOCK FALSE
