SPECIFICATION Spec
CONSTANTS
    RawSchemas <- AllSchemas
    None = None
INVARIANTS DispatchUnambiguous RequestsPlaced PacketsFitByte StreamedRepliesFollowUploads
            ProbeKills
CHECK_DEADLOCK FALSE
