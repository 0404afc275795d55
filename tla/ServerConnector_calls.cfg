SPECIFICATION FairSpec
CONSTANTS
    Calls = {c1, c2}
    Timeout = Timeout
    BareOK = BareOK
    None = None
CHECK_DEADLOCK FALSE
PROPERTIES
    CallsReturnUnlessOverlapped
INVARIANTS
    TypeOK
    OwnReplyUnlessOverlapped
    RepliesWereHandled
