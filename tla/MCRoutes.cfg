SPECIFICATION RoutesSpec
CONSTANTS
    None = None
    Error = Error
    Function = Function
    Slots <- MCSlots
    Dropped <- MCDropped
    Thrown <- MCThrown
    MaxDifferences = 2
    Empty = Empty
    Names <- MCNames
    Control = {"grpc.h"}
    Upper <- MCUpper
    Digits = {"1"}
    Punctuation = {"_"}
    Loopbacks = {"127.0.0.1", "::1"}
    Anywhere = {"0.0.0.0"}
    NL = NL
    Blank = Blank
    Char = Char
    Label = Label
    Role = Role
    Comma = Comma
    MaxServiceLine = 4
    Keys <- MCKeys
    NodeIDs = {"a", "b", "c"}
    Requests <- MCRequests
    Unnamed = Unnamed
    Wildcard = Wildcard
    MaxRoutes = 2
INVARIANTS
    HostlessMatches
