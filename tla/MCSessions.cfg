\* Two requests at a time, from the tabs of one browser or of two.
SPECIFICATION Spec
CONSTANTS
    r1 = r1
    r2 = r2
    b1 = b1
    b2 = b2
    NoBrowser = NoBrowser
    Requests <- MCRequests
    Browsers <- MCBrowsers
    MaxTokens = 3
    MaxRequests = 4
    MaxFaults = 2
SYMMETRY Symmetry
CHECK_DEADLOCK FALSE
INVARIANTS
    SessionsInv
    RestingBrowserIsLoggedIn
PROPERTIES
    TabsDoNotWipe
    EveryoneIsOut
    LogoutEndsSession
    ImplementsBook
