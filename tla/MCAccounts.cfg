\* Any operations at the same time, with failures.
SPECIFICATION Spec
CONSTANTS
    r1 = r1
    r2 = r2
    Active <- MCActive
    NoUser = NoUser
    Requests <- MCRequests
    Users <- MCUsers
    Members <- MCMembers
    Admins <- MCAdmins
    BulkLists <- MCBulkLists
    MaxLinks = 2
    MaxChanges = 1
    MaxRequests = 4
    MaxFaults = 1
SYMMETRY Symmetry
CHECK_DEADLOCK FALSE
INVARIANTS
    AccountsInv
    NewestLinkOnly
    VerifiedMeansConfirmed
    GoneMeansOut
    BulkReports
    ResetOnce
