SPECIFICATION FairSpec
CONSTANTS
    g1 = g1
    Logs = {g1}
    Public = {g1}
    Cost = 2
    Credits = 3
INVARIANTS
    CreditsConserved
    VisibleFilesExist
PROPERTIES
    SuccessIsKept
    KnownFilesAreWithdrawn
    WithdrawalEnds
