SPECIFICATION Spec
CONSTANTS
    Illegal = {}
    Drive <- MCDrive
    Blank = {}
    Broken = {}
    Chomped <- MCChomped
    Partial <- MCPartial
    NoAnswer = noanswer
    NoDraft = nodraft
    PrefixesOf <- MCPrefixesOf
    Policies <- MCPolicies
    Drafts <- MCDrafts
    DirectTerms <- MCDirectTerms
    Name <- MCName
    Opinions <- MCOpinions
    Plans <- MCPlans
    Commit <- MCCommit
    MaxContracts = 2
    MaxAttempts = 2
    NoTerms = noterms
    NoPolicy = nopolicy
    NoAdvice = noadvice
    NoReceipt = noreceipt
    NoAttempt = noattempt
INVARIANTS
    TypeOK
    PolicyIsKept
    AdviceHolds
