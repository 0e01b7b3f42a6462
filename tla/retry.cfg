SPECIFICATION Spec
CONSTANTS
    b = b
    c = c
    g = g
    Path <- MCPath
    Content = {b, c, g}
    Absent = absent
    Illegal = {"quoted"}
    Drive = {}
    Blank = {}
    Broken <- MCBroken
    Chomped <- MCChomped
    Partial <- MCPartial
    QuotedNames <- MCQuotedNames
    HookNames = {"conftest.py"}
    ProtectedPaths <- MCProtected
    GraderPaths <- MCGrader
    AllowedSourcePaths <- MCAllowed
    Bases <- MCBases
    Bundles <- MCBundles
    Submissions <- MCSubmissions
INVARIANTS
    TypeOK
    GraderIsBuyers
    ProviderConfined
    NoSilentFixup
    RetryKeepsTheWork
