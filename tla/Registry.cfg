SPECIFICATION Spec
CONSTANTS
    Emails = {e1, e2}
    EnvEmails = {e1}
    Requests = {r1, r2}
    ApiKeys = {"none", "k1"}
    MaxEntries = 2
    MaxTasks = 1
    MaxCooldown = 1
    SurvivingProfiles = TRUE
    TornWrites = TRUE
    SlashedCookies = FALSE
SYMMETRY MCSymmetry
CONSTRAINT SmallScope
INVARIANTS FileKnows
PROPERTIES OnlyReloadsDuplicate SlotsAccounted StaysOff AccountsKept
