SPECIFICATION Spec
CONSTANTS
    Emails = {e1, e2}
    EnvEmails = {e1}
    Requests = {r1}
    ApiKeys = {"none"}
    MaxEntries = 2
    MaxTasks = 1
    MaxCooldown = 1
    SurvivingProfiles = FALSE
    TornWrites = FALSE
    SlashedCookies = FALSE
PROPERTIES RestartKeepsCooldowns
