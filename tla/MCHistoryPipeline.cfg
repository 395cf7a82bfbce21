SPECIFICATION MCSpec
CONSTANTS
    None = None
    Torn = Torn
    a = a
    b = b
    Most <- MCMost
    Stations <- MCStations
    Years <- MCYears
    HoursOf <- MCHoursOf
    Blank <- MCBlank
    Policies <- MCPolicies
    InputLags <- MCLags
    TargetLeads <- MCLeads
    MaxScripts = 4
    MaxKills = 1
SYMMETRY Symmetry
CHECK_DEADLOCK FALSE
INVARIANTS
    PipelineTypeOK
    EventsAreTheAudits
    ManifestTellsCsv
    UpperNotOlder
PROPERTIES
    TrainedByPolicy
