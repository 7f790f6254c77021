SPECIFICATION Spec
CONSTANTS
    HostTexts <- MCHosts
    ServiceTexts <- MCServices
    KnownServices = {"ssh", "ftp"}
    OptTexts = {"", "opt"}
    LoginTexts <- MCLogins
    Files <- MCFiles
    Schedules <- MCSchedules
    Dates <- MCDates
    BlockPorts = {"", "22"}
    DaysOfWeek = {"SU", "MO", "TU", "WE", "TH", "FR", "SA"}
INVARIANTS
    CommandsRight
CHECK_DEADLOCK FALSE
