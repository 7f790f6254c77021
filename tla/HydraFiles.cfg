SPECIFICATION Spec
CONSTANTS
    HostTexts <- MCHosts
    ServiceTexts <- MCServices
    KnownServices = {"ssh", "ftp"}
    OptTexts = {"", "opt"}
    LoginTexts <- MCLogins
    Files <- MCFiles
    Schedules <- MCSchedules
    Dates <- MCDates
    BlockPorts = {""}
    DaysOfWeek = {"SU", "MO", "TU", "WE", "TH", "FR", "SA"}
INVARIANTS
    Accepted
    CommandsRight
    FilesRight
    WholeDaysFire
CHECK_DEADLOCK FALSE
