SPECIFICATION FairSpec
CONSTANTS
    c1 = c1
    c2 = c2
    std = std
    h24 = h24
    NoCode = NoCode
    NoSetting = NoSetting
    LastMinute = 3
    Week = 2
    Dates = {0, 1}
    Customers = {c1, c2}
    Codes = {std, h24}
    Kinds = {"legacy", "csv_file", "json_url"}
    Policies = {"delete"}
    Registers <- MCRegisters
    Settings <- MCSettings
    OwnHolidays = {1}
    BuiltIn <- MCBuiltIn
    Schedules <- MCSchedules
    MaxProfiles = 3
    MaxEdits = 1
    MaxFaults = 1
INVARIANTS FieldsExact
PROPERTIES OutageKeepsSnapshot RegisterApplies
CHECK_DEADLOCK FALSE
