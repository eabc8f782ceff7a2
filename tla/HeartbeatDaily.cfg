\* Two hours a day, the heartbeat in the last one; the CLI tests the channels.
SPECIFICATION FairSpec
CONSTANTS
    Callers = {monitor, cli}
    Monitor = monitor
    Testers = {cli}
    Enabled = {"telegram", "email", "webhook"}
    Configured = {"telegram", "email"}
    MinSeverity = "WARNING"
    HoursPerDay = 2
    HeartbeatHour = 1
INVARIANTS
    TypeOK
    OncePerDay
    DoneWasTold
    ChannelsIndependent
    ResultsHonest
PROPERTY
    SummaryEveryDay
