SPECIFICATION ConfigurationSpec
CONSTANTS
  Environment <- MCEnvironment
  Arguments <- MCArguments
  Secret <- MCSecret
  Statements = 3
  MaxStarts = 3
  MaxFaults = 3
  Text = {"", "a"}
  MaxProfiles = 3
  MaxEdits = 3
CHECK_DEADLOCK FALSE
INVARIANTS ConfigSurvives SchemaComplete SentAsGiven
PROPERTIES PlainStart UntouchedKept
