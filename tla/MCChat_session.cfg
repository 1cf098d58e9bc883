SPECIFICATION OneSessionSpec
CONSTANTS
  Clients = {c1, c2}
  Users = {1, 2}
  Fds = {3, 4}
  NoUser = NoUser
  Delimiter = Bar
  Lines <- AllLines
  InfoOutcomes = {"sent", "throws"}
  MaxReqs = 3
INVARIANTS TypeOK RegistryExact SplitsAtDelimiters
PROPERTIES GroupReaches SingleReaches
CHECK_DEADLOCK FALSE
