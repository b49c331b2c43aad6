SPECIFICATION StateSpec
CONSTANTS
  InitCalls = {"i1", "i2"}
  SubscribeCalls = {"g1"}
  SendCalls = {1, 2}
  Payloads = {"p", "u"}
  Unserialisable = {"u"}
  WithDest = {"p"}
  Destinations <- ThreeDestinations
  NoStore = NoStore
  Roots = {"/etc", "/alt"}
  SystemRoot = "/etc"
  Importers = {"m", "n"}
  Editions = {"e1", "e2"}
  Gives <- TwoEditions
  EnvVars = {"tmp_dir"}
  MaxLoads = 3
  MaxEdits = 2
  Lookups = {1, 2}
  Singles = {"gz", "mp4"}
  Doubles = {"tar.gz", "x.mp4"}
  LastOf <- LastParts
  Rows <- FilecapRows
  Languages = {"en", "fr", "km"}
  Filed = {"en", "fr"}
  DefaultLanguage = "en"
  Keys = {"_a", "_b"}
  TextsOf <- TwoFiles
  InitialHeap <- NestedHeap
  RuntimeDirSet = FALSE
  MaxSets = 3
  Clients = {"c1", "c2"}
  Arguments <- ArgumentLists
  Answers <- DriverAnswers
  MaxBits = 4
  LineWidth = 3
  MaxKeyLength = 7
  Formats <- FormatInputs
CHECK_DEADLOCK FALSE
INVARIANTS
  ProcessTypeOK
  LinksAreReady SendsAreTrue
  SettingsAgree FilesKeptApart TextsKeptApart
  ModelsShowTheirOwn AnswersKept HelpersAsMeant
PROPERTY
  OnlySecretsStripped
