CONSTANTS
  compose = compose
  t1 = t1
  Engines = {compose}
  EngineOrder <- ComposeFirst
  Default = default
  OtherNames = {n}
  NameOf <- OneName
  n = n
  Harnesses = {h1}
  Needs <- NeedsOne
  Tools = {t1, t2}
  None = None
  MaxGen = 2
  MaxKeys = 2
  Labels = {"", "anthropic", "openai"}
  KeyVars = {"BAE_KEY", "GITHUB_TOKEN"}
  Ports = {"8080", "9090", "3000"}
  BuiltNames = {"x"}
  MaxSuffix = 2
  EnvVars = {"KEY", "BAE_CLIENT_KEY"}
  Secrets = {"s", "t"}
SPECIFICATION Spec
CONSTRAINT KeylessRewrites
INVARIANTS SavedIsWhole SecondRunChangesNothing HandedKeyWorks
PROPERTIES WideningKeepsOthers
CHECK_DEADLOCK FALSE
