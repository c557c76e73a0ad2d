SPECIFICATION Spec
CONSTANTS
  Fns = {"delay"}
  MaxCount = 200
  Strings <- SomeStrings
  Sizes <- SomeSizes
  Ports = {0, 1, 65535, 65536}
  Tails <- SomeTails
  Flips = {1, 127}
  Statuses = {0, 1, 127, 255}
  Names <- SomeNames
  EnvValues <- SomeValues
  HostLines <- SomeHostLines
  Terms <- SomeTerms
  MaxChild = 2
  Words = {"", "logfmt", "json", "xml"}
  Limits <- SomeLimits
  MaxRaw = 0
  MaxText = 0
INVARIANT
  DelayAsDocumented
CHECK_DEADLOCK FALSE
