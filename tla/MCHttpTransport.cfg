SPECIFICATION Spec
CONSTANTS
  Threads = {t1, t2}
  Types = {"http", "HTTPS"}
  Requests <- MCRequests
  Defaults <- MCDefaults
  Configs <- MCConfigs
  MaxCalls = 3
  Numeral <- MCNumeral
  LowerCase <- MCLowerCase
INVARIANTS
  RequestFaithful
  SettledTls
PROPERTIES
  DisconnectIsFinal
CHECK_DEADLOCK FALSE
