SPECIFICATION ExchangeSpec
CONSTANTS
  MaxRetries = 2
  Names = {"authorization", "cookie", "agent", "trace"}
  Sensitive = {"authorization", "cookie"}
  ClientNames = {"authorization", "agent"}
  TransportNames = {"cookie", "agent", "trace"}
  OwnNames = {"authorization", "agent"}
  MaxLimit = 3
  DefaultRedirects = 3
  MaxHops = 4
INVARIANTS RequestsBounded CopiedHeadersFollow ValuesAddUp
CHECK_DEADLOCK FALSE
