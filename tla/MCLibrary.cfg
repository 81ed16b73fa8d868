SPECIFICATION MCSpec
CONSTANTS
  NoText = "none"
  Literal4 = {"0.0.0.0", "127.0.0.1", "192.0.2.1", "192.0.2.2", "192.0.2.4", "192.0.2.9"}
  Literal6 = {"0::0", "0::1", "db8::1", "db8::2", "db8::9"}
  Paths = {"/local", "/tmp/s", "/tmp/long"}
  LongPaths = {"/tmp/long"}
  Dns <- MCDns
  Services <- MCServices
  Numbers <- MCNumbers
  Calls <- MCCalls
  Groups = {0, 1, 65535}
  Parts <- MCParts
  Width = 6
  Seeds <- MCSeeds
INVARIANTS ListedOnce OneSocketLeft TextsKept
PROPERTIES NoSessionTwice
CHECK_DEADLOCK FALSE
