SPECIFICATION Spec
CONSTANTS
  Kinds = {"dbgeng", "lldb", "gdbremote", "frida"}
  Word = 256
  Anchor = 116
  SetValues = {58, 255}
  BpAddrs = {8, 9}
  MaxBps = 2
  MaxWps = 1
  Count = 6
  None = None
INVARIANTS
  ListingScrolls
  NamesAreLasting
