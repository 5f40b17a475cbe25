\* One part at a time: three chunks of three bytes; nine bits in bytes of three;
\* a server that is started twice, on up to two sockets; every string for a Uri.
SPECIFICATION LibrarySpec
CONSTANTS
  a = a
  b = b
  Byte = {a, b}
  Junk = junk
  Base = 3
  MaxChunks = 3
  Payloads <- SomePayloads
  Lengths = {0, 1, 7}
  Group = 2
  FixedBytes = 3
  Texts <- SomeTexts
  Marks <- SomeMarks
  MaxValues = 2
  Socks = {s1, s2}
  AcceptThreads = {1, 2}
  MaxStarts = 2
  MaxStops = 2
  MaxWaiting = 1
CHECK_DEADLOCK FALSE
INVARIANTS
  PointerAtPosition
  ReadsBackWhatWasWritten
  TakesWholeParts
PROPERTIES
  ImplementsStream
  StopEndsAccept
