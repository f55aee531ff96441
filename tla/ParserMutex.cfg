SPECIFICATION Spec
CONSTANTS
  Pins = {"p1", "p2"}
  ConsoleLines = 2
  Lines <- MCLines
  MaxLines = 1
INVARIANT
  ParserProtected
