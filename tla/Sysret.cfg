SPECIFICATION Spec
CONSTANTS
  Bsp = "bsp"
  Users = {"u", "v"}
  Boot = "boot"
  Handler = "handler"
  None = None
  Script <- MCScript
  Calls <- MCCalls
  Faults = {14}
  PanicMessages <- MCPanic
  UnhandledMessages <- MCUnhandled
  Newline = "nl"
  Tab = "tab"
  Digit <- MCDigit
  Minus = "-"
  Beyonds <- MCBeyonds
  Width = 8
  Height = 6
  Letter = 2
  BufBytes = 8
INVARIANT UserRunsInUserCode
CHECK_DEADLOCK FALSE
