\* Responses of at most three headers, after a redirect or not.
SPECIFICATION Spec
CONSTANTS
  Headers <- SomeHeaders
  Reasons <- SomeReasons
  Errors <- SomeErrors
  BufferLen = 3
  MaxBody = 3
  MaxHeaders = 3
  MaxResponses = 2
CHECK_DEADLOCK FALSE
INVARIANTS
  TypeOK
  CurlKeepsTheLastResponse
  WinReadsTheHead
  WinReadsTheBody
