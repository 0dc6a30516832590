\* A device that is configured, used and unconfigured again.
CONSTANTS
  configsCount = 1
  interfaceCount = 1
  interfaceDescriptorCount = 1
  endpointDescriptorCount = 1
  stringCount = 1
  epBufferSize = 8
  ConfigLength <- MCConfigLength
  StringLength <- MCStringLength
  Requests <- Switching
  Abandonable = {}
  ClassAnswers <- ADriver
  Payloads <- AnyData
  PromptIRQ = TRUE
  RudeCuts = FALSE
SPECIFICATION Spec
\* The application may leave the device detached for good.
CHECK_DEADLOCK FALSE
INVARIANTS
  DispatchedToHandlers
