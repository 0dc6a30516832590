\* The data of a write the device has refused.
CONSTANTS
  configsCount = 1
  interfaceCount = 1
  interfaceDescriptorCount = 1
  endpointDescriptorCount = 1
  stringCount = 1
  epBufferSize = 8
  ConfigLength <- MCConfigLength
  StringLength <- MCStringLength
  Requests <- Writes
  Abandonable = {}
  ClassAnswers <- ADriver
  Payloads <- AnyData
  PromptIRQ = TRUE
SPECIFICATION Spec
\* The application may leave the device detached for good.
CHECK_DEADLOCK FALSE
PROPERTIES
  OnlySetupsAreRequests
