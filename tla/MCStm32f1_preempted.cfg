\* Two configurations, data that reads as requests, requests given up at will, events at any time.
CONSTANTS
  configsCount = 2
  interfaceCount = 1
  interfaceDescriptorCount = 1
  endpointDescriptorCount = 1
  stringCount = 1
  epBufferSize = 8
  ConfigLength <- MCConfigLength
  StringLength <- MCStringLength
  Requests <- Switching
  Abandonable <- Switching
  ClassAnswers <- ADriver
  Payloads <- BadData
  PromptIRQ = FALSE
SPECIFICATION Spec
\* The application may leave the device detached for good.
CHECK_DEADLOCK FALSE
INVARIANTS
  EndpointsHaveHandlers
