\* Everyday requests, some given up part way, with resets, suspends and detaches.
CONSTANTS
  configsCount = 1
  interfaceCount = 1
  interfaceDescriptorCount = 1
  endpointDescriptorCount = 1
  stringCount = 1
  epBufferSize = 8
  ConfigLength <- MCConfigLength
  StringLength <- MCStringLength
  Requests <- SameMode
  Abandonable <- NoTable
  ClassAnswers <- ADriver
  Payloads <- BlankData
  PromptIRQ = TRUE
SPECIFICATION Spec
\* The application may leave the device detached for good.
CHECK_DEADLOCK FALSE
INVARIANTS
  TypeOK
  AddressAgreement
  ConfigAgreement
  NextBytesAreTheAnswer
  NoDeadTransfer
  ReceivedSoFar
PROPERTIES
  AddressAfterStatus
  ImplementsControlTransfer
