\* Everyday requests; the next one may overtake the service of the last.
CONSTANTS
  configsCount = 1
  interfaceCount = 1
  interfaceDescriptorCount = 1
  endpointDescriptorCount = 1
  stringCount = 1
  epBufferSize = 8
  ConfigLength <- MCConfigLength
  StringLength <- MCStringLength
  Requests <- Everyday
  Abandonable <- Brief
  ClassAnswers <- ADriver
  Payloads <- BlankData
  PromptIRQ = TRUE
  RudeCuts = FALSE
  LateAck = FALSE
SPECIFICATION Spec
\* The application may leave the device detached for good.
CHECK_DEADLOCK FALSE
INVARIANTS
  TypeOK
  AddressAgreement
  ConfigAgreement
  NoDeadTransfer
  DetachedIsSilent
PROPERTIES
  AddressAfterStatus
  ImplementsControlTransfer
