CONSTANTS
  sender = sender
  factory = factory
  paymaster = paymaster
  entryPoint = entryPoint
  senderCreator = senderCreator
  token = token
  library = library
  nobody = nobody
  identity = identity
  Sender = sender
  Factory = factory
  Paymaster = paymaster
  EntryPoint = entryPoint
  SenderCreator = senderCreator
  Instr <- MCInstr
  Precompile <- MCPrecompile
  Deployed <- MCDeployed
  Operations <- MCOperations
  Contexts <- MCContexts
  MaxSteps = 3
SPECIFICATION Spec
CHECK_DEADLOCK FALSE
CONSTRAINT OneFamily
INVARIANTS
  TracerTypeOK
  
  RejectedBreaksRule
  StorageMapSound
  CallStackSound
