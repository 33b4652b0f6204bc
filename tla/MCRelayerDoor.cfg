SPECIFICATION MCSpec
CONSTANTS
  None = None
  Any = Any
  Machine = Machine
  Opaque = Opaque
  Addresses = {"a1", "a2"}
  PageNames = {"localhost", "a1", "site"}
  PointedHere = {"site"}
  CorsOrigins = Machine
  ApiKey = TRUE
  Lan = TRUE
  Clusters = {"devnet", "mainnet", "other"}
  AnyCluster = FALSE
  MaxAge = 2
  MaxMoves = 1
  Nothing = Nothing
  Decoded <- AllDecoded
  Wires <- AllWires
  TxV1 = TRUE
  RequireLazorkit = TRUE
  MaxSignatures = 4
  MaxPriorityFee = 2
  MaxComputeUnits = 8
  MaxLoadedData = 8
  MaxAddresses = 6
  RelayerKey = 77
INVARIANTS NoFeeForNothing
PROPERTIES GrantedPagesOnly
