CONSTANTS
  NFactors <- ContractNFactors
  ScryptArgs <- AllScryptArgs
  HeaderLens <- MCHeaderLens
  SolutionLens <- ContractSolutionLens
  InputLens <- MCInputLens
  MaxLive <- MCMaxLive
SPECIFICATION Spec
INVARIANTS ScryptParamsValidated
