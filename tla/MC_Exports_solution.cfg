CONSTANTS
  NFactors <- ContractNFactors
  ScryptArgs <- ContractScryptArgs
  HeaderLens <- MCHeaderLens
  SolutionLens <- AllSolutionLens
  InputLens <- MCInputLens
  MaxLive <- MCMaxLive
SPECIFICATION Spec
INVARIANTS NoUndefinedCall
