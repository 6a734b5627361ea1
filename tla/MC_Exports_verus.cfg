CONSTANTS
  NFactors <- ContractNFactors
  ScryptArgs <- ContractScryptArgs
  HeaderLens <- MCHeaderLens
  SolutionLens <- ContractSolutionLens
  InputLens <- MCInputLens
  MaxLive <- MCMaxLive
SPECIFICATION Spec
INVARIANTS NoHeapBeyondCall
