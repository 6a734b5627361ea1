------------------------------ MODULE MC_Exports ------------------------------
(***************************************************************************)
(* Arguments for the export runs: those spec 7 allows (a host keeping to  *)
(* the contract) and, per run, one family of the arguments it rejects.    *)
(***************************************************************************)
EXTENDS Exports

\* Cost exponents: the ends of [1,30] and one inside; then 0, the shift
\* into the sign bit, and counts the shift cannot take.
ContractNFactors == {1, 10, 30}
AllNFactors      == {0, 1, 30, 31, 32, 33}

\* scrypt (N, R): positive pairs, then the zero ones.
ContractScryptArgs == {<<1024, 1>>, <<2, 8>>}
AllScryptArgs      == {<<1024, 1>>, <<0, 1>>, <<1024, 0>>}

\* A 140-byte header and an 80-byte one; the 1344-byte (200,9) solution,
\* an empty one, and a negative length.
MCHeaderLens       == {80, 140}
ContractSolutionLens == {0, 1344}
AllSolutionLens    == {0, 1344, -1}

MCInputLens == {0, 80}
MCMaxLive   == 4
=============================================================================
