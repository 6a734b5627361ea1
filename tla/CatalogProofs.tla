---------------------------- MODULE CatalogProofs ----------------------------
(***************************************************************************)
(* The theorems of ChainExecProofs hold for every catalog in the chain     *)
(* discipline.  This module proves that the catalog transcribed from the   *)
(* five *_hash bodies (globalhash.c .. padihash.c) is in it, and so that   *)
(* these bodies, for every input, are memory-safe and compute the digest   *)
(* Pipeline specifies.                                                    *)
(***************************************************************************)
EXTENDS Naturals, Catalog, TLAPS

CONSTANT CatMsgs   \* the caller inputs: any non-empty set

VARIABLES phase, alg, msg, k, zpend, buf, out

CE == INSTANCE ChainExecProofs
         WITH Algs <- CatAlgs, Prim <- CatPrim, Width <- CatWidth,
              Chain <- CatChain, Msgs <- CatMsgs

\* Each body reads the input first, then the buffer the stage before it
\* closed into, clears the upper half after exactly the 256-bit closes that
\* are not last, never closes 64 bytes into finalhash nor clears its upper
\* half, and copies out the last stage's buffer.
LEMMA GlobalDisciplined == CE!Disciplined(globalhash_hash)
  BY DEF CE!Disciplined, globalhash_hash, Stage, CatWidth, CatPrim,
         CE!Size, CE!Bufs, CE!In, CE!NoZero

LEMMA PawelDisciplined == CE!Disciplined(pawelhash_hash)
  BY DEF CE!Disciplined, pawelhash_hash, Stage, StageZ, CatWidth, CatPrim,
         CE!Size, CE!Bufs, CE!In, CE!NoZero

LEMMA JeongDisciplined == CE!Disciplined(jeonghash_hash)
  BY DEF CE!Disciplined, jeonghash_hash, JeongStages, Stage, CatWidth,
         CatPrim, CE!Size, CE!Bufs, CE!In, CE!NoZero

LEMMA AstralDisciplined == CE!Disciplined(astralhash_hash)
  BY DEF CE!Disciplined, astralhash_hash, Stage, StageZ, CatWidth, CatPrim,
         CE!Size, CE!Bufs, CE!In, CE!NoZero

LEMMA PadiDisciplined == CE!Disciplined(padihash_hash)
  BY DEF CE!Disciplined, padihash_hash, PadiFirstHalf, PadiSecondHalf,
         Stage, StageZ, CatWidth, CatPrim, CE!Size, CE!Bufs, CE!In, CE!NoZero

\* The five hand-written chains are in the chain discipline.
THEOREM CatalogDisciplined == CE!ChainsDisciplined
  BY GlobalDisciplined, PawelDisciplined, JeongDisciplined,
     AstralDisciplined, PadiDisciplined
  DEF CE!ChainsDisciplined, CatChain, CatAlgs

\* The assumptions ChainExec makes of its constants hold of the catalog:
\* every primitive closes 32 or 64 bytes, and every chain is a non-empty
\* sequence of stage records with an output buffer.
LEMMA CatalogWidths == CatWidth \in [CatPrim -> {32, 64}]
  BY DEF CatWidth

LEMMA CatalogChainsTyped ==
  \A a \in CatAlgs : /\ CatChain[a] \in [stages: Seq(CE!StageRec), out: CE!Bufs]
                     /\ Len(CatChain[a].stages) >= 1
  BY DEF CatChain, CatAlgs, CE!StageRec, CE!Bufs, CE!In, CE!NoZero, CatPrim,
         globalhash_hash, pawelhash_hash, jeonghash_hash, JeongStages,
         astralhash_hash, padihash_hash, PadiFirstHalf, PadiSecondHalf,
         Stage, StageZ

-----------------------------------------------------------------------------
(***************************************************************************)
(* The theorems of ChainExecProofs, instantiated with the catalog.  Their  *)
(* hypothesis ChainsDisciplined is CatalogDisciplined; the assumptions of  *)
(* ChainExec are CatalogWidths, CatalogChainsTyped and a non-empty set of  *)
(* inputs.                                                                 *)
(***************************************************************************)

\* With a non-empty set of inputs, the catalog meets every assumption
\* ChainExec makes of its constants.
LEMMA CatalogAssumptions ==
  ASSUME CatMsgs # {}
  PROVE  /\ CatAlgs # {} /\ CatMsgs # {}
         /\ CatWidth \in [CatPrim -> {32, 64}]
         /\ \A a \in CatAlgs :
              /\ CatChain[a] \in [stages: Seq(CE!StageRec), out: CE!Bufs]
              /\ Len(CatChain[a].stages) >= 1
  BY CatalogWidths, CatalogChainsTyped DEF CatAlgs

\* The five bodies are memory-safe for every input: no update reads an
\* unwritten byte, no close or memset writes past its buffer, the digest
\* is written.
THEOREM CatalogMemorySafe ==
  ASSUME CatMsgs # {}
  PROVE  CE!Spec => []CE!StepMemorySafe
  BY CatalogAssumptions, CatalogDisciplined, CE!StepMemorySafeHolds

\* Every call of the five bodies returns the digest spec 4.2 defines for
\* its primitives and input.
THEOREM CatalogImplementsPipeline ==
  ASSUME CatMsgs # {}
  PROVE  CE!Spec => CE!ImplementsPipeline
  BY CatalogAssumptions, CatalogDisciplined, CE!Refinement
=============================================================================
