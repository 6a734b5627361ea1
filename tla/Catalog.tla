------------------------------- MODULE Catalog -------------------------------
(***************************************************************************)
(* The five chains whose bodies are in the repository, transcribed stage  *)
(* by stage from their *_hash functions.  Stage(p, s, d) is the triple     *)
(*   sph_p_init(&ctx); sph_p(&ctx, s, ..); sph_p_close(&ctx, d);           *)
(* and StageZ(p, s, d, z) the same triple followed by                      *)
(*   memset(&z[8], 0, 32);                                                 *)
(* Buffers: "A" = hashA, "B" = hashB, "F" = finalhash, "in" = input.       *)
(***************************************************************************)

EXTENDS Sequences

\* The primitives the chains include (sph_*.h, blake2.h).
CatPrim == {"blake512", "blake2b", "blake2s", "bmw512", "cubehash512",
            "echo512", "fugue512", "gost512", "groestl512", "hamsi512",
            "haval256_5", "jh512", "keccak512", "luffa512", "sha512",
            "shabal512", "shavite512", "simd512", "skein512", "whirlpool"}

\* Bytes each close writes: sph_haval256_5_close and blake2s_final
\* (BLAKE2S_OUTBYTES) write 32, every other primitive 64.
CatWidth == [p \in CatPrim |-> IF p \in {"haval256_5", "blake2s"} THEN 32 ELSE 64]

Stage(p, s, d) == [prim |-> p, src |-> s, dst |-> d, zero |-> "none"]
StageZ(p, s, d, z) == [prim |-> p, src |-> s, dst |-> d, zero |-> z]

globalhash_hash ==
  [stages |-> << Stage("gost512", "in", "A"), Stage("blake512", "A", "B"),
                 Stage("blake2b", "B", "A"), Stage("blake2s", "A", "F") >>,
   out |-> "F"]

\* pawelhash_hash with its first close going to hashB (a copy-paste slip).
pawelhash_first_into_B ==
  [stages |-> << Stage("fugue512", "in", "B"), Stage("sha512", "A", "B"),
     Stage("skein512", "B", "A"), Stage("jh512", "A", "B"),
     Stage("keccak512", "B", "A"), Stage("luffa512", "A", "B"),
     Stage("whirlpool", "B", "A"), Stage("shabal512", "A", "B"),
     Stage("echo512", "B", "A"), Stage("groestl512", "A", "B"),
     StageZ("haval256_5", "B", "A", "A"), Stage("bmw512", "A", "B"),
     Stage("echo512", "B", "A"), Stage("fugue512", "A", "B"),
     Stage("bmw512", "B", "A"), Stage("gost512", "A", "B"),
     Stage("shabal512", "B", "A"), Stage("whirlpool", "A", "B"),
     Stage("groestl512", "B", "A") >>,
   out |-> "A"]

pawelhash_hash ==
  [stages |-> << Stage("fugue512", "in", "A"), Stage("sha512", "A", "B"),
     Stage("skein512", "B", "A"), Stage("jh512", "A", "B"),
     Stage("keccak512", "B", "A"), Stage("luffa512", "A", "B"),
     Stage("whirlpool", "B", "A"), Stage("shabal512", "A", "B"),
     Stage("echo512", "B", "A"), Stage("groestl512", "A", "B"),
     StageZ("haval256_5", "B", "A", "A"), Stage("bmw512", "A", "B"),
     Stage("echo512", "B", "A"), Stage("fugue512", "A", "B"),
     Stage("bmw512", "B", "A"), Stage("gost512", "A", "B"),
     Stage("shabal512", "B", "A"), Stage("whirlpool", "A", "B"),
     Stage("groestl512", "B", "A") >>,
   out |-> "A"]

JeongStages ==
  << Stage("simd512", "in", "A"), Stage("hamsi512", "A", "B"),
     Stage("shabal512", "B", "A"), Stage("blake512", "A", "B"),
     Stage("bmw512", "B", "A"), Stage("sha512", "A", "B"),
     Stage("whirlpool", "B", "A"), Stage("skein512", "A", "B"),
     Stage("skein512", "B", "A"), Stage("whirlpool", "A", "B"),
     Stage("sha512", "B", "A"), Stage("bmw512", "A", "B"),
     Stage("blake512", "B", "A"), Stage("shabal512", "A", "B"),
     Stage("hamsi512", "B", "A"), Stage("simd512", "A", "B"),
     Stage("simd512", "B", "A"), Stage("hamsi512", "A", "B"),
     Stage("shabal512", "B", "A"), Stage("blake512", "A", "B"),
     Stage("bmw512", "B", "A"), Stage("sha512", "A", "B"),
     Stage("whirlpool", "B", "A"), Stage("skein512", "A", "B") >>

\* jeonghash_hash copying hashA, the next-to-last output, to the caller.
jeonghash_copies_A == [stages |-> JeongStages, out |-> "A"]

jeonghash_hash == [stages |-> JeongStages, out |-> "B"]

astralhash_hash ==
  [stages |-> << Stage("luffa512", "in", "A"), Stage("skein512", "A", "B"),
     Stage("echo512", "B", "A"), Stage("whirlpool", "A", "B"),
     Stage("bmw512", "B", "A"), Stage("blake512", "A", "B"),
     Stage("shavite512", "B", "A"), Stage("skein512", "A", "B"),
     Stage("whirlpool", "B", "A"), Stage("fugue512", "A", "B"),
     Stage("hamsi512", "B", "A"), StageZ("haval256_5", "A", "B", "B"),
     Stage("sha512", "B", "A") >>,
   out |-> "A"]

\* The padihash stages up to the second haval256_5, with or without the
\* memset that follows it (padihash.c:100).
PadiFirstHalf(secondPad) ==
  << Stage("sha512", "in", "A"), Stage("jh512", "A", "B"),
     Stage("luffa512", "B", "A"), Stage("echo512", "A", "B"),
     Stage("bmw512", "B", "A"), StageZ("haval256_5", "A", "B", "B"),
     Stage("cubehash512", "B", "A"), Stage("shabal512", "A", "B"),
     Stage("sha512", "B", "A"), Stage("jh512", "A", "B"),
     Stage("luffa512", "B", "A"), Stage("echo512", "A", "B"),
     Stage("bmw512", "B", "A"), StageZ("haval256_5", "A", "B", secondPad) >>

PadiSecondHalf ==
  << Stage("cubehash512", "B", "A"), Stage("shabal512", "A", "B"),
     Stage("shabal512", "B", "A"), Stage("cubehash512", "A", "B"),
     StageZ("haval256_5", "B", "A", "A"), Stage("bmw512", "A", "B"),
     Stage("echo512", "B", "A"), Stage("luffa512", "A", "B"),
     Stage("jh512", "B", "A"), Stage("sha512", "A", "B"),
     Stage("jh512", "B", "A"), Stage("bmw512", "A", "B") >>

\* padihash_hash without the memset(&hashB[8], 0, 32) of padihash.c:100.
padihash_drops_second_pad ==
  [stages |-> PadiFirstHalf("none") \o PadiSecondHalf, out |-> "B"]

padihash_hash ==
  [stages |-> PadiFirstHalf("B") \o PadiSecondHalf, out |-> "B"]

\* The catalog: export name to chain.
CatAlgs == {"globalhash", "pawelhash", "jeonghash", "astralhash", "padihash"}

CatChain ==
  [a \in CatAlgs |->
     CASE a = "globalhash" -> globalhash_hash
       [] a = "pawelhash"  -> pawelhash_hash
       [] a = "jeonghash"  -> jeonghash_hash
       [] a = "astralhash" -> astralhash_hash
       [] a = "padihash"   -> padihash_hash]
=============================================================================
