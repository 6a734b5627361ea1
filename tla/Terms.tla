-------------------------------- MODULE Terms --------------------------------
(***************************************************************************)
(* Symbolic values of the hash chains.  The primitives (sph_P, blake2)  *)
(* are external and assumed correct, so a digest is represented by the     *)
(* term that produced it: which primitive was applied to which input.      *)
(* Terms are flat sequences in prefix notation, so that every value the    *)
(* chains produce lies in Seq(Symbols) and equality of terms is equality   *)
(* of sequences.                                                           *)
(*                                                                         *)
(*   MsgTerm(m)   the caller's input buffer (any length, empty included)   *)
(*   Apply(p, x)  the full output of primitive p on the 64-byte block x    *)
(*   Trunc(t)     a 64-byte block whose lower 32 bytes are t's and whose   *)
(*                upper 32 bytes are zero (ZeroUpperHalf in the spec)      *)
(*                                                                         *)
(* A 64-byte scratch buffer (uint32_t hashX[16]) is a pair of halves,      *)
(* bytes [0,32) and [32,64); each half is one of                           *)
(*   LoHalf(t), HiHalf(t)   the lower / upper 32 bytes of output t         *)
(*   ZeroHalf               32 zero bytes written by memset                *)
(*   Undef                  never written in this call (stack garbage)     *)
(***************************************************************************)
EXTENDS Sequences

MsgTerm(m)  == <<"msg", m>>
Apply(p, x) == <<p>> \o x
Trunc(t)    == <<"trunc">> \o t
LoHalf(t)   == <<"lo">> \o t
HiHalf(t)   == <<"hi">> \o t
ZeroHalf    == <<"zero">>
Undef       == <<"undef">>

\* The tags that are not primitive or message names.
Tags == {"msg", "trunc", "mix", "lo", "hi", "zero", "undef"}

\* A half that holds bytes some step of this call wrote.
Defined(h) == h # Undef

\* The 64-byte block a primitive reads from a buffer with halves lo and hi:
\* the whole output t when both halves are t's, t truncated when the upper
\* half was zeroed, and otherwise an explicit mixture of the two halves
\* (stale or undefined bytes end up in the term, where the properties see
\* them).
Block(lo, hi) ==
  IF lo # <<>> /\ Head(lo) = "lo" /\ hi = HiHalf(Tail(lo))
    THEN Tail(lo)
  ELSE IF lo # <<>> /\ Head(lo) = "lo" /\ hi = ZeroHalf
    THEN Trunc(Tail(lo))
  ELSE <<"mix">> \o lo \o hi
=============================================================================
