------------------------------- MODULE Pipeline -------------------------------
(***************************************************************************)
(* What a proof-of-work chain promises (spec 4.2): execute(spec, input)    *)
(* applies the stages in order, the first to the raw input and every      *)
(* later one to the previous stage's output as a 64-byte block; the output *)
(* of a 256-bit primitive is fed on with its upper 32 bytes zeroed; the    *)
(* digest is the first 32 bytes of the last output.  One step per stage,  *)
(* no buffers: this is the specification the buffer-level module ChainExec *)
(* is shown to implement.                                                  *)
(***************************************************************************)
EXTENDS Naturals, Sequences, Terms

CONSTANTS
  Algs,    \* names of the chains
  Prim,    \* primitive hash functions
  Width,   \* Width[p]: output bytes of primitive p (32 or 64)
  Stages,  \* Stages[a]: the primitives of chain a, in order
  Msgs     \* caller inputs

NoDigest == <<>>

VARIABLES
  phase,   \* "idle" between calls, "run" inside one
  alg,     \* chain of the current (or last) call
  msg,     \* input of the current (or last) call
  k,       \* number of stages done
  val,     \* output of stage k (the input itself when k = 0)
  out      \* the digest returned by the last call

vars == <<phase, alg, msg, k, val, out>>

\* The block stage i+1 consumes, given stage i's output v.
Feed(a, i, v) == IF i > 0 /\ Width[Stages[a][i]] = 32 THEN Trunc(v) ELSE v

Init ==
  /\ phase = "idle"
  /\ alg = CHOOSE a \in Algs : TRUE
  /\ msg = CHOOSE m \in Msgs : TRUE
  /\ k = 0
  /\ val = MsgTerm(msg)
  /\ out = NoDigest

Call(a, m) ==
  /\ phase = "idle"
  /\ phase' = "run"
  /\ alg' = a
  /\ msg' = m
  /\ k' = 0
  /\ val' = MsgTerm(m)
  /\ UNCHANGED out

Stage ==
  /\ phase = "run"
  /\ k < Len(Stages[alg])
  /\ k' = k + 1
  /\ val' = Apply(Stages[alg][k + 1], Feed(alg, k, val))
  /\ UNCHANGED <<phase, alg, msg, out>>

Finish ==
  /\ phase = "run"
  /\ k = Len(Stages[alg])
  /\ out' = LoHalf(val)
  /\ phase' = "idle"
  /\ UNCHANGED <<alg, msg, k, val>>

Next ==
  \/ \E a \in Algs, m \in Msgs : Call(a, m)
  \/ Stage
  \/ Finish

Spec == Init /\ [][Next]_vars
=============================================================================
