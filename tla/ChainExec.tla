------------------------------ MODULE ChainExec ------------------------------
(***************************************************************************)
(* The hand-written hash chains of libmultihash (globalhash.c,             *)
(* pawelhash.c, jeonghash.c, astralhash.c, padihash.c) at the level of     *)
(* their scratch buffers.  Every chain has the same shape:                 *)
(*                                                                         *)
(*   uint32_t hashA[16], hashB[16];          64-byte stack buffers          *)
(*   sph_P_init(&ctx); sph_P(&ctx, src, n); sph_P_close(&ctx, dst);        *)
(*   ...                                     one triple per stage          *)
(*   memset(&hashX[8], 0, 32);               after some 256-bit stages     *)
(*   memcpy(output, hashY, 32);              the digest                    *)
(*                                                                         *)
(* A chain is data, Chain[a] = [stages, out], one stage record per triple: *)
(* the primitive, the buffer it reads (In = the caller's input), the       *)
(* buffer it closes into, and the buffer a memset right after it clears    *)
(* (NoZero when there is none).  One call runs at a time: the buffers are  *)
(* locals of the call, so concurrent calls share nothing.                  *)
(***************************************************************************)
EXTENDS Naturals, Sequences, Terms

CONSTANTS
  Algs,    \* the exported chains
  Prim,    \* primitive hash functions
  Width,   \* Width[p]: bytes primitive p's close writes (32 or 64)
  Chain,   \* Chain[a]: the stage records of chain a and its output buffer
  Msgs     \* caller inputs (the empty input and an 80-byte header)

\* The scratch buffers: hashA, hashB and globalhash's finalhash[8].
Bufs == {"A", "B", "F"}
Size == [b \in Bufs |-> IF b = "F" THEN 32 ELSE 64]
In == "in"
NoZero == "none"

StageRec == [prim: Prim, src: Bufs \cup {In}, dst: Bufs, zero: Bufs \cup {NoZero}]

ASSUME NonEmptyAssumption == Algs # {} /\ Msgs # {}
ASSUME WidthAssumption == Width \in [Prim -> {32, 64}]
ASSUME ChainAssumption ==
  \A a \in Algs : /\ Chain[a] \in [stages: Seq(StageRec), out: Bufs]
                  /\ Len(Chain[a].stages) >= 1

(***************************************************************************)
(* The buffer discipline the chains are written in: the first stage reads *)
(* the input, every later one the buffer its predecessor closed into; a   *)
(* memset of that buffer follows exactly the 256-bit stages that are not  *)
(* last; the digest is copied from the last stage's buffer; no close      *)
(* writes more than its buffer holds, and no memset (bytes [32,64))       *)
(* targets the 32-byte finalhash.  The theorems of ChainExecProofs        *)
(* hold for every catalog in this discipline.                             *)
(***************************************************************************)
Disciplined(c) ==
  LET s == c.stages
      n == Len(s)
  IN  /\ s[1].src = In
      /\ \A i \in 2..n : s[i].src = s[i - 1].dst
      /\ \A i \in 1..n : s[i].zero = IF i < n /\ Width[s[i].prim] = 32
                                     THEN s[i].dst ELSE NoZero
      /\ \A i \in 1..n : Width[s[i].prim] <= Size[s[i].dst]
      /\ \A i \in 1..n : s[i].zero # NoZero => Size[s[i].zero] = 64
      /\ c.out = s[n].dst

ChainsDisciplined == \A a \in Algs : Disciplined(Chain[a])

NoDigest == <<>>

VARIABLES
  phase,   \* "idle" between calls, "run" inside a *_hash function
  alg,     \* chain of the current (or last) call
  msg,     \* its input
  k,       \* number of stage triples executed
  zpend,   \* TRUE between a stage's close and the memset that follows it
  buf,     \* buf[b] = [lo, hi]: the two 32-byte halves of each buffer
  out      \* the 32 bytes last copied to the caller's output

vars == <<phase, alg, msg, k, zpend, buf, out>>

St == Chain[alg].stages

FreshFrame == [b \in Bufs |-> [lo |-> Undef, hi |-> Undef]]

\* What sph_P(&ctx, src, n) absorbs: the caller's input (len bytes, len
\* possibly 0) or the full 64 bytes of a scratch buffer.
ReadInput(src) == IF src = In THEN MsgTerm(msg) ELSE Block(buf[src].lo, buf[src].hi)

\* What sph_P_close(&ctx, dst) leaves in dst: the lower 32 bytes always,
\* the upper 32 only for a 512-bit primitive; a 256-bit close leaves the
\* upper half as it was.
Closed(p, t, old) ==
  [lo |-> LoHalf(t), hi |-> IF Width[p] = 64 THEN HiHalf(t) ELSE old.hi]

Init ==
  /\ phase = "idle"
  /\ alg = CHOOSE a \in Algs : TRUE
  /\ msg = CHOOSE m \in Msgs : TRUE
  /\ k = 0
  /\ zpend = FALSE
  /\ buf = FreshFrame
  /\ out = NoDigest

\* The host calls <chain>_export(input, output, input_len), which calls
\* <chain>_hash: a new stack frame with uninitialized hashA/hashB.
EnterChain(a, m) ==
  /\ phase = "idle"
  /\ phase' = "run"
  /\ alg' = a
  /\ msg' = m
  /\ k' = 0
  /\ zpend' = FALSE
  /\ buf' = FreshFrame
  /\ UNCHANGED out

\* One init/update/close triple.
HashStage ==
  /\ phase = "run"
  /\ ~zpend
  /\ k < Len(St)
  /\ LET s == St[k + 1]
         t == Apply(s.prim, ReadInput(s.src))
     IN  /\ buf' = [buf EXCEPT ![s.dst] = Closed(s.prim, t, @)]
         /\ zpend' = (s.zero # NoZero)
  /\ k' = k + 1
  /\ UNCHANGED <<phase, alg, msg, out>>

\* memset(&hashX[8], 0, 32): zero bytes [32,64) of the buffer.
ZeroUpperHalf ==
  /\ phase = "run"
  /\ zpend
  /\ buf' = [buf EXCEPT ![St[k].zero].hi = ZeroHalf]
  /\ zpend' = FALSE
  /\ UNCHANGED <<phase, alg, msg, k, out>>

\* memcpy(output, hashY, 32) and return to the host.
CopyOutput ==
  /\ phase = "run"
  /\ ~zpend
  /\ k = Len(St)
  /\ out' = buf[Chain[alg].out].lo
  /\ phase' = "idle"
  /\ UNCHANGED <<alg, msg, k, zpend, buf>>

Next ==
  \/ \E a \in Algs, m \in Msgs : EnterChain(a, m)
  \/ HashStage
  \/ ZeroUpperHalf
  \/ CopyOutput

Spec == Init /\ [][Next]_vars

-----------------------------------------------------------------------------
\* Every variable has its type; a term is a sequence of symbols.
Symbols == Prim \cup Msgs \cup Tags
Half == Seq(Symbols)

TypeOK ==
  /\ phase \in {"idle", "run"}
  /\ alg \in Algs
  /\ msg \in Msgs
  /\ k \in 0..Len(St)
  /\ zpend \in BOOLEAN
  /\ zpend => k \in 1..Len(St) /\ St[k].zero \in Bufs
  /\ buf \in [Bufs -> [lo: Half, hi: Half]]
  /\ out \in Half

(***************************************************************************)
(* Memory safety of each step: no stage's update reads a byte of a scratch *)
(* buffer that this call never wrote (uninitialized stack, or bytes past   *)
(* the 32-byte finalhash), no close writes past its buffer, a pending     *)
(* memset(&hashX[8], 0, 32) targets a 64-byte buffer, and the final       *)
(* memcpy copies written bytes.                                            *)
(***************************************************************************)
StepMemorySafe ==
  /\ phase = "run" /\ zpend => Size[St[k].zero] = 64
  /\ phase = "run" /\ ~zpend =>
       /\ k < Len(St) /\ St[k + 1].src # In =>
            /\ Defined(buf[St[k + 1].src].lo)
            /\ Defined(buf[St[k + 1].src].hi)
       /\ k < Len(St) => Width[St[k + 1].prim] <= Size[St[k + 1].dst]
       /\ k = Len(St) => Defined(buf[Chain[alg].out].lo)

(***************************************************************************)
(* The truncation invariant of spec 4.2/8, with the ping-pong: whenever    *)
(* the next stage is about to read, the buffer it reads holds exactly the  *)
(* previous stage's output, whole if that primitive is 512-bit, and with   *)
(* its upper 32 bytes zero if it is 256-bit (haval256_5, blake2s).  A      *)
(* stage reading the wrong buffer, or a missing or misplaced memset,       *)
(* breaks it.                                                              *)
(***************************************************************************)
NextReadsPrevOutput ==
  phase = "run" /\ ~zpend /\ 0 < k /\ k < Len(St) =>
    LET prev == St[k]
        t    == Tail(buf[prev.dst].lo)
    IN  buf[St[k + 1].src] =
          [lo |-> LoHalf(t),
           hi |-> IF Width[prev.prim] = 32 THEN ZeroHalf ELSE HiHalf(t)]

(***************************************************************************)
(* The inductive form of the two invariants above: the buffer stage k     *)
(* closed into holds that stage's output in its lower half, and, unless   *)
(* the memset after the stage is still pending, the upper half a reader   *)
(* will see; a pending memset targets that buffer.                        *)
(***************************************************************************)
BufInv ==
  phase = "run" /\ 0 < k =>
    LET d == St[k].dst
        t == Tail(buf[d].lo)
    IN  /\ buf[d].lo = LoHalf(t)
        /\ k < Len(St) /\ ~zpend =>
             buf[d].hi = IF Width[St[k].prim] = 32 THEN ZeroHalf ELSE HiHalf(t)
        /\ zpend => St[k].zero = d

IInv == TypeOK /\ BufInv

-----------------------------------------------------------------------------
(***************************************************************************)
(* Refinement: the buffer-level chains implement Pipeline.  The abstract   *)
(* value of stage k is the term in the lower half of the buffer stage k    *)
(* closed into; the memset is a stutter.                                   *)
(***************************************************************************)
PrimsOf(c) == [i \in 1..Len(c.stages) |-> c.stages[i].prim]

valBar == IF k = 0 THEN MsgTerm(msg) ELSE Tail(buf[St[k].dst].lo)

P == INSTANCE Pipeline
       WITH Stages <- [a \in Algs |-> PrimsOf(Chain[a])], val <- valBar

\* Every call of a chain returns the digest Pipeline specifies for its
\* primitives and input: the first 32 bytes of the last stage, each stage
\* fed the previous output, zero-padded after 256-bit stages.
ImplementsPipeline == P!Spec
=============================================================================
