--------------------------- MODULE ChainExecProofs ---------------------------
(***************************************************************************)
(* Proofs about the buffer-level chains of ChainExec, for every catalog    *)
(* of chains, every set of primitives and every set of inputs.            *)
(***************************************************************************)
EXTENDS ChainExec, TLAPS

\* The stages of the chain of any call are stage records.
LEMMA StagesType ==
  ASSUME NEW a \in Algs
  PROVE  /\ Chain[a].stages \in Seq(StageRec)
         /\ Len(Chain[a].stages) >= 1
         /\ Chain[a].out \in Bufs
BY ChainAssumption

\* Reading a buffer as a 64-byte block yields a term.
LEMMA BlockType ==
  ASSUME NEW S, NEW lo \in Seq(S), NEW hi \in Seq(S),
         "trunc" \in S, "mix" \in S
  PROVE  Block(lo, hi) \in Seq(S)
BY DEF Block, Trunc, HiHalf, ZeroHalf

\* The two halves of an output are values a buffer half can hold.
LEMMA HalvesType ==
  ASSUME NEW t \in Half
  PROVE  LoHalf(t) \in Half /\ HiHalf(t) \in Half
<1>1. <<"lo">> \in Half /\ <<"hi">> \in Half
  BY DEF Half, Symbols, Tags
<1>2. QED
  BY <1>1 DEF LoHalf, HiHalf, Half

\* What a stage absorbs and what it closes are terms.
LEMMA OutputType ==
  ASSUME TypeOK, NEW s \in StageRec
  PROVE  Apply(s.prim, ReadInput(s.src)) \in Half
<1> DEFINE x == ReadInput(s.src)
<1>1. x \in Half
  <2>1. CASE s.src = In
    BY <2>1 DEF ReadInput, MsgTerm, Half, Symbols, Tags, TypeOK
  <2>2. CASE s.src # In
    <3>1. s.src \in Bufs
      BY <2>2 DEF StageRec
    <3>2. buf[s.src].lo \in Half /\ buf[s.src].hi \in Half
      BY <3>1 DEF TypeOK
    <3>3. Block(buf[s.src].lo, buf[s.src].hi) \in Half
      BY <3>2, BlockType DEF Half, Symbols, Tags
    <3>4. QED
      BY <2>2, <3>3 DEF ReadInput
  <2>3. QED
    BY <2>1, <2>2
<1>2. <<s.prim>> \in Half
  BY DEF Half, Symbols, StageRec
<1>3. QED
  BY <1>1, <1>2 DEF Apply, Half

-----------------------------------------------------------------------------
(***************************************************************************)
(* Type correctness.                                                       *)
(***************************************************************************)
LEMMA TypeInit == Init => TypeOK
<1> SUFFICES ASSUME Init PROVE TypeOK
  OBVIOUS
<1>1. alg \in Algs /\ msg \in Msgs
  BY NonEmptyAssumption DEF Init
<1>2. buf \in [Bufs -> [lo: Half, hi: Half]]
  BY DEF Init, FreshFrame, Undef, Half, Symbols, Tags
<1>3. Len(St) \in Nat
  BY <1>1, StagesType DEF St
<1>4. k \in 0..Len(St)
  BY <1>3 DEF Init
<1>5. out \in Half
  BY DEF Init, NoDigest, Half
<1>6. QED
  BY <1>1, <1>2, <1>4, <1>5 DEF Init, TypeOK

LEMMA TypeStep == TypeOK /\ [Next]_vars => TypeOK'
<1> SUFFICES ASSUME TypeOK, [Next]_vars PROVE TypeOK'
  OBVIOUS
<1>0. /\ St \in Seq(StageRec)
      /\ Len(St) >= 1
      /\ Chain[alg].out \in Bufs
  BY StagesType DEF TypeOK, St
<1>1. ASSUME NEW a \in Algs, NEW m \in Msgs, EnterChain(a, m)
      PROVE  TypeOK'
  <2>1. Len(Chain[a].stages) \in Nat
    BY StagesType
  <2>2. buf' \in [Bufs -> [lo: Half, hi: Half]]
    BY <1>1 DEF EnterChain, FreshFrame, Undef, Half, Symbols, Tags
  <2>3. k' \in 0..Len(St')
    BY <1>1, <2>1 DEF EnterChain, St
  <2>4. QED
    BY <1>1, <2>2, <2>3 DEF EnterChain, TypeOK
<1>2. ASSUME HashStage PROVE TypeOK'
  <2> DEFINE s == St[k + 1]
             t == Apply(s.prim, ReadInput(s.src))
  <2>1. s \in StageRec
    BY <1>0, <1>2 DEF TypeOK, HashStage
  <2>2. t \in Half
    BY <2>1, OutputType
  <2>3. Closed(s.prim, t, buf[s.dst]) \in [lo: Half, hi: Half]
    BY <2>1, <2>2, HalvesType DEF Closed, TypeOK, StageRec
  <2>4. buf' \in [Bufs -> [lo: Half, hi: Half]]
    BY <1>2, <2>1, <2>3 DEF HashStage, TypeOK, StageRec
  <2>5. zpend' => St'[k'].zero \in Bufs
    BY <1>2, <2>1 DEF HashStage, StageRec, St
  <2>6. QED
    BY <1>0, <1>2, <2>4, <2>5 DEF HashStage, TypeOK, St
<1>3. ASSUME ZeroUpperHalf PROVE TypeOK'
  <2>1. ZeroHalf \in Half
    BY DEF ZeroHalf, Half, Symbols, Tags
  <2>2. buf' \in [Bufs -> [lo: Half, hi: Half]]
    BY <1>3, <2>1 DEF ZeroUpperHalf, TypeOK
  <2>3. QED
    BY <1>3, <2>2 DEF ZeroUpperHalf, TypeOK, St
<1>4. ASSUME CopyOutput PROVE TypeOK'
  BY <1>0, <1>4 DEF CopyOutput, TypeOK, St
<1>5. CASE UNCHANGED vars
  BY <1>5 DEF vars, TypeOK, St
<1>6. QED
  BY <1>1, <1>2, <1>3, <1>4, <1>5 DEF Next

\* Every reachable state is well typed.
THEOREM TypeCorrect == Spec => []TypeOK
BY TypeInit, TypeStep, PTL DEF Spec

-----------------------------------------------------------------------------
(***************************************************************************)
(* The buffer invariant, for every catalog in the discipline.             *)
(***************************************************************************)

\* The output term stage k wrote can be read back from the lower half.
LEMMA TailLoHalf ==
  ASSUME NEW t \in Half
  PROVE  Tail(LoHalf(t)) = t
BY DEF LoHalf, Half

\* What the discipline says about the stages of the chain being run.
LEMMA DisciplineFacts ==
  ASSUME ChainsDisciplined, NEW a \in Algs
  PROVE  LET s == Chain[a].stages
             n == Len(s)
         IN  /\ s[1].src = In
             /\ \A i \in 2..n : s[i].src = s[i - 1].dst
             /\ \A i \in 1..n : s[i].zero = IF i < n /\ Width[s[i].prim] = 32
                                            THEN s[i].dst ELSE NoZero
             /\ \A i \in 1..n : Width[s[i].prim] <= Size[s[i].dst]
             /\ \A i \in 1..n : s[i].zero # NoZero => Size[s[i].zero] = 64
             /\ Chain[a].out = s[n].dst
BY DEF ChainsDisciplined, Disciplined

THEOREM BufInvariant ==
  ASSUME ChainsDisciplined
  PROVE  Spec => []IInv
<1>1. Init => IInv
  BY TypeInit DEF Init, IInv, BufInv
<1>2. IInv /\ [Next]_vars => IInv'
  <2> SUFFICES ASSUME IInv, [Next]_vars PROVE IInv'
    OBVIOUS
  <2>0. /\ TypeOK'
        /\ St \in Seq(StageRec)
        /\ Len(St) >= 1
    BY TypeStep, StagesType DEF IInv, TypeOK, St
  <2>1. ASSUME NEW a \in Algs, NEW m \in Msgs, EnterChain(a, m)
        PROVE  BufInv'
    BY <2>1 DEF EnterChain, BufInv
  <2>2. ASSUME HashStage PROVE BufInv'
    <3> DEFINE s == St[k + 1]
               t == Apply(s.prim, ReadInput(s.src))
    <3>1. /\ k \in 0..Len(St) - 1
          /\ s \in StageRec
          /\ k' = k + 1
          /\ St' = St
          /\ phase' = "run"
      BY <2>0, <2>2 DEF HashStage, IInv, TypeOK, St
    <3>2. t \in Half
      BY <3>1, OutputType DEF IInv
    <3>3. buf'[s.dst] = Closed(s.prim, t, buf[s.dst])
      BY <2>2, <3>1 DEF HashStage, IInv, TypeOK, StageRec
    <3>4. /\ Tail(buf'[s.dst].lo) = t
          /\ buf'[s.dst].lo = LoHalf(Tail(buf'[s.dst].lo))
      <4>1. Tail(LoHalf(t)) = t
        BY <3>2, TailLoHalf
      <4>2. buf'[s.dst].lo = LoHalf(t)
        BY <3>3 DEF Closed
      <4>3. QED
        BY <4>1, <4>2
    <3>5. zpend' = (s.zero # NoZero)
      BY <2>2 DEF HashStage
    <3>6. s.zero = IF k + 1 < Len(St) /\ Width[s.prim] = 32 THEN s.dst ELSE NoZero
      BY <3>1, DisciplineFacts DEF IInv, TypeOK, St
    <3>7. Width[s.prim] \in {32, 64}
      BY <3>1, WidthAssumption DEF StageRec
    <3>8. k + 1 < Len(St) /\ ~zpend' =>
            buf'[s.dst].hi = IF Width[s.prim] = 32 THEN ZeroHalf
                             ELSE HiHalf(Tail(buf'[s.dst].lo))
      <4> SUFFICES ASSUME k + 1 < Len(St), ~zpend'
                   PROVE  buf'[s.dst].hi = IF Width[s.prim] = 32 THEN ZeroHalf
                                           ELSE HiHalf(Tail(buf'[s.dst].lo))
        OBVIOUS
      <4>1. Width[s.prim] # 32
        BY <3>1, <3>5, <3>6 DEF StageRec, NoZero, Bufs
      <4>2. Width[s.prim] = 64
        BY <3>7, <4>1
      <4>3. buf'[s.dst].hi = HiHalf(t)
        <5>1. Closed(s.prim, t, buf[s.dst]).hi = HiHalf(t)
          BY <4>2 DEF Closed
        <5>2. QED
          BY <3>3, <5>1
      <4>4. QED
        BY <3>4, <4>1, <4>3
    <3>9. zpend' => s.zero = s.dst
      BY <3>5, <3>6
    <3>10. QED
      BY <3>1, <3>4, <3>8, <3>9 DEF BufInv
  <2>3. ASSUME ZeroUpperHalf PROVE BufInv'
    <3> DEFINE d == St[k].dst
    <3>1. /\ k \in 1..Len(St)
          /\ St[k] \in StageRec
          /\ St[k].zero = d
          /\ St' = St /\ k' = k /\ phase' = phase /\ ~zpend'
      BY <2>0, <2>3 DEF ZeroUpperHalf, IInv, TypeOK, BufInv, St
    <3>2. buf'[d] = [buf[d] EXCEPT !.hi = ZeroHalf]
      BY <2>3, <3>1 DEF ZeroUpperHalf, IInv, TypeOK, StageRec
    <3>3. k < Len(St) /\ Width[St[k].prim] = 32
      <4>1. St[k].zero = IF k < Len(St) /\ Width[St[k].prim] = 32 THEN d ELSE NoZero
        BY <3>1, DisciplineFacts DEF IInv, TypeOK, St
      <4>2. d # NoZero
        BY <3>1 DEF StageRec, NoZero, Bufs
      <4>3. QED
        BY <3>1, <4>1, <4>2
    <3>4. buf[d].lo = LoHalf(Tail(buf[d].lo))
      BY <2>3, <3>1 DEF ZeroUpperHalf, IInv, BufInv
    <3>5. QED
      BY <3>1, <3>2, <3>3, <3>4 DEF BufInv, IInv, TypeOK, StageRec
  <2>4. ASSUME CopyOutput PROVE BufInv'
    BY <2>4 DEF CopyOutput, BufInv
  <2>5. CASE UNCHANGED vars
    <3>1. St' = St
      BY <2>5 DEF vars, St
    <3>2. QED
      BY <2>0, <2>5, <3>1, Zenon DEF vars, BufInv, IInv
  <2>6. QED
    BY <2>0, <2>1, <2>2, <2>3, <2>4, <2>5 DEF Next, IInv
<1>3. QED
  BY <1>1, <1>2, PTL DEF Spec
-----------------------------------------------------------------------------
(***************************************************************************)
(* The two buffer properties the chains run is checked for, for every     *)
(* catalog in the discipline.                                             *)
(***************************************************************************)

\* A half that some close or memset wrote is never the undefined half.
LEMMA WrittenDefined ==
  ASSUME NEW t \in Half
  PROVE  /\ Defined(LoHalf(t))
         /\ Defined(HiHalf(t))
         /\ Defined(ZeroHalf)
<1>1. LoHalf(t)[1] = "lo" /\ HiHalf(t)[1] = "hi" /\ Undef[1] = "undef"
  BY DEF LoHalf, HiHalf, Undef, Half
<1>2. QED
  BY <1>1 DEF Defined, ZeroHalf, Undef

\* In a running call past its first stage, the buffer the last stage closed
\* into holds defined halves, and the next stage reads that buffer.
LEMMA LastBufferFacts ==
  ASSUME ChainsDisciplined, IInv, phase = "run", ~zpend, 0 < k
  PROVE  LET d == St[k].dst
             t == Tail(buf[d].lo)
         IN  /\ d \in Bufs
             /\ t \in Half
             /\ buf[d] = [lo |-> buf[d].lo, hi |-> buf[d].hi]
             /\ buf[d].lo = LoHalf(t)
             /\ Defined(buf[d].lo)
             /\ k < Len(St) => /\ St[k + 1].src = d
                               /\ Defined(buf[d].hi)
<1> DEFINE d == St[k].dst
           t == Tail(buf[d].lo)
<1>1. /\ St \in Seq(StageRec)
      /\ k \in 1..Len(St)
  BY StagesType DEF IInv, TypeOK, St
<1>2. d \in Bufs
  <2>1. St[k] \in StageRec
    BY <1>1
  <2>2. QED
    BY <2>1 DEF StageRec
<1>3. buf[d] \in [lo: Half, hi: Half]
  BY <1>2 DEF IInv, TypeOK
<1>4. buf[d].lo = LoHalf(t)
  BY DEF IInv, BufInv
<1>5. t \in Half
  <2>1. buf[d].lo # <<>>
    BY <1>4 DEF LoHalf
  <2>2. QED
    BY <1>3, <2>1 DEF Half
<1>6. Defined(buf[d].lo)
  BY <1>4, <1>5, WrittenDefined
<1>7. ASSUME k < Len(St) PROVE St[k + 1].src = d
  BY <1>1, <1>7, DisciplineFacts DEF IInv, TypeOK, St
<1>8. ASSUME k < Len(St) PROVE Defined(buf[d].hi)
  <2>1. buf[d].hi = IF Width[St[k].prim] = 32 THEN ZeroHalf ELSE HiHalf(t)
    BY <1>8 DEF IInv, BufInv
  <2>2. QED
    BY <1>5, <2>1, WrittenDefined
<1>9. QED
  BY <1>2, <1>3, <1>4, <1>5, <1>6, <1>7, <1>8

\* Whenever the next stage of a chain is about to read, its source buffer
\* holds exactly the previous stage's output, with the upper half zero
\* after a 256-bit primitive: the ping-pong and the memsets of every
\* *_hash function in the discipline are right.
THEOREM NextReadsPrevOutputHolds ==
  ASSUME ChainsDisciplined
  PROVE  Spec => []NextReadsPrevOutput
<1>1. IInv => NextReadsPrevOutput
  <2> SUFFICES ASSUME IInv, phase = "run", ~zpend, 0 < k, k < Len(St)
               PROVE  NextReadsPrevOutput
    BY DEF NextReadsPrevOutput
  <2> DEFINE d == St[k].dst
             t == Tail(buf[d].lo)
  <2>1. /\ St[k + 1].src = d
        /\ buf[d] = [lo |-> buf[d].lo, hi |-> buf[d].hi]
        /\ buf[d].lo = LoHalf(t)
    BY LastBufferFacts
  <2>2. buf[d].hi = IF Width[St[k].prim] = 32 THEN ZeroHalf ELSE HiHalf(t)
    BY DEF IInv, BufInv
  <2>3. QED
    BY <2>1, <2>2 DEF NextReadsPrevOutput
<1>2. QED
  BY <1>1, BufInvariant, PTL

\* No stage update of a *_hash function reads an uninitialized byte of
\* hashA, hashB or finalhash, no close writes past its buffer, no memset
\* clears bytes [32,64) of the 32-byte finalhash, and the final memcpy
\* copies bytes the call wrote.
THEOREM StepMemorySafeHolds ==
  ASSUME ChainsDisciplined
  PROVE  Spec => []StepMemorySafe
<1>0. IInv /\ phase = "run" /\ zpend => Size[St[k].zero] = 64
  <2> SUFFICES ASSUME IInv, phase = "run", zpend
               PROVE  Size[St[k].zero] = 64
    OBVIOUS
  <2>1. /\ alg \in Algs
        /\ St \in Seq(StageRec)
        /\ k \in 1..Len(St)
        /\ St[k].zero \in Bufs
    BY StagesType DEF IInv, TypeOK, St
  <2>2. St[k].zero # NoZero
    BY <2>1 DEF Bufs, NoZero
  <2>3. QED
    BY <2>1, <2>2, DisciplineFacts DEF St
<1>1. IInv /\ phase = "run" /\ ~zpend =>
        /\ k < Len(St) /\ St[k + 1].src # In =>
             /\ Defined(buf[St[k + 1].src].lo)
             /\ Defined(buf[St[k + 1].src].hi)
        /\ k < Len(St) => Width[St[k + 1].prim] <= Size[St[k + 1].dst]
        /\ k = Len(St) => Defined(buf[Chain[alg].out].lo)
  <2> SUFFICES ASSUME IInv, phase = "run", ~zpend
               PROVE  /\ k < Len(St) /\ St[k + 1].src # In =>
                           /\ Defined(buf[St[k + 1].src].lo)
                           /\ Defined(buf[St[k + 1].src].hi)
                      /\ k < Len(St) => Width[St[k + 1].prim] <= Size[St[k + 1].dst]
                      /\ k = Len(St) => Defined(buf[Chain[alg].out].lo)
    OBVIOUS
  <2>0. /\ alg \in Algs
        /\ St \in Seq(StageRec)
        /\ k \in 0..Len(St)
        /\ Len(St) >= 1
    BY StagesType DEF IInv, TypeOK, St
  <2>1. ASSUME k < Len(St), St[k + 1].src # In
        PROVE  Defined(buf[St[k + 1].src].lo) /\ Defined(buf[St[k + 1].src].hi)
    <3>1. k # 0
      BY <2>0, <2>1, DisciplineFacts DEF St
    <3>2. QED
      BY <2>0, <2>1, <3>1, LastBufferFacts
  <2>2. ASSUME k < Len(St) PROVE Width[St[k + 1].prim] <= Size[St[k + 1].dst]
    BY <2>0, <2>2, DisciplineFacts DEF St
  <2>3. ASSUME k = Len(St) PROVE Defined(buf[Chain[alg].out].lo)
    <3>1. Chain[alg].out = St[k].dst
      BY <2>0, <2>3, DisciplineFacts DEF St
    <3>2. QED
      BY <2>0, <2>3, <3>1, LastBufferFacts
  <2>4. QED
    BY <2>1, <2>2, <2>3
<1>2. IInv => StepMemorySafe
  BY <1>0, <1>1 DEF StepMemorySafe
<1>3. QED
  BY <1>2, BufInvariant, PTL

-----------------------------------------------------------------------------
(***************************************************************************)
(* Refinement: the buffer-level chains implement Pipeline under valBar.   *)
(***************************************************************************)

\* Pipeline's terms are the terms of ChainExec.
LEMMA SameTerms ==
  ASSUME NEW x, NEW y
  PROVE  /\ P!MsgTerm(x) = MsgTerm(x)
         /\ P!Apply(x, y) = Apply(x, y)
         /\ P!Trunc(x) = Trunc(x)
         /\ P!LoHalf(x) = LoHalf(x)
         /\ P!NoDigest = NoDigest
BY DEF P!MsgTerm, MsgTerm, P!Apply, Apply, P!Trunc, Trunc, P!LoHalf, LoHalf,
       P!NoDigest, NoDigest

\* The primitives of a chain, position by position.
LEMMA PrimsOfFacts ==
  ASSUME NEW a \in Algs
  PROVE  /\ Len(PrimsOf(Chain[a])) = Len(Chain[a].stages)
         /\ \A i \in 1..Len(Chain[a].stages) :
              PrimsOf(Chain[a])[i] = Chain[a].stages[i].prim
<1>1. Len(Chain[a].stages) \in Nat
  BY StagesType
<1>2. QED
  BY <1>1 DEF PrimsOf

\* A 64-byte read of a buffer holding a whole output yields that output.
LEMMA BlockWhole ==
  ASSUME NEW v \in Half
  PROVE  Block(LoHalf(v), HiHalf(v)) = v
<1>1. LoHalf(v) # <<>> /\ Head(LoHalf(v)) = "lo" /\ Tail(LoHalf(v)) = v
  BY DEF LoHalf, Half
<1>2. QED
  BY <1>1 DEF Block

\* A 64-byte read of a buffer whose upper half was zeroed yields the
\* truncated output.
LEMMA BlockTrunc ==
  ASSUME NEW v \in Half
  PROVE  Block(LoHalf(v), ZeroHalf) = Trunc(v)
<1>1. LoHalf(v) # <<>> /\ Head(LoHalf(v)) = "lo" /\ Tail(LoHalf(v)) = v
  BY DEF LoHalf, Half
<1>2. ZeroHalf # HiHalf(v)
  <2>1. ZeroHalf[1] = "zero" /\ HiHalf(v)[1] = "hi"
    BY DEF ZeroHalf, HiHalf, Half
  <2>2. QED
    BY <2>1
<1>3. QED
  BY <1>1, <1>2 DEF Block

\* What stage k+1 reads is what Pipeline feeds it: the input for the first
\* stage, the previous output whole or truncated for the others.
LEMMA ReadIsFeed ==
  ASSUME ChainsDisciplined, IInv, phase = "run", ~zpend, k < Len(St)
  PROVE  ReadInput(St[k + 1].src) = P!Feed(alg, k, valBar)
<1> DEFINE SS == [a \in Algs |-> PrimsOf(Chain[a])]
<1>0. /\ alg \in Algs
      /\ St \in Seq(StageRec)
      /\ k \in 0..Len(St)
  BY StagesType DEF IInv, TypeOK, St
<1>1. CASE k = 0
  <2>1. St[1].src = In
    BY <1>0, DisciplineFacts DEF St
  <2>2. ReadInput(St[k + 1].src) = MsgTerm(msg)
    BY <1>1, <2>1 DEF ReadInput
  <2>3. P!Feed(alg, k, valBar) = MsgTerm(msg)
    BY <1>1, SameTerms DEF P!Feed, valBar
  <2>4. QED
    BY <2>2, <2>3
<1>2. CASE k # 0
  <2> DEFINE d == St[k].dst
             v == Tail(buf[d].lo)
  <2>1. /\ St[k + 1].src = d
        /\ d \in Bufs
        /\ v \in Half
        /\ buf[d].lo = LoHalf(v)
    BY <1>0, <1>2, LastBufferFacts
  <2>2. buf[d].hi = IF Width[St[k].prim] = 32 THEN ZeroHalf ELSE HiHalf(v)
    BY <1>0, <1>2 DEF IInv, BufInv
  <2>3. ReadInput(St[k + 1].src) = Block(LoHalf(v), buf[d].hi)
    BY <2>1 DEF ReadInput, In, Bufs
  <2>4. valBar = v
    BY <1>2 DEF valBar
  <2>5. SS[alg][k] = St[k].prim
    BY <1>0, <1>2, PrimsOfFacts DEF St
  <2>6. P!Feed(alg, k, valBar) = IF Width[St[k].prim] = 32 THEN Trunc(v) ELSE v
    BY <1>0, <1>2, <2>4, <2>5, SameTerms DEF P!Feed
  <2>7. CASE Width[St[k].prim] = 32
    BY <2>1, <2>2, <2>3, <2>6, <2>7, BlockTrunc
  <2>8. CASE Width[St[k].prim] # 32
    BY <2>1, <2>2, <2>3, <2>6, <2>8, BlockWhole
  <2>9. QED
    BY <2>7, <2>8
<1>3. QED
  BY <1>1, <1>2

\* Every call of a *_hash function in the discipline computes the digest
\* Pipeline specifies for its primitives and input: the memsets are
\* stutters, each triple a Pipeline stage, the memcpy its Finish.
THEOREM Refinement ==
  ASSUME ChainsDisciplined
  PROVE  Spec => ImplementsPipeline
<1> DEFINE SS == [a \in Algs |-> PrimsOf(Chain[a])]
<1>1. Init => P!Init
  BY SameTerms DEF Init, P!Init, valBar
<1>2. IInv /\ [Next]_vars => [P!Next]_P!vars
  <2> SUFFICES ASSUME IInv, [Next]_vars PROVE [P!Next]_P!vars
    OBVIOUS
  <2>0. /\ alg \in Algs
        /\ St \in Seq(StageRec)
        /\ k \in 0..Len(St)
        /\ Len(SS[alg]) = Len(St)
    BY StagesType, PrimsOfFacts DEF IInv, TypeOK, St
  <2>1. ASSUME NEW a \in Algs, NEW m \in Msgs, EnterChain(a, m)
        PROVE  P!Call(a, m)
    BY <2>1, SameTerms DEF EnterChain, P!Call, valBar
  <2>2. ASSUME HashStage PROVE P!Stage
    <3> DEFINE s == St[k + 1]
               t == Apply(s.prim, ReadInput(s.src))
    <3>1. /\ phase = "run" /\ ~zpend /\ k < Len(St)
          /\ s \in StageRec
          /\ k' = k + 1 /\ St' = St
          /\ UNCHANGED <<phase, alg, msg, out>>
      BY <2>0, <2>2 DEF HashStage, St
    <3>2. t \in Half
      BY <3>1, OutputType DEF IInv
    <3>3. buf'[s.dst].lo = LoHalf(t)
      <4>1. buf'[s.dst] = Closed(s.prim, t, buf[s.dst])
        BY <2>2, <3>1 DEF HashStage, IInv, TypeOK, StageRec
      <4>2. QED
        BY <4>1 DEF Closed
    <3>4. valBar' = t
      <4>1. valBar' = Tail(buf'[s.dst].lo)
        BY <2>0, <3>1 DEF valBar
      <4>2. QED
        BY <3>2, <3>3, <4>1, TailLoHalf
    <3>5. t = Apply(SS[alg][k + 1], P!Feed(alg, k, valBar))
      <4>1. ReadInput(s.src) = P!Feed(alg, k, valBar)
        BY <3>1, ReadIsFeed
      <4>2. SS[alg][k + 1] = s.prim
        BY <2>0, <3>1, PrimsOfFacts DEF St
      <4>3. QED
        BY <4>1, <4>2
    <3>6. QED
      BY <2>0, <3>1, <3>4, <3>5, SameTerms DEF P!Stage
  <2>3. ASSUME ZeroUpperHalf PROVE UNCHANGED P!vars
    <3> DEFINE d == St[k].dst
    <3>1. /\ k \in 1..Len(St)
          /\ St[k].zero = d
          /\ d \in Bufs
          /\ St' = St
          /\ UNCHANGED <<phase, alg, msg, k, out>>
      <4>1. /\ k \in 1..Len(St) /\ St[k].zero = d
            /\ UNCHANGED <<phase, alg, msg, k, out>>
        BY <2>3 DEF ZeroUpperHalf, IInv, TypeOK, BufInv
      <4>2. St[k] \in StageRec
        BY <2>0, <4>1
      <4>3. QED
        BY <4>1, <4>2 DEF StageRec, St
    <3>2. buf'[d].lo = buf[d].lo
      <4>1. buf[d] \in [lo: Half, hi: Half]
        BY <3>1 DEF IInv, TypeOK
      <4>2. buf' = [buf EXCEPT ![d].hi = ZeroHalf]
        BY <2>3, <3>1 DEF ZeroUpperHalf
      <4>3. QED
        BY <3>1, <4>1, <4>2 DEF IInv, TypeOK
    <3>3. valBar' = valBar
      BY <3>1, <3>2 DEF valBar
    <3>4. QED
      BY <3>1, <3>3 DEF P!vars
  <2>4. ASSUME CopyOutput PROVE P!Finish
    <3>1. /\ phase = "run" /\ ~zpend /\ k = Len(St)
          /\ out' = buf[Chain[alg].out].lo
          /\ UNCHANGED <<alg, msg, k, zpend, buf>> /\ phase' = "idle"
      BY <2>4 DEF CopyOutput
    <3>2. 0 < k
      BY <2>0, <3>1, StagesType DEF St
    <3>3. Chain[alg].out = St[k].dst
      BY <2>0, <3>1, DisciplineFacts DEF St
    <3>4. out' = LoHalf(valBar)
      <4>1. buf[St[k].dst].lo = LoHalf(Tail(buf[St[k].dst].lo))
        BY <3>1, <3>2 DEF IInv, BufInv
      <4>2. QED
        BY <3>1, <3>2, <3>3, <4>1 DEF valBar
    <3>5. valBar' = valBar
      BY <3>1 DEF valBar, St
    <3>6. QED
      BY <2>0, <3>1, <3>4, <3>5, SameTerms DEF P!Finish
  <2>5. CASE UNCHANGED vars
    BY <2>5 DEF vars, P!vars, valBar, St
  <2>6. QED
    BY <2>1, <2>2, <2>3, <2>4, <2>5 DEF Next, P!Next
<1>3. QED
  BY <1>1, <1>2, BufInvariant, PTL DEF Spec, P!Spec, ImplementsPipeline
=============================================================================
