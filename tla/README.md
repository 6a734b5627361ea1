# A TLA+ development for libmultihash

This directory holds TLA+ models of `src/src/Native/libmultihash`, the native proof-of-work
hashing library of the pool. It contains TLC configurations that check them and TLAPS proofs
about them. Every module is written from the C/C++ source. `PROJECT.json` maps each
definition to the lines it models, and lists the runs, mutants, hazards and theorems.

## 1. The system

| Part | Code | What it does |
|---|---|---|
| Primitive hashes | `sph_*`, `blake2*` (not in the repository) | Pure functions from bytes to 32 or 64 bytes (spec 4.1). |
| Hand-written chains | `globalhash.c`, `pawelhash.c`, `jeonghash.c`, `astralhash.c`, `padihash.c` | A `*_hash(input, output, len)` function per coin. It has two 64-byte stack buffers `hashA[16]` and `hashB[16]` (plus `finalhash[8]` in globalhash). It runs one `init/update/close` triple per stage, alternates the buffers, applies `memset(&hashX[8], 0, 32)` after a 256-bit stage that is not last, and ends with `memcpy(output, hashY, 32)`. |
| Catalog | the five bodies above, and the headers | Which primitives run in which order, and where the truncations are. |
| Export surface | `exports.cpp` | One `extern "C"` entry per algorithm. Most of them forward to code outside the repository. Some take parameters (`scrypt_export` takes N and R, `scryptn_export` takes nFactor). The equihash entries check `header_length`. The ethash entries create, use and delete opaque handles. `verushash_export` allocates a hasher. |

The pieces interact as follows. The host calls an export, and the export calls one chain.
Inside a chain, every stage reads the buffer the previous stage closed into, or the caller's
input for the first stage. The stages are therefore ordered by data, not by threads. Each call
has its own stack frame, so concurrent calls share nothing.

What is hard in the chains is control that no compiler or unit test looks at:

- the ping-pong order over 4 to 26 hand-written stages;
- whether a `memset` follows the right 256-bit close and clears the right buffer;
- which buffer is copied out;
- that nothing reads uninitialized stack or writes past the 32-byte `finalhash`.

Getting any of these wrong silently changes the digest (spec 1). In `exports.cpp` the hazards
are argument handling and resource lifetime (see `hazards` in PROJECT.json).

## 2. Modules

| Module | Models | State and actions |
|---|---|---|
| `Terms` | the values in the buffers | No state. A digest is the term that produced it: `Apply(p, x)` is primitive `p` on block `x`, `Trunc(t)` is `t` zero-padded, and `LoHalf`, `HiHalf`, `ZeroHalf` and `Undef` are the possible contents of a 32-byte half. `Block(lo, hi)` is what a 64-byte `update` reads from a buffer. A stale or undefined half is kept visible in the term. |
| `ChainExec` | the `*_hash` functions | A chain is data: `Chain[a] = [stages, out]`, one record `[prim, src, dst, zero]` per triple. The variables are `phase`, `alg`, `msg`, `k` (triples done), `zpend` (a memset is due), `buf` (the two halves of `hashA`, `hashB` and `finalhash`) and `out`. The actions are: `EnterChain(a, m)`, the export's call with a fresh, uninitialized frame; `HashStage`, one triple, where a 256-bit close leaves the upper half as it was; `ZeroUpperHalf`, the memset; and `CopyOutput`, the memcpy and the return. |
| `Pipeline` | spec 4.2, the abstract executor | One step per stage, `val' = Apply(p, Feed(val))`, with no buffers. |
| `Catalog` | the five chain bodies | `globalhash_hash` .. `padihash_hash`, stage by stage. It also holds the mutated chains used by the mutants. |
| `MC_ChainExec` | the TLC instance | The catalog, and inputs {empty, header80}. |
| `Exports` | `scrypt_export`, `scryptn_export`, `equihash_verify_*_export`, `verushash_export` | Each call is one step, because the call runs on the host's thread from entry to return. `last` records the call: its entry, its arguments, what it passed to its callee (`invoked = FALSE` when there was none), its return value, and whether it reached undefined behaviour. `live` counts the CVerusHashV2 objects still on the heap; its bound `MaxLive` is a conjunct of `verushash_export` only to keep TLC's state space finite, and the code has no such bound. For `scryptn`, `ShiftOutcomes` is `1 << nFactor` in 32 bits; a count of 32 or more is undefined and yields the masked value or 0. For equihash, the three branches follow the code: the header check, the reversed vector range, and the verifier's verdict. |
| `MC_Exports` | the TLC instance | Arguments inside spec 7's ranges, and per violation run one family outside them. |
| `ChainExecProofs` | theorems | See section 4. |
| `CatalogProofs` | theorems | The five transcribed bodies are in the chain discipline. The `ChainExecProofs` theorems are instantiated with them. See section 4. |

How the refinement works: ChainExec implements Pipeline through
`INSTANCE Pipeline WITH val <- valBar`.

- `valBar` is the term in the lower half of the buffer stage `k` closed into. Before the first
  stage it is the input.
- `HashStage` maps to `Stage`, and `CopyOutput` to `Finish`.
- `ZeroUpperHalf` is a stutter. The padding it adds is what `Feed` puts back, so the stage
  after it sees `Trunc(val)`.

## 3. Runs

`chains` uses `MC_ChainExec.cfg` and passes: 2123 distinct states, depth 62. It runs all five
real chains on both inputs, call after call. It checks three properties:

- `StepMemorySafe`: no update reads a half that this call never wrote; no close writes more
  than its buffer holds; a pending `memset(&hashX[8], 0, 32)`, which clears bytes [32,64),
  targets a 64-byte buffer, never the 32-byte `finalhash`; the memcpy copies written bytes.
- `NextReadsPrevOutput` (spec 8, the truncation invariant): when a stage is about to read,
  its source buffer is exactly the previous output, with the upper half zero after a 256-bit
  primitive. A memset of the wrong buffer, a dropped memset or a stage reading the wrong
  buffer breaks it.
- `ImplementsPipeline`: every call computes the digest Pipeline specifies. This is the
  refinement.

The bounds are whole chains (up to 26 stages) and two inputs, and nothing is cut short. The
data is symbolic, so one message stands for every message of its kind. Two are enough to show
that a call never mixes in the previous call's input. The chains are deterministic, so there is
no interleaving inside a call. No fairness is assumed and no liveness property is checked: a
call's body is straight-line code of at most `2 * Len(stages) + 1` steps with no loop, lock or
wait, so that it returns is not a question the model can make interesting.

The export model has no passing run. Each entry it models is a single step whose effect is one
record assignment; a passing property about it would restate that assignment. What is worth
checking there is where the code departs from spec 7, 8 and 3, and that is what its four
violation runs do.

Four violation runs each check one statement of the spec against `exports.cpp`. TLC finds
every one violated; these are the findings of PROJECT.json.

| Run | Property | Violated by |
|---|---|---|
| `exports_scryptn_range` | `CostExponentValidated` (spec 7/8) | nFactor 0 runs scrypt with N = 1. 31 and 32+ run it too, and 32+ is an undefined shift. |
| `exports_scrypt_zero` | `ScryptParamsValidated` (spec 8) | N = 0 or R = 0 reaches `scrypt_N_R_1_256`. |
| `exports_equihash_negative` | `NoUndefinedCall` (spec 7) | solution_length = -1 with a 140-byte header builds a reversed `std::vector` range. |
| `exports_verus_leak` | `NoHeapBeyondCall` (spec 3) | One `verushash_export` call leaves a `CVerusHashV2` allocated. |

Each property of a passing run has a mutant: a plausible slip in the transcribed code that
TLC catches.

- The first pawelhash close goes to hashB, so the next stage reads uninitialized hashA. This
  breaks `StepMemorySafe`.
- The memset at padihash.c:100 is dropped. This breaks `NextReadsPrevOutput`.
- jeonghash copies hashA. This breaks `ImplementsPipeline`.

## 4. Proofs (TLAPS)

### `ChainExecProofs`

The theorems hold for every value of the constants: any set of primitives and widths, any
inputs, and any catalog in the *chain discipline* `ChainsDisciplined`. The discipline says:

- the first stage reads the input;
- every later stage reads the buffer its predecessor closed into;
- a memset of that buffer follows exactly the 256-bit stages that are not last;
- closes fit their buffers;
- no memset targets the 32-byte `finalhash`;
- the digest comes from the last stage's buffer.

`CatalogProofs` proves that the five real bodies are in the discipline, so the theorems cover
the real catalog. The discipline is a hypothesis of the theorems, not an ASSUME, so the mutants
above remain catalogs the checker can run.

- `TypeCorrect`: `Spec => []TypeOK`.
- `BufInvariant`: `Spec => [](TypeOK /\ BufInv)`. `BufInv` is the inductive strengthening. It
  says three things about the buffer `d` of stage `k`: `buf[d].lo = LoHalf(t)`; unless a
  memset is pending, `buf[d].hi` is `ZeroHalf` or `HiHalf(t)` by the width; and a pending
  memset targets `d`.
  Neither run property is inductive alone. `NextReadsPrevOutput` says nothing while a memset
  is pending, or about the last stage. `BufInv` also covers those states, and the proof
  carries it through each of the four actions.
- `NextReadsPrevOutputHolds` and `StepMemorySafeHolds` follow from `BufInvariant` through the
  lemma `LastBufferFacts`; the memset bound of `StepMemorySafe` follows from `TypeOK` (a
  pending memset has a target buffer) and the discipline.

- `Refinement`: `Spec => ImplementsPipeline`, the refinement of Pipeline checked in the
  `chains` run, for every disciplined catalog. It follows the standard layout: `Init` maps to
  `P!Init`, and under `IInv` each step maps to a Pipeline step or a stutter, combined by PTL.
  - `EnterChain` is `Call`.
  - `HashStage` is `Stage`. The lemma `ReadIsFeed` shows that what the triple reads is
    Pipeline's `Feed`: the input for stage 1, otherwise the previous output, whole after a
    512-bit stage (`BlockWhole`) or truncated after a 256-bit stage (`BlockTrunc`).
  - `ZeroUpperHalf` leaves `valBar` alone, because it clears only the upper half.
  - `CopyOutput` is `Finish`, because the discipline makes the output buffer the last
    stage's buffer.

### `CatalogProofs`: the five real bodies

`CatalogProofs` instantiates `ChainExecProofs` with the catalog (`Chain <- CatChain`,
`Width <- CatWidth`, and any non-empty set of inputs `CatMsgs`).

- `CatalogDisciplined`: the five transcribed chains satisfy `ChainsDisciplined`. There is one
  lemma per body, and the provers evaluate the discipline stage by stage.
- `CatalogAssumptions`: the catalog meets the `ASSUME`s of `ChainExec`. These are hypotheses
  of every instantiated theorem.
- The instantiated theorems are then unconditional facts about the real code, for every input:
  - `CatalogMemorySafe` (`[]StepMemorySafe`);
  - `CatalogImplementsPipeline` (the refinement).

The proofs are about the catalog as transcribed. That the catalog matches the C bodies is what
`map` in PROJECT.json records, definition by definition, against the source lines.

### Only model-checked

- The violation-run properties `CostExponentValidated`, `ScryptParamsValidated`,
  `NoUndefinedCall` and `NoHeapBeyondCall`: they are false of the code, and TLC exhibits the
  counterexamples.
- Liveness and `ENABLED` are beyond the prover; the project states no liveness property (see
  section 3).

## 5. Not modelled, and the plan

- The primitives are external and assumed correct (spec 1). They are uninterpreted symbols.
- Chains whose bodies are not in the repository (x11 ... x25x, lyra2, yespower, and the
  others) are not modelled.
- Equihash, ethash and VerusHash internals are outside `src/`.
- The ethash entries forward to libethash (outside `src/`). The create-once/destroy-once
  handle discipline of spec 9 is the host's obligation, and nothing in `src/` enforces or
  breaks it.
- `CVerusHashV2::init()`, called on every `verushash_export`, and the hasher itself are outside
  `src/`; only the allocation at exports.cpp:607 that is never freed is modelled.
- The remaining exports forward `(input, output, input_len)` unchanged to bodies outside the
  repository. `bcrypt_export` drops `input_len`, and `c11_export` and `x13_bcd_export` never
  take one. The fixed length their callees read is not visible here.
