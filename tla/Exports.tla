------------------------------- MODULE Exports -------------------------------
(***************************************************************************)
(* The argument handling of the export surface (exports.cpp) for the       *)
(* entries that do more than forward: scrypt_export, scryptn_export, the   *)
(* three equihash_verify_*_export entries and verushash_export.  Every     *)
(* call runs on the host's thread from entry to return, so a call is one   *)
(* step.  The callees (scrypt_N_R_1_256, verifyEH_*, CVerusHashV2) are     *)
(* outside the repository: a step records what the export passed to them, *)
(* whether it reached undefined behaviour, and what it returned.           *)
(***************************************************************************)
EXTENDS Integers, Sequences

CONSTANTS
  NFactors,     \* nFactor arguments of scryptn_export
  ScryptArgs,   \* <<N, R>> arguments of scrypt_export
  HeaderLens,   \* header_length arguments of the equihash exports
  SolutionLens, \* solution_length arguments (an int: may be negative)
  InputLens,    \* input_len arguments of verushash_export
  MaxLive       \* model bound on the CVerusHashV2 objects a run allocates

EquihashExports ==
  {"equihash_verify_200_9", "equihash_verify_144_5", "equihash_verify_96_5"}

VARIABLES
  last,   \* the last export call: its entry, arguments, what it passed to
          \* its callee (invoked = FALSE when it called none), its return
          \* value and whether it reached undefined behaviour
  live    \* CVerusHashV2 objects allocated and not deleted

vars == <<last, live>>

Call(ex, arg, invoked, passed, ret, ub) ==
  [ex |-> ex, arg |-> arg, invoked |-> invoked, passed |-> passed,
   ret |-> ret, ub |-> ub]

Init ==
  /\ last = Call("none", <<>>, FALSE, <<>>, "void", FALSE)
  /\ live = 0

\* scrypt_export(input, output, N, R, input_len): N and R go to
\* scrypt_N_R_1_256 as they are.
scrypt_export(N, R) ==
  /\ last' = Call("scrypt", <<N, R>>, TRUE, <<N, R>>, "void", FALSE)
  /\ UNCHANGED live

(***************************************************************************)
(* unsigned int N = 1 << nFactor: an int shift converted to unsigned.  A   *)
(* count below 32 gives 2^nFactor (1 << 31 is INT_MIN, 2^31 once           *)
(* unsigned).  A count of 32 or more is undefined: x86 masks the count to  *)
(* its low 5 bits, and a compiler that folds the shift may produce 0.      *)
(***************************************************************************)
ShiftOutcomes(n) == IF n < 32 THEN {2^n} ELSE {2^(n % 32), 0}

\* scryptn_export(input, output, nFactor, input_len): N = 1 << nFactor,
\* then scrypt_N_R_1_256 with R = 1; no range check.
scryptn_export(nFactor) ==
  /\ \E N \in ShiftOutcomes(nFactor) :
       last' = Call("scryptn", <<nFactor>>, TRUE, <<N, 1>>, "void", nFactor >= 32)
  /\ UNCHANGED live

(***************************************************************************)
(* equihash_verify_*_export(header, header_length, solution,               *)
(* solution_length, personalization): header_length != 140 returns false   *)
(* at once; otherwise std::vector(solution, solution + solution_length)    *)
(* is built and handed to the verifier, whose verdict is returned.  A      *)
(* negative solution_length makes that range run backwards: undefined      *)
(* (libstdc++ throws length_error through the extern "C" frame, which      *)
(* terminates the host), and the verifier is never reached.               *)
(***************************************************************************)
equihash_verify_export(e, hlen, slen) ==
  /\ \/ /\ hlen # 140
        /\ last' = Call(e, <<hlen, slen>>, FALSE, <<>>, "false", FALSE)
     \/ /\ hlen = 140
        /\ slen < 0
        /\ last' = Call(e, <<hlen, slen>>, FALSE, <<>>, "void", TRUE)
     \/ /\ hlen = 140
        /\ slen >= 0
        /\ \E verdict \in {"true", "false"} :
             last' = Call(e, <<hlen, slen>>, TRUE, <<hlen, slen>>, verdict, FALSE)
  /\ UNCHANGED live

\* verushash_export(input, output, input_len): CVerusHashV2::init(), then
\* new CVerusHashV2, Reset, Write, Finalize2b; the object is never deleted.
\* The code has no bound on live: the first conjunct only keeps TLC's
\* state space finite.
verushash_export(len) ==
  /\ live < MaxLive
  /\ live' = live + 1
  /\ last' = Call("verushash", <<len>>, TRUE, <<len>>, "void", FALSE)

Next ==
  \/ \E a \in ScryptArgs : scrypt_export(a[1], a[2])
  \/ \E n \in NFactors : scryptn_export(n)
  \/ \E e \in EquihashExports, h \in HeaderLens, s \in SolutionLens :
       equihash_verify_export(e, h, s)
  \/ \E n \in InputLens : verushash_export(n)

Spec == Init /\ [][Next]_vars

-----------------------------------------------------------------------------
TypeOK ==
  /\ last.invoked \in BOOLEAN /\ last.ub \in BOOLEAN
  /\ last.ret \in {"void", "true", "false"}
  /\ live \in 0..MaxLive

(***************************************************************************)
(* Spec 7 and 8: a cost exponent outside [1,30] is rejected with           *)
(* InvalidParameter and no computation runs.  scryptn_export computes      *)
(* 1 << nFactor and calls scrypt for every nFactor.                        *)
(***************************************************************************)
CostExponentValidated ==
  last.ex = "scryptn" /\ last.invoked => last.arg[1] \in 1..30

\* Spec 8: scrypt-style N = 0 or R = 0 is rejected and no output is
\* written; scrypt_export forwards them to scrypt_N_R_1_256.
ScryptParamsValidated ==
  last.ex = "scrypt" /\ last.invoked => last.arg[1] > 0 /\ last.arg[2] > 0

\* Spec 7: a violated length precondition is InvalidParameter, detected
\* before any computation: no export call reaches undefined behaviour
\* (the equihash solution range, the shift of scryptn), whatever lengths
\* the host passes.
NoUndefinedCall == ~last.ub

\* Spec 3 (lifecycle): nothing in the core has heap lifetime beyond the
\* call; after every verushash_export returns, no CVerusHashV2 is left.
NoHeapBeyondCall == live = 0
=============================================================================
