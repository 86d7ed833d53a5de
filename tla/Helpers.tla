------------------------------- MODULE Helpers -------------------------------
(***************************************************************************)
(* The helpers of std/sys-src/helpers: mul_div_u64 on words of `Bits` bits, *)
(* run_with_cstr with its buffer on the stack, ignore_notfound, and the    *)
(* iterator WStrUnits over a string that ends with a NUL.                  *)
(***************************************************************************)
EXTENDS Integers, Sequences

CONSTANTS
  Bits,                  \* 64
  MAX_STACK_ALLOCATION,  \* the size of the buffer on the stack
  Strings                \* byte strings, as sequences of "nul" and "byte"

HelpersAssumption ==
  /\ Bits \in Nat \ {0}
  /\ MAX_STACK_ALLOCATION \in Nat \ {0}
  /\ Strings \subseteq Seq({"nul", "byte"})

VARIABLES
  input,   \* the arguments of the call
  output,  \* what it returned
  buf,     \* the buffer on the stack, once it is in use
  lpwstr   \* where in a string of 16-bit units the iterator is

vars == <<input, output, buf, lpwstr>>

Word == 0 .. 2^Bits - 1
(* What a call has returned, as a sequence. *)
None == <<>>
NUL_ERR == <<"nul_err">>
Uninit == "uninit"

Init ==
  /\ \/ input \in [value : Word, numerator : Word, denom : Word \ {0}]
     \/ \E s \in Strings : input = [bytes |-> s]
     \/ \E s \in Strings : input = [units |-> Append(s, "nul")]
     \/ \E r \in {"ok", "not_found", "other"} : input = [result |-> r]
  /\ output = None
  /\ buf = <<>>
  /\ lpwstr = 1

(* Mutant: the obvious formula. *)
MulDivPlain(value, numerator, denom) == ((value * numerator) % 2^Bits) \div denom

(* Every product and sum wraps. *)
mul_div_u64(value, numerator, denom) ==
  LET q == value \div denom
      r == value % denom
      part == (r * numerator) % 2^Bits
  IN  (q * numerator + part \div denom) % 2^Bits

MulDiv ==
  /\ output = None /\ DOMAIN input = {"value", "numerator", "denom"}
  /\ output' = <<mul_div_u64(input.value, input.numerator, input.denom)>>
  /\ UNCHANGED <<input, buf, lpwstr>>

(* CStr::from_bytes_with_nul: the only NUL is the last byte. *)
IsCStr(bytes) == \A k \in DOMAIN bytes : bytes[k] = "nul" <=> k = Len(bytes)

OnStack(bytes) == Len(bytes) < MAX_STACK_ALLOCATION

(* run_with_cstr_stack: the closure is given the front of the buffer. *)
RunOnStack ==
  /\ output = None /\ DOMAIN input = {"bytes"} /\ OnStack(input.bytes)
  /\ buf' = input.bytes \o <<"nul">> \o [k \in 1 .. MAX_STACK_ALLOCATION - Len(input.bytes) - 1 |-> Uninit]
  /\ LET s == SubSeq(buf', 1, Len(input.bytes) + 1)
     IN  output' = IF IsCStr(s) THEN s ELSE NUL_ERR
  /\ UNCHANGED <<input, lpwstr>>

(* run_with_cstr_allocating: CString::new refuses any NUL. *)
RunAllocating ==
  /\ output = None /\ DOMAIN input = {"bytes"} /\ ~OnStack(input.bytes)
  /\ output' = IF \E k \in DOMAIN input.bytes : input.bytes[k] = "nul" THEN NUL_ERR
               ELSE input.bytes \o <<"nul">>
  /\ UNCHANGED <<input, buf, lpwstr>>

ignore_notfound ==
  /\ output = None /\ DOMAIN input = {"result"}
  /\ output' = <<IF input.result = "other" THEN "other" ELSE "ok">>
  /\ UNCHANGED <<input, buf, lpwstr>>

(* WStrUnits::peek. *)
peek(at) == IF input.units[at] = "nul" THEN None ELSE <<input.units[at]>>

(* Where next leaves the pointer. *)
next(at) == IF peek(at) = None THEN at ELSE at + 1

NextUnit ==
  /\ DOMAIN input = {"units"}
  /\ output' = peek(lpwstr)
  /\ lpwstr' = next(lpwstr)
  /\ UNCHANGED <<input, buf>>

(* One round of advance_while: the predicate may be anything. *)
AdvanceWhile ==
  /\ DOMAIN input = {"units"}
  /\ peek(lpwstr) # None
  /\ lpwstr' = next(lpwstr)
  /\ UNCHANGED <<input, output, buf>>

Next == MulDiv \/ RunOnStack \/ RunAllocating \/ ignore_notfound \/ NextUnit \/ AdvanceWhile

Spec == Init /\ [][Next]_vars

-----------------------------------------------------------------------------
(* The doc comment of mul_div_u64: the result is exact as long as both     *)
(* `numerator*denom` and the overall result fit into the word.             *)
MulDivExact ==
  DOMAIN input = {"value", "numerator", "denom"} /\ output # None =>
    LET exact == (input.value * input.numerator) \div input.denom
    IN  input.numerator * input.denom \in Word /\ exact \in Word => output = <<exact>>

(* A closure gets its string with a NUL behind it and none in it, whether  *)
(* it is short or long; the buffer is never written beyond its end.        *)
CStrWhole ==
  DOMAIN input = {"bytes"} /\ output # None =>
    /\ Len(buf) <= MAX_STACK_ALLOCATION
    /\ output = IF \E k \in DOMAIN input.bytes : input.bytes[k] = "nul" THEN NUL_ERR
                ELSE Append(input.bytes, "nul")

(* "we don't ever move out of the array's bounds": the pointer never goes  *)
(* past the first NUL, however often next is called behind the end.        *)
UnitsInside ==
  DOMAIN input = {"units"} =>
    lpwstr \in DOMAIN input.units /\ \A k \in 1 .. lpwstr - 1 : input.units[k] # "nul"

(* The helpers do what their comments say, up to the limits of words,      *)
(* buffers and strings.                                                    *)
HelpersExact == MulDivExact /\ CStrWhole /\ UnitsInside
=============================================================================
