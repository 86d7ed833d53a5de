------------------------------- MODULE Leb128 -------------------------------
(***************************************************************************)
(* DwarfReader::read_uleb128 and read_sleb128 of std/sys-src/personality/  *)
(* dwarf/mod.rs: numbers in groups of bits, lowest first, where the top    *)
(* bit of a byte says that another one follows.  The widths of a group and *)
(* of the result are parameters; in the code they are 7 and 64.            *)
(***************************************************************************)
EXTENDS Integers, Sequences, FiniteSetsExt

CONSTANTS
  GROUP,  \* bits of the number in a byte
  BITS    \* bits of the result, u64::BITS

WidthsAssumption == GROUP \in Nat \ {0} /\ BITS \in Nat /\ BITS > GROUP

(* A byte, as every word, is the set of its bits that are 1: it holds a group
   and, above it, the continuation bit.  A number takes as many bytes as hold
   BITS bits at most: a shift by more is not defined. *)
Byte == SUBSET (0..GROUP)
Word == SUBSET (0..BITS - 1)
MaxBytes == (BITS + GROUP - 1) \div GROUP
group(byte) == byte \cap 0..GROUP - 1
more(byte) == GROUP \in byte
negative(byte) == GROUP - 1 \in byte

VARIABLES
  stream,  \* the bytes at the reader's pointer; the last ends a number
  signed,  \* read_sleb128 or read_uleb128
  ptr,     \* bytes that have been read
  shift, result,
  pc       \* "loop" or "done"

vars == <<stream, signed, ptr, shift, result, pc>>

(* What a compiler writes: a number, and behind it something else. *)
Numbers(n) == {s \in [1..n -> Byte] : \A i \in 1..n : more(s[i]) = (i < n)}

Init ==
  /\ \E n \in 1..MaxBytes : \E s \in Numbers(n), rest \in {{}, 0..GROUP} :
       stream = Append(s, rest)
  /\ signed \in BOOLEAN
  /\ ptr = 0 /\ shift = 0 /\ result = {}
  /\ pc = "loop"

(* word | bits << by: bits shifted out of the word are lost. *)
Or(word, bits, by) == word \cup {p \in 0..BITS - 1 : p - by \in bits}

(* Mutant: a number that fills the word is extended as well, where the shift
   of the processor starts again from 0. *)
SignExtendFull(word, byte, by) ==
  IF negative(byte) THEN Or(word, 0..BITS - 1, by % BITS) ELSE word

SignExtend(word, byte, by) ==
  IF by < BITS /\ negative(byte) THEN Or(word, 0..BITS - 1, by) ELSE word

(* One turn of the loop, the last one with the extension of the sign. *)
ReadByte ==
  /\ pc = "loop"
  /\ ptr' = ptr + 1
  /\ shift' = shift + GROUP
  /\ LET byte == stream[ptr + 1]
         word == Or(result, group(byte), shift)
     IN  IF more(byte) THEN result' = word /\ UNCHANGED pc
         ELSE /\ result' = IF signed THEN SignExtend(word, byte, shift') ELSE word
              /\ pc' = "done"
  /\ UNCHANGED <<stream, signed>>

Next == ReadByte

Spec == Init /\ [][Next]_vars
-----------------------------------------------------------------------------
Length == Min({i \in DOMAIN stream : ~more(stream[i])})

(* The bits of the number that the bytes stand for, which has no last one if
   it is negative: bit b of byte k is the bit GROUP * (k - 1) + b. *)
Unsigned(k) == {p \in Nat : \E j \in 1..k : p - GROUP * (j - 1) \in group(stream[j])}
Sign == {p \in Nat : GROUP * Length <= p /\ signed /\ negative(stream[Length])}
Meaning == Unsigned(Length) \cup Sign

(* The reader never leaves the number and stops exactly behind it. *)
StopsBehind == ptr \in 0..Length /\ (pc = "done" => ptr = Length)

(* The result is the number that was written, in two's complement, for every
   length up to the one that fills the word and is cut off by it, and the
   reader stops exactly behind it. *)
LebExact ==
  /\ StopsBehind
  /\ result \in Word
  /\ pc = "done" => \A p \in 0..BITS - 1 : p \in result <=> p \in Meaning
=============================================================================
