------------------------------- MODULE Syscall -------------------------------
(***************************************************************************)
(* System calls as a program makes them: the derive macro of               *)
(* abi/macros/src/lib.rs turns each variant of `enum Syscall` into a       *)
(* function, which passes the number of the call and its arguments to one  *)
(* of the drivers syscall0 .. syscall6 of abi/src/userspace/x86_64.rs.     *)
(* There is no handler in the kernel yet: what it could receive is what    *)
(* the registers hold after the instruction.                               *)
(***************************************************************************)
EXTENDS Integers, Sequences

CONSTANTS
  Enums,      \* enums to derive for: sequences of variants
  Words       \* values of arguments

(* A variant: whether it is a unit, its discriminant, and the number of    *)
(* arguments in each of its args(..) attributes.                           *)
Variant == [unit : BOOLEAN, number : Nat, attrs : Seq(Nat)]
EnumsAssumption == Enums \subseteq Seq(Variant)

VARIABLES
  data,       \* the enum
  pc,         \* "derive", "ready", "syscall", "kernel", or the compile error
  functions,  \* what has been derived: number of the call, arity, driver
  call,       \* the function called and its arguments
  regs        \* what the program has put into registers

vars == <<data, pc, functions, call, regs>>

Registers == {"rax", "rdi", "rsi", "rdx", "r10", "r8", "r9", "rcx", "r11"}
Unspecified == -1
NoCall == [function |-> 0, args |-> <<>>]

Init ==
  /\ data \in Enums
  /\ pc = "derive"
  /\ functions = <<>>
  /\ call = NoCall
  /\ regs = [r \in Registers |-> Unspecified]

(* The match on args.len(). *)
driver(n) == IF n <= 5 THEN n ELSE Unspecified

(* One round of the loop of `execute`. *)
Derive ==
  LET variant == data[Len(functions) + 1]
      n == IF variant.attrs = <<>> THEN 0 ELSE variant.attrs[1]
      function == [number |-> variant.number, arity |-> n, driver |-> driver(n)]
  IN  /\ pc = "derive" /\ Len(functions) < Len(data)
      /\ CASE ~variant.unit -> pc' = "only unit-variant" /\ UNCHANGED functions
           [] variant.unit /\ Len(variant.attrs) > 1 -> pc' = "duplicate args" /\ UNCHANGED functions
           [] variant.unit /\ Len(variant.attrs) <= 1 /\ driver(n) = Unspecified ->
                pc' = "too many arguments" /\ UNCHANGED functions
           [] OTHER -> functions' = Append(functions, function) /\ UNCHANGED pc
      /\ UNCHANGED <<data, call, regs>>

Derived ==
  /\ pc = "derive" /\ Len(functions) = Len(data)
  /\ pc' = "ready"
  /\ UNCHANGED <<data, functions, call, regs>>

(* Mutant: the order of a call in C. *)
ArgumentRegistersC == <<"rdi", "rsi", "rdx", "rcx", "r8", "r9">>

ArgumentRegisters == <<"rdi", "rsi", "rdx", "r10", "r8", "r9">>

(* A derived function and its driver: registers that asm! does not name    *)
(* hold anything.                                                          *)
Enter(f, args) ==
  LET In(r) == {k \in 1 .. functions[f].driver : ArgumentRegisters[k] = r}
  IN  /\ pc = "ready"
      /\ pc' = "syscall"
      /\ call' = [function |-> f, args |-> args]
      /\ regs' = [r \in Registers |->
                    CASE r = "rax" -> functions[f].number
                      [] r # "rax" /\ In(r) # {} -> args[CHOOSE k \in In(r) : TRUE]
                      [] OTHER -> Unspecified]
      /\ UNCHANGED <<data, functions>>

(* The instruction: rip goes to rcx, the flags go to r11. *)
Instruction ==
  /\ pc = "syscall"
  /\ pc' = "kernel"
  /\ regs' = [regs EXCEPT !["rcx"] = Unspecified, !["r11"] = Unspecified]
  /\ UNCHANGED <<data, functions, call>>

(* The result comes back in rax; the registers that asm! only reads are    *)
(* taken to be as they were.                                               *)
Return ==
  /\ pc = "kernel"
  /\ pc' = "ready"
  /\ \E w \in Words : regs' = [regs EXCEPT !["rax"] = w]
  /\ call' = NoCall
  /\ UNCHANGED <<data, functions>>

Next ==
  \/ Derive \/ Derived \/ Instruction \/ Return
  \/ \E f \in DOMAIN functions : \E args \in [1 .. functions[f].arity -> Words] : Enter(f, args)

Spec == Init /\ [][Next]_vars

-----------------------------------------------------------------------------
(* For any enum that the macro accepts: behind the instruction every       *)
(* argument is still in a register, the number of the call is the          *)
(* discriminant of the variant that was called, and calls that differ can  *)
(* be told apart; an enum is accepted only if every variant can be called  *)
(* with as many arguments as its attribute names.                          *)
ArgumentsSurvive ==
  /\ pc = "kernel" =>
       /\ regs["rax"] = data[call.function].number
       /\ \A k \in DOMAIN call.args : regs[ArgumentRegisters[k]] = call.args[k]
  /\ pc = "ready" =>
       /\ Len(functions) = Len(data)
       /\ \A k \in DOMAIN data :
            data[k].unit /\ data[k].attrs \in {<<>>, <<functions[k].arity>>}
=============================================================================
