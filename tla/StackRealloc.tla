---------------------------- MODULE StackRealloc ----------------------------
(***************************************************************************)
(* The arithmetic of caml_try_realloc_stack (heap backend) in the widths   *)
(* of its C types: stack_used is an int, the sizes and required_space are  *)
(* asize_t.  The distance Stack_high - sp is converted to int modulo       *)
(* 2^IntBits (what the compilers the runtime is built with do); in         *)
(* stack_used + required_space and in stack_used * sizeof(value) the int   *)
(* is converted to the unsigned type, modulo 2^Width.  The outcome is      *)
(* compared with the same function computed on the true word count.        *)
(*                                                                         *)
(* The widths are scaled down together (IntBits < Width), as are the       *)
(* sizes: what matters is whether a stack reaches 2^(IntBits-1) words.     *)
(***************************************************************************)
EXTENDS Integers

CONSTANTS
  Width,       \* bits of asize_t / uintnat
  IntBits,     \* bits of int
  WordBytes,   \* sizeof(value)
  Sizes,       \* Stack_high - Stack_base of the stack being grown
  Requests,    \* required_space
  MaxWsizes    \* caml_max_stack_wsize

ASSUME IntBits < Width

\* Conversion of a pointer difference to int, and of a value to asize_t.
ToInt(x) == LET m == x % 2^IntBits
            IN IF m >= 2^(IntBits - 1) THEN m - 2^IntBits ELSE m
ToU(x) == x % 2^Width

\* The do-while loop of lines 844-848 in asize_t arithmetic; 0 stands for
\* "return 0".  fuel bounds the iterations: a size that doubles Width
\* times has wrapped around.
RECURSIVE GrowLoop(_, _, _, _)
GrowLoop(w, need, max, fuel) ==
  IF w >= max \/ fuel = 0 THEN 0
  ELSE IF ToU(2 * w) < need THEN GrowLoop(ToU(2 * w), need, max, fuel - 1)
  ELSE ToU(2 * w)

\* stack_used + required_space, the int converted to asize_t.
NeedWords(stackUsed, req) == ToU(stackUsed + req)

VARIABLES
  wsize, used, req, maxw,   \* the input: the stack, its true used words
  allocOk,                  \* whether caml_alloc_stack_noexc succeeds
  result,                   \* the outcome once the function has returned
  pc                        \* "call", "fits" or "returned"

vars == <<wsize, used, req, maxw, allocOk, result, pc>>

Init ==
  /\ wsize \in Sizes /\ used \in 0 .. wsize
  /\ req \in Requests /\ maxw \in MaxWsizes
  /\ allocOk \in BOOLEAN
  /\ result = [ok |-> FALSE, wsize |-> 0, copied |-> 0, spOff |-> 0]
  /\ pc = "call"

\* caml_ensure_stack_capacity (bytecode) when sp - req >= Stack_base: the
\* space is there and nothing is done.
EnsureStackCapacityFits ==
  /\ pc = "call" /\ wsize - used >= req
  /\ pc' = "fits"
  /\ UNCHANGED <<wsize, used, req, maxw, allocOk, result>>

\* caml_try_realloc_stack(req), called when the free words are fewer than
\* req: from caml_ensure_stack_capacity, from caml_maybe_expand_stack, and
\* from a function prologue (caml_call_realloc_stack).  A 0 result raises
\* Stack_overflow in each of them.  The new size, the words memcpy moves and
\* Stack_high(new_stack) - new_stack->sp; ok is FALSE when 0 is returned.
TryRealloc ==
  /\ pc = "call" /\ wsize - used < req
  /\ LET stackUsed == ToInt(used)
         w == GrowLoop(wsize, NeedWords(stackUsed, req), maxw, Width)
     IN result' =
          IF w = 0 \/ ~allocOk
          THEN [ok |-> FALSE, wsize |-> 0, copied |-> 0, spOff |-> 0]
          ELSE [ok |-> TRUE, wsize |-> w,
                copied |-> ToU(stackUsed * WordBytes) \div WordBytes,
                spOff |-> stackUsed]
  /\ pc' = "returned"
  /\ UNCHANGED <<wsize, used, req, maxw, allocOk>>

Done == pc \in {"fits", "returned"} /\ UNCHANGED vars

Next == EnsureStackCapacityFits \/ TryRealloc \/ Done

Spec == Init /\ [][Next]_vars

(***************************************************************************)
(* Properties.                                                             *)
(***************************************************************************)

\* The size the loop would give on the true word count, without wrapping.
RECURSIVE Ideal(_, _, _)
Ideal(w, need, max) ==
  IF w >= max THEN 0 ELSE IF 2 * w < need THEN Ideal(2 * w, need, max) ELSE 2 * w

\* caml_try_realloc_stack does what its callers rely on: when it succeeds,
\* the new stack holds the used words and the required space, memcpy moved
\* exactly the used words and sp lies that many words below Stack_high;
\* it fails only when the allocation fails or when the limit stops the
\* doubling before the used words and the required space fit.
ReallocSound ==
  pc = "returned" =>
    IF result.ok
    THEN /\ result.wsize >= used + req
         /\ result.copied = used
         /\ result.spOff = used
    ELSE ~allocOk \/ Ideal(wsize, used + req, maxw) = 0

=============================================================================
