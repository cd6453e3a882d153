------------------------ MODULE OneShotContinuations ------------------------
(***************************************************************************)
(* What the continuation operations of runtime/fiber.c promise, stated     *)
(* with atomic steps: the slot Field(cont, 0) of a continuation is filled  *)
(* only when empty, with the capturing domain's current stack (perform,    *)
(* caml_continuation_replace); and it is emptied only by a take that hands *)
(* the value the slot holds at that moment to the taking domain, which     *)
(* runs it (resume) or releases it (drop).  Every other step of a domain   *)
(* changes only that domain's current stack.                               *)
(*                                                                         *)
(* caml_continuation_use_noexc reads the slot and writes it later; it      *)
(* implements this specification when the write behaves as if the read    *)
(* and the write were one step.                                            *)
(***************************************************************************)
CONSTANTS Domains, Conts, Stacks, NULL

VARIABLES
  cont,  \* cont[c]: the stack held by continuation c, or NULL
  top    \* top[d]: the current stack of domain d, or NULL

vars == <<cont, top>>

Seg == Stacks \cup {NULL}

\* Domain d's current stack becomes s; no continuation changes.
SetTop(d, s) == top' = [top EXCEPT ![d] = s]

Init ==
  /\ cont = [c \in Conts |-> NULL]
  /\ top \in [Domains -> Seg]

\* An empty continuation takes the stack domain d runs on; d goes on
\* with some other stack.
Capture(d, c) ==
  /\ cont[c] = NULL
  /\ top[d] # NULL
  /\ cont' = [cont EXCEPT ![c] = top[d]]
  /\ \E s \in Seg : SetTop(d, s)

\* Domain d takes the stack now in c and runs it.
TakeResume(d, c) ==
  /\ cont[c] # NULL
  /\ cont' = [cont EXCEPT ![c] = NULL]
  /\ SetTop(d, cont[c])

\* Domain d takes the stack now in c and releases it.
TakeDrop(d, c) ==
  /\ cont[c] # NULL
  /\ cont' = [cont EXCEPT ![c] = NULL]
  /\ UNCHANGED top

\* Any other step of domain d.
Run(d) ==
  /\ UNCHANGED cont
  /\ \E s \in Seg : SetTop(d, s)

Next ==
  \E d \in Domains :
    \/ Run(d)
    \/ \E c \in Conts : Capture(d, c) \/ TakeResume(d, c) \/ TakeDrop(d, c)

Spec == Init /\ [][Next]_vars

=============================================================================
