--------------------------- MODULE MCFiberStacks ---------------------------
(* Model-checking instance of FiberStacks: two domains, two continuation *)
(* blocks, four memory blocks and one local arena block, with             *)
(* caml_fiber_wsz = 1.                                                     *)
EXTENDS FiberStacks, TLC

CONSTANTS d1, d2, s1, s2, s3, s4, c1, c2, a1

MCDomains == {d1, d2}
MCStacks == {s1, s2, s3, s4}
MCConts == {c1, c2}
\* One caml_local_arenas block: once freed it can be handed to another
\* stack, so a stale owner would share it.
MCArenas == {a1}

\* Memory blocks and continuation blocks are interchangeable: no action
\* or property tells two of them apart except by identity.
Symm == Permutations(MCStacks) \cup Permutations(MCConts)
=============================================================================
