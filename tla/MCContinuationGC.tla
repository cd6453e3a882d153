------------------------- MODULE MCContinuationGC -------------------------
(* Two domains, four stack segments and two continuation blocks.           *)
EXTENDS ContinuationGC, TLC

CONSTANTS d1, d2, s1, s2, s3, s4, c1, c2

MCDomains == {d1, d2}
MCStacks == {s1, s2, s3, s4}
MCConts == {c1, c2}

\* Domains, segments and continuation blocks are told apart only by
\* identity.
Symm == Permutations(MCDomains) \cup Permutations(MCStacks)
          \cup Permutations(MCConts)
=============================================================================
