----------------------------- MODULE FrameScan -----------------------------
(***************************************************************************)
(* The native root scan of a domain's stacks (caml_scan_stack and          *)
(* scan_stack_frames): for each stack of the chain from the current one    *)
(* through Stack_parent, the frames are walked from sp to Stack_high; each *)
(* frame's descriptor lists its live roots, a stack slot (even offset) or  *)
(* a saved register (odd offset, read from regs).  A frame that returns to *)
(* C ends a chunk of OCaml frames: regs becomes the gc_regs saved in the   *)
(* stack header of the callback, which is skipped.  Then the stack's       *)
(* handlers are scanned and the walk goes on with the parent stack, again  *)
(* starting from the gc_regs argument.                                     *)
(*                                                                         *)
(* A stack is a sequence of chunks, a chunk a sequence of frame            *)
(* descriptors (innermost first), each the set of its live stack slots and *)
(* registers.  Only the innermost frame of a chunk can hold registers (the *)
(* allocation point where the GC or a callback was entered); every other   *)
(* frame is at a call, where the compiler keeps no value in a register.    *)
(* The innermost chunk of a parent stack is suspended at a call as well.   *)
(* visit is modelled by the set of root locations it is called on.         *)
(***************************************************************************)
EXTENDS Integers, Sequences

CONSTANTS
  Slots,       \* stack slot offsets a descriptor can list
  Regs,        \* register numbers a descriptor can list
  MaxFrames,   \* frames per chunk
  MaxChunks,   \* chunks per stack
  MaxStacks    \* stacks on the chain

\* Descriptors at an allocation point and at a call.
TopFrames  == [slots : SUBSET Slots, regs : SUBSET Regs]
CallFrames == [slots : SUBSET Slots, regs : {{}}]

\* Chunks whose innermost frame is one of tops.
ChunksWith(tops) ==
  UNION {{<<t>> \o r : t \in tops, r \in [1 .. n -> CallFrames]} :
           n \in 0 .. MaxFrames - 1}

\* The stacks of a chain: the first chunk of a parent starts at a call.
StacksWith(firstTops) ==
  UNION {{<<c>> \o r : c \in ChunksWith(firstTops),
                       r \in [1 .. n -> ChunksWith(TopFrames)]} :
           n \in 0 .. MaxChunks - 1}

Chains ==
  UNION {{<<s>> \o r : s \in StacksWith(TopFrames),
                       r \in [1 .. n -> StacksWith(CallFrames)]} :
           n \in 0 .. MaxStacks - 1}

\* Register files: the gc_regs argument, or the one saved in the header
\* that follows chunk c of stack s.
GC == <<0, 0>>

\* A root location: <<s, c, f, i>> is slot i of frame f of chunk c of
\* stack s; <<0, s, c, r>> is register r of a register file; <<-1, s, 0, 0>>
\* stands for the handler fields of stack s.
FrameRoots(chain, s, c, f, file) ==
  LET fr == chain[s][c][f]
  IN {<<s, c, f, i>> : i \in fr.slots} \cup {<<0, file[1], file[2], r>> : r \in fr.regs}
HandlerRoots(s) == {<<-1, s, 0, 0>>}

VARIABLES
  chain,   \* the stacks, from Caml_state->current_stack outwards (input)
  si,      \* the stack being scanned
  ci,      \* its chunk
  fi,      \* the frame (sp)
  regs,    \* the register file roots with odd offsets are read from
  found,   \* the locations visit has been called on
  pc       \* "walk" or "done"

vars == <<chain, si, ci, fi, regs, found, pc>>

Init ==
  /\ chain \in Chains
  /\ si = 1 /\ ci = 1 /\ fi = 1
  /\ regs = GC
  /\ found = {}
  /\ pc = "walk"

Chunk == chain[si][ci]

\* One frame that does not return to C: visit each live root; move on.
ScanFrame ==
  /\ pc = "walk" /\ ci <= Len(chain[si]) /\ fi <= Len(Chunk)
  /\ found' = found \cup FrameRoots(chain, si, ci, fi, regs)
  /\ fi' = fi + 1
  /\ UNCHANGED <<chain, si, ci, regs, pc>>

\* Mutant of ReturnToC: regs is not updated from the stack header.
ReturnToCKeepRegs ==
  /\ pc = "walk" /\ ci <= Len(chain[si]) /\ fi = Len(Chunk) + 1
  /\ ci' = ci + 1 /\ fi' = 1
  /\ UNCHANGED <<chain, si, regs, found, pc>>

\* Mutant of ReturnToC: sp is not moved past the stack header.
ReturnToCNoSkip ==
  /\ pc = "walk" /\ ci <= Len(chain[si]) /\ fi = Len(Chunk) + 1
  /\ regs' = <<si, ci>>
  /\ UNCHANGED <<chain, si, ci, fi, found, pc>>

\* A frame returning to C: regs = Saved_gc_regs(sp), skip the header and
\* go to the next chunk.
ReturnToC ==
  /\ pc = "walk" /\ ci <= Len(chain[si]) /\ fi = Len(Chunk) + 1
  /\ regs' = <<si, ci>>
  /\ ci' = ci + 1 /\ fi' = 1
  /\ UNCHANGED <<chain, si, found, pc>>

\* sp == Stack_high: the stack's frames are done; caml_scan_stack scans
\* the handler fields (and the local allocations, see LocalScan) and goes
\* on with the parent, passing gc_regs again.
NextStack ==
  /\ pc = "walk" /\ ci = Len(chain[si]) + 1
  /\ found' = found \cup HandlerRoots(si)
  /\ si' = si + 1 /\ ci' = 1 /\ fi' = 1
  /\ regs' = GC
  /\ pc' = IF si = Len(chain) THEN "done" ELSE "walk"
  /\ UNCHANGED chain

Done == pc = "done" /\ UNCHANGED vars

Next == ScanFrame \/ ReturnToC \/ NextStack \/ Done

\* The scan is a loop the collector runs without waiting: weak fairness.
Spec == Init /\ [][Next]_vars /\ WF_vars(Next)

(***************************************************************************)
(* Properties.                                                             *)
(***************************************************************************)

\* The register file holding the registers of chunk c of stack s: the
\* gc_regs of the GC entry for the innermost chunk of the current stack,
\* the one saved when the chunk above it entered C otherwise.
RegFile(s, c) == IF c = 1 THEN GC ELSE <<s, c - 1>>

Expected ==
  UNION {UNION {UNION {FrameRoots(chain, s, c, f, RegFile(s, c)) :
                         f \in DOMAIN chain[s][c]} :
                  c \in DOMAIN chain[s]} \cup HandlerRoots(s) :
           s \in DOMAIN chain}

\* Every location visit is called on is a live root of some frame, with a
\* register root read from the register file of its own chunk, and when
\* the scan is over every live root of every frame of every stack on the
\* chain has been visited.
RootsExact ==
  /\ found \subseteq Expected
  /\ pc = "done" => found = Expected

\* Every scan ends.
ScanTerminates == <>(pc = "done")

=============================================================================
