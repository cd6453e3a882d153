---------------------------- MODULE StackGrowth ----------------------------
(***************************************************************************)
(* Growing the current stack (caml_try_realloc_stack, native code, heap    *)
(* backend) and the pointers into it that must be moved with it.           *)
(*                                                                         *)
(* Addresses are integers.  The k-th segment obtained from the allocator   *)
(* lives at Base(k) .. Base(k) + size - 1 and Stack_high is Base(k) + size; *)
(* a grown stack always gets fresh memory, so a pointer that was not moved *)
(* is recognisably a pointer into freed memory.  A stack word holds an     *)
(* address or OUT (a pointer that leaves the stack: NULL, a C frame, a     *)
(* parent fiber).  Words are one of:                                       *)
(*  - a trap frame, holding the previous Caml_state->exn_handler;          *)
(*  - a saved frame pointer, holding the previous frame pointer.           *)
(* The C stack is the sequence `links` of struct c_stack_link, innermost   *)
(* last; each records the OCaml stack and sp of the last switch to C, the  *)
(* async exception handler saved by caml_start_program, and the frame     *)
(* pointer record pushed below it (fp->prev).                              *)
(*                                                                         *)
(* The OCaml code, caml_c_call, caml_start_program and the switches        *)
(* between the stacks are in the assembly runtime; they are modelled from  *)
(* what fiber.c relies on (its assertions and comments).                   *)
(***************************************************************************)
EXTENDS Integers, Sequences, FiniteSets

CONSTANTS
  InitWsz,        \* usable words of the initial stack
  InitMax,        \* initial caml_max_stack_wsize
  MaxChoices,     \* values a program may pass to caml_change_max_stack_size
  StackThreshold, \* Stack_threshold / sizeof(value): words OCaml code keeps free
  StackNeeded,    \* stack_needed of caml_maybe_expand_stack
  MaxReq,         \* bound on the required_space of a prologue realloc
  MaxRegions,     \* bound on the segments allocated (allocation fails after)
  MaxLinks,       \* bound on the nesting of callbacks
  Span            \* distance between two segments' base addresses

OUT == -1
NONE == 0   \* link->stack before the first switch to C

Base(k) == k * Span

VARIABLES
  cur,    \* index of the current segment (Caml_state->current_stack)
  size,   \* its usable words: Stack_high - Stack_base
  sp,     \* its sp
  mem,    \* mem[a]: the word at address a of the current segment
  exn,    \* Caml_state->exn_handler
  async,  \* Caml_state->async_exn_handler
  fp,     \* the frame pointer register while OCaml code runs
  links,  \* Caml_state->c_stack and its prev links, outermost first
  inC,    \* whether C code is running (on the C stack)
  maxw    \* caml_max_stack_wsize

vars == <<cur, size, sp, mem, exn, async, fp, links, inC, maxw>>

High == Base(cur) + size
Used == sp .. High - 1
Top == links[Len(links)]

(***************************************************************************)
(* caml_try_realloc_stack and caml_rewrite_exception_stack, as functions   *)
(* from the state before to the state after.                               *)
(***************************************************************************)

\* The doubling loop; 0 means "return 0".
RECURSIVE GrowWsize(_, _, _)
GrowWsize(wsize, need, max) ==
  IF wsize >= max THEN 0
  ELSE IF 2 * wsize < need THEN GrowWsize(2 * wsize, need, max)
  ELSE 2 * wsize

\* Mutant of RewriteFrom: the async handler is not moved along with the
\* trap frame it points at.
RECURSIVE RewriteFromKeepAsync(_, _, _, _, _)
RewriteFromKeepAsync(loc, st, oldBase, oldHigh, newHigh) ==
  LET v == st.mem[loc]
  IN IF oldBase < v /\ v <= oldHigh
     THEN LET nv == newHigh - (oldHigh - v)
          IN RewriteFromKeepAsync(nv, [st EXCEPT !.mem[loc] = nv],
                                  oldBase, oldHigh, newHigh)
     ELSE st

\* The loop of caml_rewrite_exception_stack from the stack word at loc
\* (already in the new stack); st carries mem and the async pointer.
RECURSIVE RewriteFrom(_, _, _, _, _)
RewriteFrom(loc, st, oldBase, oldHigh, newHigh) ==
  LET v == st.mem[loc]
  IN IF oldBase < v /\ v <= oldHigh
     THEN LET nv == newHigh - (oldHigh - v)
          IN RewriteFrom(nv,
               [mem |-> [st.mem EXCEPT ![loc] = nv],
                async |-> IF v = st.async THEN nv ELSE st.async],
               oldBase, oldHigh, newHigh)
     ELSE st

\* caml_rewrite_exception_stack: first Caml_state->exn_handler, then the
\* trap frames it leads to while they lie in the old stack.
RewriteExceptionStack(m, e, a, oldBase, oldHigh, newHigh) ==
  IF oldBase < e /\ e <= oldHigh
  THEN LET ne == newHigh - (oldHigh - e)
           st == RewriteFrom(ne, [mem |-> m, async |-> IF e = a THEN ne ELSE a],
                             oldBase, oldHigh, newHigh)
       IN [exn |-> ne, mem |-> st.mem, async |-> st.async]
  ELSE [exn |-> e, mem |-> m, async |-> a]

\* The frame-pointer loop for one link, from the stack word at loc.
RECURSIVE FixFramePointers(_, _, _, _, _)
FixFramePointers(loc, m, oldBase, oldHigh, delta) ==
  LET v == m[loc]
  IN IF oldBase <= v /\ v < oldHigh
     THEN FixFramePointers(v + delta, [m EXCEPT ![loc] = v + delta],
                           oldBase, oldHigh, delta)
     ELSE m

\* Mutant of FixLinks: only Caml_state->c_stack is visited, not its prev links.
FixLinksInnermost(i, ls, m, new, oldBase, oldHigh, delta) ==
  LET l      == ls[i]
      onOld  == l.stack = cur
      fpMove == onOld /\ oldBase <= l.fpPrev /\ l.fpPrev < oldHigh
  IN [links |-> [ls EXCEPT ![i] =
                   [l EXCEPT !.fpPrev = IF fpMove THEN @ + delta ELSE @,
                             !.stack  = IF onOld THEN new ELSE @,
                             !.sp     = IF onOld THEN @ + delta ELSE @,
                             !.async  = IF oldBase <= @ /\ @ < oldHigh
                                        THEN @ + delta ELSE @]],
      mem |-> IF fpMove THEN FixFramePointers(l.fpPrev + delta, m,
                                              oldBase, oldHigh, delta)
              ELSE m]

\* The c_stack loop, innermost link first: a link on the old stack gets
\* its frame-pointer chain, stack and sp moved by delta (the distance
\* between the two Stack_high); an async handler pointer into the old stack
\* is moved whatever stack the link is on.
RECURSIVE FixLinks(_, _, _, _, _, _, _)
FixLinks(i, ls, m, new, oldBase, oldHigh, delta) ==
  IF i = 0 THEN [links |-> ls, mem |-> m]
  ELSE
    LET l      == ls[i]
        onOld  == l.stack = cur
        fpMove == onOld /\ oldBase <= l.fpPrev /\ l.fpPrev < oldHigh
        l2 == [l EXCEPT !.fpPrev = IF fpMove THEN @ + delta ELSE @,
                        !.stack  = IF onOld THEN new ELSE @,
                        !.sp     = IF onOld THEN @ + delta ELSE @,
                        !.async  = IF oldBase <= @ /\ @ < oldHigh
                                   THEN @ + delta ELSE @]
    IN FixLinks(i - 1, [ls EXCEPT ![i] = l2],
                IF fpMove THEN FixFramePointers(l.fpPrev + delta, m,
                                                oldBase, oldHigh, delta)
                ELSE m,
                new, oldBase, oldHigh, delta)

\* Mutant of NewSp: the new stack keeps the old stack's sp.
NewSpUnmoved(newHigh, used) == sp

\* new_stack->sp = Stack_high(new_stack) - stack_used
NewSp(newHigh, used) == newHigh - used

\* caml_try_realloc_stack(required) on the heap backend: the size doubles
\* until the used words and the required space fit, failing once it has
\* reached caml_max_stack_wsize or when no memory is left; the used words
\* are copied to the top of the new stack, the pointers into the old stack
\* are moved, the old stack is freed and the new one becomes current.
\* The result is the new state; ok is FALSE when 0 is returned.
TryReallocStack(required) ==
  LET used    == High - sp
      wsize   == GrowWsize(size, used + required, maxw)
      new     == cur + 1
      newHigh == Base(new) + wsize
      delta   == newHigh - High
      copy    == [a \in Base(new) .. newHigh - 1 |->
                    IF a - delta \in Used THEN mem[a - delta] ELSE OUT]
      ex      == RewriteExceptionStack(copy, exn, async, Base(cur), High, newHigh)
      lk      == FixLinks(Len(links), links, ex.mem, new, Base(cur), High, delta)
  IN IF wsize = 0 \/ new > MaxRegions THEN [ok |-> FALSE]
     ELSE [ok |-> TRUE, cur |-> new, size |-> wsize, sp |-> NewSp(newHigh, used), mem |-> lk.mem,
           exn |-> ex.exn, async |-> ex.async, links |-> lk.links]

(***************************************************************************)
(* Initial state: the main program started by caml_start_program, which    *)
(* pushed its trap frame (also the async handler) and the outermost link.  *)
(***************************************************************************)
Init ==
  /\ cur = 1
  /\ size = InitWsz
  /\ sp = Base(1) + InitWsz - 1
  /\ mem = [a \in Base(1) .. Base(1) + InitWsz - 1 |-> OUT]
  /\ exn = sp
  /\ async = sp
  /\ fp = OUT
  /\ links = <<[stack |-> NONE, sp |-> OUT, fpPrev |-> OUT, async |-> OUT]>>
  /\ inC = FALSE
  /\ maxw = InitMax

Push(v) == mem' = [mem EXCEPT ![sp - 1] = v] /\ sp' = sp - 1
Pop == mem' = [mem EXCEPT ![sp] = OUT] /\ sp' = sp + 1

\* OCaml code leaves StackThreshold words free below its frames.
Room(n) == sp - n >= Base(cur) + StackThreshold

\* A function prologue pushes the caller's frame pointer.
PushFrame ==
  /\ ~inC /\ Room(1)
  /\ Push(fp) /\ fp' = sp - 1
  /\ UNCHANGED <<cur, size, exn, async, links, inC, maxw>>

\* A function returns: its saved frame pointer is restored.
PopFrame ==
  /\ ~inC /\ fp = sp
  /\ Pop /\ fp' = mem[sp]
  /\ UNCHANGED <<cur, size, exn, async, links, inC, maxw>>

\* try: a trap frame linked to the previous handler.
PushTrap ==
  /\ ~inC /\ Room(1)
  /\ Push(exn) /\ exn' = sp - 1
  /\ UNCHANGED <<cur, size, async, fp, links, inC, maxw>>

\* Leaving a try block (not the one installed by caml_start_program).
PopTrap ==
  /\ ~inC /\ exn = sp /\ exn # async
  /\ Pop /\ exn' = mem[sp]
  /\ UNCHANGED <<cur, size, async, fp, links, inC, maxw>>

\* SWITCH_OCAML_TO_C (caml_c_call, caml_call_realloc_stack): the innermost
\* link records the stack and sp; the frame pointer record below it points
\* at the calling frame (fp->prev == link->sp).
SwitchToC ==
  /\ ~inC /\ fp = sp
  /\ links' = [links EXCEPT ![Len(links)] =
                 [@ EXCEPT !.stack = cur, !.sp = sp, !.fpPrev = fp]]
  /\ inC' = TRUE /\ fp' = OUT
  /\ UNCHANGED <<cur, size, sp, mem, exn, async, maxw>>

\* SWITCH_C_TO_OCAML: sp and the frame pointer come back from the link.
SwitchToOCaml ==
  /\ inC
  /\ sp' = Top.sp /\ fp' = Top.fpPrev /\ inC' = FALSE
  /\ UNCHANGED <<cur, size, mem, exn, async, links, maxw>>

\* caml_callback once caml_maybe_expand_stack has made room: caml_start_program
\* pushes a link saving the async handler and a trap frame that becomes both
\* the exception and the async exception handler.
StartProgram ==
  /\ inC /\ Len(links) < MaxLinks
  /\ sp - Base(cur) >= StackNeeded
  /\ links' = Append(links, [stack |-> NONE, sp |-> OUT, fpPrev |-> OUT,
                             async |-> async])
  /\ Push(exn) /\ exn' = sp - 1 /\ async' = sp - 1
  /\ fp' = OUT /\ inC' = FALSE
  /\ UNCHANGED <<cur, size, maxw>>

\* The callback returns: its trap frame and link are popped.
CallbackReturn ==
  /\ ~inC /\ Len(links) > 1 /\ exn = sp /\ exn = async
  /\ Pop /\ exn' = mem[sp] /\ async' = Top.async
  /\ links' = SubSeq(links, 1, Len(links) - 1)
  /\ inC' = TRUE /\ fp' = OUT
  /\ UNCHANGED <<cur, size, maxw>>

ApplyRealloc(r) ==
  /\ cur' = r.cur /\ size' = r.size /\ sp' = r.sp /\ mem' = r.mem
  /\ exn' = r.exn /\ async' = r.async /\ links' = r.links
  /\ UNCHANGED <<fp, inC, maxw>>

\* caml_maybe_expand_stack, on entry to a callback: grow when fewer than
\* stack_needed words are available (on failure Stack_overflow is raised
\* and the callback does not start).
MaybeExpandStack ==
  /\ inC
  /\ sp - Base(cur) < StackNeeded
  /\ TryReallocStack(StackNeeded).ok
  /\ ApplyRealloc(TryReallocStack(StackNeeded))

\* caml_call_realloc_stack from a function prologue that needs n more words.
ReallocForFrame(n) ==
  /\ inC
  /\ sp - n < Base(cur) + StackThreshold
  /\ TryReallocStack(n + StackThreshold).ok
  /\ ApplyRealloc(TryReallocStack(n + StackThreshold))

\* caml_change_max_stack_size: never below what the current stack uses.
ChangeMaxStackSize(n) ==
  /\ inC
  /\ maxw' = IF n < High - sp + StackThreshold THEN High - sp + StackThreshold
             ELSE n
  /\ UNCHANGED <<cur, size, sp, mem, exn, async, fp, links, inC>>

Next ==
  \/ PushFrame \/ PopFrame \/ PushTrap \/ PopTrap
  \/ SwitchToC \/ SwitchToOCaml \/ StartProgram \/ CallbackReturn
  \/ MaybeExpandStack
  \/ \E n \in 1 .. MaxReq : ReallocForFrame(n)
  \/ \E n \in MaxChoices : ChangeMaxStackSize(n)

Spec == Init /\ [][Next]_vars

(***************************************************************************)
(* Properties.                                                             *)
(***************************************************************************)

Ptr == Int

TypeOK ==
  /\ cur \in 1 .. MaxRegions /\ size \in Nat \ {0}
  /\ sp \in Base(cur) .. High
  /\ mem \in [Base(cur) .. High - 1 -> Ptr]
  /\ exn \in Ptr /\ async \in Ptr /\ fp \in Ptr
  /\ links \in Seq([stack : 0 .. MaxRegions, sp : Ptr, fpPrev : Ptr, async : Ptr])
  /\ Len(links) >= 1
  /\ inC \in BOOLEAN /\ maxw \in Nat

\* The pointers visited by following a chain of stack words from p.
RECURSIVE Walk(_, _)
Walk(p, n) == IF n = 0 \/ p \notin Used THEN {p} ELSE {p} \cup Walk(mem[p], n - 1)
Chain(p) == Walk(p, size)
Valid(p) == Chain(p) \subseteq Used \cup {OUT}

\* The links whose fields are current: all of them while C runs, all but
\* the innermost while OCaml runs (its fields are refreshed at the next
\* switch to C).
Frozen == {i \in 1 .. Len(links) : i < Len(links) \/ inC}

\* No pointer reachable by the runtime points into a freed stack or the
\* unused part of the current one, after any number of growths: the
\* exception handler chain from Caml_state->exn_handler, the async handler
\* (which must be one of its trap frames), the frame pointer chain of
\* running OCaml code, and, for every link, its stack, sp, frame pointer
\* chain and saved async handler.  caml_try_realloc_stack must move each of
\* them (caml_rewrite_exception_stack and the c_stack loop).
StackPointersValid ==
  /\ Valid(exn)
  /\ async \in Chain(exn)
  /\ ~inC => Valid(fp)
  /\ \A i \in Frozen :
       /\ links[i].stack = cur
       /\ links[i].sp \in Used /\ links[i].fpPrev = links[i].sp
       /\ Valid(links[i].fpPrev)
       /\ links[i].async \in Chain(exn) \cup {OUT}

\* A pointer as an offset from Stack_high, which growth must preserve.
Rel(v) == IF v \in Used THEN High - v ELSE IF v = OUT THEN 0 ELSE -2
Image ==
  [words |-> [i \in 1 .. High - sp |-> Rel(mem[High - i])],
   exn |-> Rel(exn), async |-> Rel(async),
   links |-> [i \in 1 .. Len(links) |->
               [sp |-> Rel(links[i].sp), fpPrev |-> Rel(links[i].fpPrev),
                async |-> Rel(links[i].async),
                onCur |-> links[i].stack = cur]]]

\* Growth is invisible to the program: the used words and every pointer
\* into the stack are the same, relative to Stack_high, before and after
\* caml_try_realloc_stack (memcpy plus the rewriting loops).
GrowthPreservesStack == [][cur' # cur => Image' = Image]_vars

\* Growth never produces a stack larger than caml_max_stack_wsize.
GrowthWithinMax == [][cur' # cur => size' <= maxw]_vars

=============================================================================
