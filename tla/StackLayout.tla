---------------------------- MODULE StackLayout ----------------------------
(***************************************************************************)
(* The size arithmetic of runtime/fiber.c: caml_get_init_stack_wsize,     *)
(* which clamps the requested initial size to caml_max_stack_wsize and,    *)
(* for stacks larger than a huge page, rounds down to a multiple of the    *)
(* huge page size less three pages; and alloc_for_stack, which computes    *)
(* the length of the block for a stack and where its stack_handler goes,   *)
(* for each of the three build-time backends.                              *)
(*                                                                         *)
(* Sizes are uintnat: arithmetic is modulo 2^Width.  Addresses are offsets *)
(* from an origin aligned to a page; the mmap backends get page-aligned    *)
(* blocks (offset 0), malloc an 8-aligned one.                             *)
(***************************************************************************)
EXTENDS Integers, Bitwise

CONSTANTS
  Width,            \* bits of uintnat
  WordBytes,        \* sizeof(value)
  PageBytes,        \* caml_plat_pagesize
  HugePageBytes,    \* possible caml_plat_hugepagesize (0: none)
  InfoBytes,        \* sizeof(struct stack_info)
  HandlerBytes,     \* sizeof(struct stack_handler)
  PadWords,         \* Stack_padding_word
  StackInitBytes,   \* Stack_init_bsize
  ThresholdBytes,   \* Stack_threshold
  Params,           \* values of -Xmain/thread/fiber_stack_size (words)
  MaxWsizes,        \* values of caml_max_stack_wsize
  MallocOffsets     \* offsets of a caml_stat_alloc_noexc block mod 16

\* The huge page is a power of two of at least four pages: the three pages
\* taken off a rounded size must leave some stack.
ASSUME \A h \in HugePageBytes : h = 0 \/ h >= 4 * PageBytes

UMax == 2^Width
Compl(x) == UMax - 1 - x                 \* ~x on uintnat
Wsize_bsize(b) == b \div WordBytes
Bsize_wsize(w) == w * WordBytes

Backends == {"mmap_stack", "guard_pages", "malloc"}
Contexts == {"main", "thread", "fiber"}

\* round_up_p2
round_up_p2(x, p2) == (x + p2 - 1) & Compl(p2 - 1)

\* The size asked for before clamping: the -X parameter of the context
\* with guard pages, the built-in defaults otherwise.
InitRequest(ctx, guard, param) ==
  IF guard THEN param
  ELSE IF ctx = "fiber" THEN Wsize_bsize(ThresholdBytes * 2)
  ELSE Wsize_bsize(StackInitBytes)

\* Mutant of caml_get_init_stack_wsize: two pages taken off, not three.
GetInitStackWsizeTwoPages(req, maxw, huge) ==
  LET s  == IF req < maxw THEN req ELSE maxw
      hw == Wsize_bsize(huge)
  IN IF huge > 0 /\ s > hw
     THEN ((s & Compl(hw - 1)) - 2 * Wsize_bsize(PageBytes)) % UMax
     ELSE s

\* Mutant of caml_get_init_stack_wsize: the size test before rounding is
\* left out.
GetInitStackWsizeAnySize(req, maxw, huge) ==
  LET s  == IF req < maxw THEN req ELSE maxw
      hw == Wsize_bsize(huge)
  IN IF huge > 0
     THEN ((s & Compl(hw - 1)) - 3 * Wsize_bsize(PageBytes)) % UMax
     ELSE s

\* caml_get_init_stack_wsize after the context switch.
GetInitStackWsize(req, maxw, huge) ==
  LET s  == IF req < maxw THEN req ELSE maxw
      hw == Wsize_bsize(huge)
  IN IF huge > 0 /\ s > hw
     THEN ((s & Compl(hw - 1)) - 3 * Wsize_bsize(PageBytes)) % UMax
     ELSE s

\* caml_mem_round_up_mapping_size: whole pages.
RoundUpMapping(len) == round_up_p2(len, PageBytes)

\* Guard-page layout: trailer, two pages for stack_info and the guard page.
TrailerBytes == round_up_p2(HandlerBytes, 16)

\* Mutant of AllocForStack: the 8 bytes of alignment slack are left out.
AllocForStackNoSlack(backend, wosize, base) ==
  LET wos == wosize + PadWords
  IN IF backend = "guard_pages"
     THEN LET len == RoundUpMapping(Bsize_wsize(wos) + TrailerBytes + 2 * PageBytes)
          IN [len |-> len, handler |-> base + len - TrailerBytes]
     ELSE [len |-> InfoBytes + Bsize_wsize(wos) + HandlerBytes,
           handler |-> round_up_p2(base + InfoBytes + Bsize_wsize(wos), 16)]

\* alloc_for_stack: the block's length and stack->handler.
AllocForStack(backend, wosize, base) ==
  LET wos == wosize + PadWords
  IN IF backend = "guard_pages"
     THEN LET len == RoundUpMapping(Bsize_wsize(wos) + TrailerBytes + 2 * PageBytes)
          IN [len |-> len, handler |-> base + len - TrailerBytes]
     ELSE [len |-> InfoBytes + Bsize_wsize(wos) + 8 + HandlerBytes,
           handler |-> round_up_p2(base + InfoBytes + Bsize_wsize(wos), 16)]

VARIABLES
  backend, ctx, param, maxw, huge,   \* the build and the run's parameters
  wsz,                                \* the computed initial size
  base, len, handler,                 \* the block obtained for it
  pc                                  \* "start", "sized" or "mapped"

vars == <<backend, ctx, param, maxw, huge, wsz, base, len, handler, pc>>

Init ==
  /\ backend \in Backends /\ ctx \in Contexts /\ param \in Params
  /\ maxw \in MaxWsizes /\ huge \in HugePageBytes
  /\ wsz = 0 /\ base = 0 /\ len = 0 /\ handler = 0
  /\ pc = "start"

\* caml_get_init_stack_wsize(context)
SizeStack ==
  /\ pc = "start"
  /\ wsz' = GetInitStackWsize(InitRequest(ctx, backend = "guard_pages", param),
                              maxw, huge)
  /\ pc' = "sized"
  /\ UNCHANGED <<backend, ctx, param, maxw, huge, base, len, handler>>

\* alloc_for_stack(wsz): mmap returns a page-aligned block, malloc one at
\* any of MallocOffsets.
MapStack ==
  /\ pc = "sized"
  /\ \E b \in IF backend = "malloc" THEN MallocOffsets ELSE {0} :
       LET r == AllocForStack(backend, wsz, b)
       IN base' = b /\ len' = r.len /\ handler' = r.handler
  /\ pc' = "mapped"
  /\ UNCHANGED <<backend, ctx, param, maxw, huge, wsz>>

Done == pc = "mapped" /\ UNCHANGED vars

Next == SizeStack \/ MapStack \/ Done

Spec == Init /\ [][Next]_vars

(***************************************************************************)
(* Properties.                                                             *)
(***************************************************************************)

Clamped == LET r == InitRequest(ctx, backend = "guard_pages", param)
           IN IF r < maxw THEN r ELSE maxw
Rounded == huge > 0 /\ Clamped > Wsize_bsize(huge)

\* caml_get_init_stack_wsize never gives more than the request or
\* caml_max_stack_wsize, and, when rounding to a huge page applies, the
\* subtraction of three pages does not wrap around: a nonzero request
\* gives a nonzero stack.
InitSizeSound ==
  pc # "start" =>
    /\ wsz <= Clamped
    /\ Clamped > 0 => wsz > 0

\* The rounding serves its purpose (the comment of lines 97-101): with
\* guard pages, the block mapped for a rounded stack, header, guard page
\* and trailer included, fits in the multiple of the huge page size that
\* the size was rounded down to.
HugePageFit ==
  pc = "mapped" /\ backend = "guard_pages" /\ Rounded =>
    len <= Bsize_wsize(Clamped & Compl(Wsize_bsize(huge) - 1))

\* The layout is sound: stack->handler is 16-aligned, lies above the
\* stack_info and the wosize (+ padding) words of the stack, and
\* sizeof(struct stack_handler) bytes from it stay inside the block; with
\* guard pages, the guard page ends below the stack area (the assertion
\* at lines 268-270).
LayoutSound ==
  pc = "mapped" =>
    LET wos == wsz + PadWords
    IN /\ handler % 16 = 0
       /\ handler + HandlerBytes <= base + len
       /\ backend # "guard_pages" =>
            handler >= base + InfoBytes + Bsize_wsize(wos)
       /\ backend = "guard_pages" =>
            base + len - (TrailerBytes + Bsize_wsize(wos)) >= base + 2 * PageBytes

=============================================================================
