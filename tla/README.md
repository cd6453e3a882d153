# TLA+ models of the OCaml runtime's fiber and stack manager

This directory holds TLA+ models of `src/runtime/fiber.c`, checked with TLC.
`PROJECT.json` lists:
- the components;
- the runs and the properties each one checks;
- the mutants that show every property can fail;
- the map from each definition to the source lines it models;
- the findings;
- the hazards the runs are aimed at.

## The system

`fiber.c` manages the stacks OCaml code runs on and the continuations that hold suspended ones.

- **Stack backend** (`alloc_for_stack`, `free_stack_memory`): gets a block for a `struct stack_info`. It uses one of three build-time strategies:
  - `mmap` with `MAP_STACK`;
  - `mmap` with a guard page;
  - `malloc`.

  It gives the block back with `munmap` or `free`.
- **Segments and the stack cache**:
  - `stack_cache_bucket` maps the sizes `caml_fiber_wsz * 2^k` (k < 5) to a size class. Any other size is unpooled (-1).
  - `alloc_size_class_stack_noexc` pops the domain's free list for the class, or calls the backend.
  - `caml_free_stack` pushes the stack onto the freeing domain's list, using `exception_ptr` as the link. Unpooled stacks go back to the backend.
  - `caml_alloc_stack_cache` and `caml_free_stack_cache` create and empty a domain's lists.
- **Growth** (`caml_try_realloc_stack`, heap backend only):
  1. Doubles the size until the used words plus the requested space fit, failing once the size has reached `caml_max_stack_wsize`.
  2. Copies the used words to the top of a new stack.
  3. Moves every pointer into the old stack:
     - the exception handler chain, through `caml_rewrite_exception_stack`, including `Caml_state->async_exn_handler`;
     - for each `c_stack_link` on the old stack: its frame-pointer chain, `stack` and `sp`;
     - each link's saved async handler.
  4. Frees the old stack.

  `caml_maybe_expand_stack` grows the stack before a callback starts. `caml_change_max_stack_size` sets the limit, never below what the current stack already uses.
- **Continuations**:
  - `caml_continuation_use_noexc` takes the chain out of a continuation block at most once. It first darkens the block for the major GC if the block is in the major heap and marking has started. It then reads the slot and clears it: with a plain store when the domain is alone, with a CAS otherwise.
  - `caml_continuation_use`, `..._use_and_update_handler_noexc` and `caml_drop_continuation` are built on this take.
  - `caml_continuation_replace` is a separate CAS of the slot from NULL to a stack. Its caller owns the emptied continuation, and line 1066 asserts that the CAS succeeds.
- **Local arenas**: a stack's local (stack-allocated) blocks live in `stack->local_arenas`.
  - `caml_free_stack` frees them.
  - `caml_try_realloc_stack` hands them to the new stack and detaches them from the old one before freeing it.
- **Root scanning**: `caml_do_local_roots` visits the `CAMLlocal` roots and then calls `caml_scan_stack`, which for each stack of the chain visits the frames' roots and scans the local blocks.
  - `visit` marks a local block it reaches with `colors.GARBAGE` and returns its arena. It hands heap values to the scanning action `f`.
  - `scan_stack_frames` (native code) walks a stack from `sp` to `Stack_high`. The frame descriptor of each return address lists the live slots (even offsets, from `sp`) and registers (odd offsets, from `regs`). `regs` starts as the `gc_regs` of the GC entry. A frame that returns to C ends a chunk of OCaml frames: `regs` becomes the `gc_regs` saved in the callback's stack header, the header is skipped, and the walk goes on. `caml_scan_stack` then passes the three handler fields to `f`, scans the local blocks, and goes on with `Stack_parent`.
  - `scan_local_allocations` walks the local blocks once, from `local_sp` (the most recent) to the oldest, switching arena at a `Local_uninit_hd` header. For each marked block, it resets the mark and visits the fields (from `Start_env` for closures, none for `No_scan_tag` blocks). Newly marking a more recent block is a fatal "backwards local pointer": the single pass relies on local blocks pointing only to older ones.

The components interact as follows:
- Continuations move chains of segments between domains.
- Freeing puts segments into the freeing domain's cache.
- Growth replaces the current segment of a chain.
- The collector scans chains, and must not miss one that a take moves.

## Modules

| Module | Models | State | Actions |
|---|---|---|---|
| `FiberStacks` | segments, cache, backend, continuations, local arena ownership, growth as a change of segment | `mapped` (blocks held from the backend), `stk` (header: size, bucket, `exception_ptr` link, parent, `local_arenas`), `cache`, `current`, `running`, `cont` (slot of each continuation), `pending` (a take between its read and its write), `arenas` (allocated local arena blocks) | `DomainSpawn`, `DomainTerminate`, `AllocStack`, `Perform`, `UseBegin`/`UseEnd` (the take, split at the read), `Replace`, `FiberReturn`, `Realloc`, `AllocLocals` |
| `ContinuationGC` | the GC barrier of the take against concurrent marking | chains per domain and per continuation, `young`, `phase`, `marked`, `darkened`, `snapshot` | mutator: `NewFiber`, `FiberReturn`, `Perform`, `UseBegin`, `UseEnd`; collector: `StartCycle`, `MarkCont`, `MinorGC`, `EndCycle` |
| `LocalScan` | `visit` and `scan_local_allocations` over one stack's local blocks | `blocks` and `roots` (the input), `hdr` (each block's mark), `found` (the locations passed to `f`), `pc`, `sp`, `arena` | `VisitRoots` (the roots visit of `caml_do_local_roots` and `scan_stack_frames`), `NextArena`, `ScanBlock` (one iteration of the walk, with its field loop), `Finish` |
| `FrameScan` | `scan_stack_frames` and the native `caml_scan_stack` | `chain` (the stacks, as chunks of frame descriptors: the input), `si`, `ci`, `fi` (the position of `sp`), `regs` (the register file odd offsets read from), `found`, `pc` | `ScanFrame` (one frame that does not return to C), `ReturnToC` (the switch of `regs` and the header skip), `NextStack` (`sp == Stack_high`: handlers, then the parent) |
| `StackRealloc` | `caml_try_realloc_stack` in the widths of its C types (`int stack_used`, `asize_t` sizes), scaled down, called when fewer than `required_space` words are free; and `caml_ensure_stack_capacity` | the input (`wsize`, the true `used` words, `req`, `maxw`, whether the allocation succeeds), `result` (new size, words copied, new `sp` below `Stack_high`), `pc` | `EnsureStackCapacityFits`, `TryRealloc` |
| `OneShotContinuations` | what the continuation slot promises, with the take as one atomic step | `cont`, `top` (each domain's current stack) | `Capture`, `TakeResume`, `TakeDrop`, `Run` |
| `StackLayout` | the size arithmetic: `caml_get_init_stack_wsize` and the length and handler placement of `alloc_for_stack`, in `uintnat` arithmetic modulo `2^Width` | the build and run parameters (`backend`, `ctx`, `param`, `maxw`, `huge`), `wsz`, the block (`base`, `len`, `handler`), `pc` | `SizeStack`, `MapStack` |
| `StackGrowth` | growth in detail over integer addresses | the current segment (`cur`, `size`, `sp`, `mem`), `exn`, `async`, the frame pointer, the `c_stack` links, `maxw` | `PushFrame`, `PopFrame`, `PushTrap`, `PopTrap`, `SwitchToC`, `SwitchToOCaml`, `StartProgram`, `CallbackReturn`, `MaybeExpandStack`, `ReallocForFrame`, `ChangeMaxStackSize` |

The MC modules:
- `MCFiberStacks` and `MCContinuationGC` give the model values and symmetry sets.
- `StackGrowth`, `LocalScan`, `StackLayout`, `FrameScan` and `StackRealloc` are checked directly, because their constants are numbers.

`FiberStacks` instantiates `OneShotContinuations` with `top <- current` and checks its `Spec` as the property `ImplementsOneShot`.

Some actions model code outside `src/`: the compiled code, the assembly runtime, `domain.c` and the GC. They are modelled from what `fiber.c` assumes and are marked `spec_modelled` in the map. They include:
- perform;
- fiber return;
- domain termination;
- the OCaml/C stack switches;
- `caml_start_program`;
- the collector's steps;
- the first local allocation of a stack (`AllocLocals`, `caml_local_realloc` in `memory.c`).

How the model represents the code:
- `UseEnd` contains the whole caller of the take. Resume links the chain's outermost segment to the current stack. Drop calls `caml_free_stack` on the returned segment.
- `Realloc` and `TryReallocStack` include the free of the old stack and the switch of the current stack.
- In `StackGrowth`, a grown stack always gets fresh addresses. So a pointer that was not moved is a pointer into freed memory.
- A word of the stack holds an address or `OUT`. `OUT` stands for a pointer that leaves the stack (NULL, a C frame, or a parent fiber).
- A trap frame and a saved frame pointer are each one word.

## Runs

| Run | Checks | Result |
|---|---|---|
| `fiber_stacks` | `TypeOK`, `ExclusiveOwnership` (every segment on a domain's chain, in a continuation, or in a cache is held by exactly one of them and is mapped), `CacheWellFormed` (each free list is acyclic, its stacks have the class's size, and lists are disjoint), `LocalsOwned` (every live stack's local arenas are allocated and belong to no other live stack), `ImplementsOneShot` (the refinement: every step changes the continuation slots as an atomic capture or take would) | pass |
| `drop_leak` | `NoLeak` (every mapped segment is held somewhere) | violation: dropping a two-segment continuation leaks the parent |
| `cont_gc` | `TypeOK`, `SnapshotScanned` (during marking, every reachable stack of the snapshot is scanned, or is in a block the collector has yet to darken) | pass |
| `stack_growth` | `TypeOK`, `StackPointersValid` (no reachable pointer into a freed stack or the unused part of the current one, and the async handler is on the exception chain), `GrowthPreservesStack` (a realloc step leaves every word and pointer unchanged relative to `Stack_high`) | pass |
| `local_scan` | `TypeOK` (also: `f` is only called on locations holding values), `ScanExact` (a scan that ends normally has called `f` on exactly the heap references of the roots and of the reachable local blocks, and the fatal error happens exactly when a reachable block points to a more recent one), `MarksTemporary` (a normal end leaves no block marked), `ScanEnds` (the scan ends) | pass |
| `local_scan_self` | `MarksTemporary`, with blocks allowed to point to themselves | violation: a self-pointing block stays marked |
| `stack_layout` | `InitSizeSound` (the initial size is at most the request and the limit, and the huge-page rounding never wraps a nonzero size to zero or to a huge value), `HugePageFit` (with guard pages, a rounded stack's whole mapping fits the huge pages it was rounded down to, as the comment at lines 97-101 intends), `LayoutSound` (`stack->handler` is 16-aligned and above the stack, the handler fits in the block, and the guard page is below the stack: the assertion at lines 268-270) | pass |
| `frame_scan` | `RootsExact` (`visit` is called only on live roots, each register root through the register file of its own chunk, and at the end on every live root of every frame of every stack on the chain and on every handler field), `ScanTerminates` (the walk ends) | pass |
| `stack_realloc_int` | `ReallocSound` with a limit above the `int` range | violation: a stack using `2^(IntBits-1)` words or more fails to grow, or is copied short |
| `growth_max` | `GrowthWithinMax` (a realloc never yields a stack larger than `caml_max_stack_wsize`) | violation: a 3-word stack with limit 5 grows to 6 |

Each property of a passing run has a mutant in `PROJECT.json`: a plausible bug in the mapped code that TLC finds. For example:
- the take without the CAS breaks `ExclusiveOwnership`;
- the take without the GC barrier breaks `SnapshotScanned`;
- the `c_stack` loop that stops at the innermost link breaks `GrowthPreservesStack`;
- an async handler that is not moved with its trap frame breaks `StackPointersValid`;
- a realloc that does not detach the local arenas from the old stack breaks `LocalsOwned`;
- the take with a plain store when other domains run breaks `ImplementsOneShot`;
- a field loop without the backwards-pointer check breaks `ScanExact`;
- dropping the 8 bytes of alignment slack from the malloc layout breaks `LayoutSound`;
- taking two pages instead of three off a rounded size breaks `HugePageFit`;
- a walk that does not switch arena at `Local_uninit_hd` breaks `ScanEnds`;
- keeping `regs` at a return to C breaks `RootsExact`, and not skipping the stack header breaks `ScanTerminates`.

`StackRealloc` has only a violation run. Below the `int` range its conversions are the identity, so `ReallocSound` would restate the loop's exit test.

## Findings

1. `caml_drop_continuation` frees only the innermost segment (line 1073). A continuation captured through nested handlers holds a chain of several segments, and its parents are neither freed nor reachable. The spec's lifecycle says the segments are destroyed when the continuation is dropped.
2. The doubling loop (lines 845-848) tests the limit before doubling. The result can therefore be almost twice `caml_max_stack_wsize` whenever the limit is not the current size times a power of two. The spec (section 4.3) says growth is capped at the maximum.

3. A local block holding a pointer to itself passes the test `sp <= newsp` (line 542) as a forward pointer. Its mark was reset before its fields were visited (lines 521-523), so `visit` marks it again, and the walk has passed it. The block is left marked with `colors.GARBAGE`, against the comment that `visit`'s marks are temporary (lines 413-416). This is latent: the comment at lines 546-547 says local recursive values are not supported, and the compiler produces no such block.

4. `caml_try_realloc_stack` keeps the used word count in an `int` (line 838). Neither `caml_change_max_stack_size` nor the `l=` parameter bounds the limit, so a stack can grow past `2^31` words (16 GiB). Then the count is negative or truncated. If negative, `stack_used + required_space`, converted to `asize_t`, is huge, and the loop runs to the limit and fails: `Stack_overflow` is raised although the limit allows the growth. If truncated to a small positive count, the stack grows but `memcpy` and the new `sp` use the wrong count. The run is scaled: an 8-bit `int` and a 12-bit `asize_t`, with 128 used words.

## Bounds

`fiber_stacks` and `drop_leak`:
- 2 domains, 4 blocks and 2 continuations.
- Chains up to 3 segments deep can be captured, resumed on the other domain, and freed into the other domain's cache.
- `caml_fiber_wsz = 1`, so growth passes through buckets 0 to 2 (sizes 1, 2, 4). The cap is 4.
- The main stack has 32 words and is unpooled, so both the pooled and the unpooled free paths happen.
- One local arena block. Once freed, it can be given to another stack, so a stack that kept a stale pointer to it would share it.
- Symmetry over blocks and over continuations is sound: no action or property tells two of them apart. `ImplementsOneShot` is a safety property, so checking it under symmetry is sound too.
- TLC explores about 400,000 states in about a minute.

`cont_gc`:
- 2 domains, 4 stacks and 2 continuations.
- Marking, minor collections and takes interleave freely between the read and the write of a take.

`stack_growth`:
- A 3-word stack with a 6-word limit, so growth fails when the limit is reached. A call to `caml_change_max_stack_size` can raise the limit to 12, which enables a second growth.
- Up to 3 nested callbacks, so two or three `c_stack_link`s point to the same stack.
- `Stack_threshold` is 1 word and `stack_needed` is 2.
- TLC explores about 560,000 states in about 20 seconds.

`local_scan`:
- 3 local blocks: 1 in the last arena and 2 in the arena before it. Each block is an ordinary block with up to 2 fields, a closure, or a `No_scan_tag` block. There are 2 roots.
- Every field and root is a local block or a heap value, and every such stack is an initial state. So forward, backward and shared pointers, chains through both arenas, unreachable marked-looking blocks, and closures all occur.
- TLC explores about 480,000 states in about 25 seconds.

`stack_layout`:
- Sizes are scaled down: 8-byte words, 64-byte pages, huge pages of 4 or 8 pages or none, and a 16-bit `uintnat`. What matters is preserved: the ratio of the three subtracted pages to a huge page, and the overhead of header, guard page, padding word and trailer (under three pages).
- The size parameters are 0, below a huge page, just above one, between one and two, and above two. There are two limits, one below some requests. Both malloc alignments (16 and 8) occur.
- The module assumes a huge page is at least 4 pages, as it is on every platform: with fewer, the subtraction wraps.

`frame_scan`:
- Descriptors list one slot and one register. Chunks have up to 2 frames, stacks up to 2 chunks (one callback from C), and the chain up to 2 stacks.
- Registers are live only in the innermost frame of a chunk, at the allocation point where the GC or the callback was entered. Every other frame, and the innermost chunk of a parent stack, is at a call, where the compiler keeps nothing in registers.
- With two chunks, a register root of the lower chunk read through the upper chunk's file is a different location, so a wrong `regs` is seen. TLC explores about 160,000 states in about 10 seconds.

`stack_realloc_int`:
- An 8-bit `int` and a 12-bit `asize_t`, scaled together with the sizes: what matters is whether the used count reaches `2^(IntBits-1)`.
- Stacks of 100 and 200 words, every used count, requests of 1 and 100 words (realloc happens only when the request exceeds the free words), and a limit of 4000.

## Fairness

`LocalScan` and `FrameScan` assume weak fairness on their whole next-state relations. The scan is a sequential loop that the collector runs to completion without waiting on anything, so a step that stays enabled is taken. `ScanEnds` and `ScanTerminates` are checked under this assumption. The other modules check only safety and assume no fairness. Every run checks deadlock: in each model some step is always enabled. (In the scan modules the ended scan stutters.)

## Not modelled

- The system calls of `alloc_for_stack` (`mmap`, `mprotect`, `madvise`, naming). `caml_mem_round_up_mapping_size` is taken to round up to whole pages.
- The bytecode build of the pointer moves in `caml_try_realloc_stack`. `StackGrowth` models the native build. The bytecode build is the same without the `c_stack` and frame-pointer loops, and `StackRealloc` covers its size arithmetic and `caml_ensure_stack_capacity`.
- In `LocalScan`: the difference between young, major and external values (all are `HEAP`, which reaches `f`); infix pointers; and the contents of local arenas beyond the blocks' fields. `caml_refresh_locals` is treated as returning the stack's arenas.
- The bytecode `caml_scan_stack` and `is_scannable`. The scan is one loop that passes each stack word and handler field to `f` when `is_scannable` holds. A model of it could only restate that filter.
- In `FrameScan`: the frame tables themselves (`caml_find_frame_descr`), which come from the compiler; long and short descriptors (the same loop); and the scan of the local blocks per stack, which is `LocalScan`. `caml_get_stack_sp_pc` only reads the first frame.
- `cache_named_exception` and the exception constructors. The only shared state is an acquire/release cache of a pointer. Racing domains each look the name up and store the same pointer, the named-value cell, so every interleaving returns the same value.
- The `gc_regs` buckets. `caml_maybe_expand_stack` allocates one when the list is empty, and `caml_free_gc_regs_buckets` frees the list. They are taken and given back by the assembly runtime, which is not in this repository, and fiber.c neither documents nor relies on that protocol.

## Plan for further work

1. Liveness: a taken continuation is eventually resumed or its segments freed. This needs fairness on the mutator.
2. `FrameScan` composed with `LocalScan`, so that frame roots and local roots come from the same stack.
