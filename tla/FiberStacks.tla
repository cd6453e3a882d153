---------------------------- MODULE FiberStacks ----------------------------
(***************************************************************************)
(* Stack segments of runtime/fiber.c and who owns them.                    *)
(*                                                                         *)
(* A segment (struct stack_info) is a block of memory obtained from the    *)
(* backend (alloc_for_stack) and either owned by a domain, as part of the  *)
(* chain of segments starting at Caml_state->current_stack and following   *)
(* Stack_parent, owned by a continuation (Field(cont, 0)), or parked in    *)
(* the per-domain stack cache, an intrusive free list per size class       *)
(* linked through the exception_ptr field.                                 *)
(*                                                                         *)
(* Domains run in parallel.  caml_continuation_use_noexc reads the slot    *)
(* and then either writes NULL (when the domain is alone) or CASes it to   *)
(* NULL; it is split into two steps so that other domains can act between *)
(* the read and the write.  All other operations touch only the calling    *)
(* domain's own state and are single steps.                                *)
(*                                                                         *)
(* Segment contents and handler values are abstracted away: this module   *)
(* is about the identity, size class and owner of segments, and of the    *)
(* local arenas (stack->local_arenas) that travel with them.              *)
(***************************************************************************)
EXTENDS Integers, FiniteSets, Sequences

CONSTANTS
  Domains,        \* domains (model values)
  MainDomain,     \* the domain running at program start
  Stacks,         \* memory blocks that can hold a segment (model values)
  Conts,          \* continuation blocks (model values)
  Arenas,         \* caml_local_arenas blocks (model values)
  NULL,           \* the null pointer
  FiberWsz,       \* caml_fiber_wsz
  InitMainWsz,    \* init_wsize given to caml_alloc_main_stack
  MaxStackWsz,    \* caml_max_stack_wsize
  MaxNeed,        \* bound on stack_used + required_space in a realloc
  Backend         \* "mmap_stack" | "guard_pages" | "malloc" (build choice)

ASSUME MainDomain \in Domains
ASSUME NULL \notin Stacks \cup Arenas
ASSUME FiberWsz \in Nat \ {0} /\ InitMainWsz \in Nat \ {0}
ASSUME Backend \in {"mmap_stack", "guard_pages", "malloc"}

\* #define NUM_STACK_SIZE_CLASSES 5
NUM_STACK_SIZE_CLASSES == 5
Buckets == 0 .. NUM_STACK_SIZE_CLASSES - 1

\* The operations through which the caller of caml_continuation_use_noexc
\* consumes the result: Deep.continue, Shallow (re-delimiting) and drop.
UseOps == {"resume", "resume_update", "drop"}
NoUse == [op |-> "none"]

VARIABLES
  mapped,    \* blocks currently obtained from the backend
  stk,       \* stk[s]: the header fields of segment s
  cache,     \* cache[d][b]: Caml_state->stack_cache[b] of domain d
  current,   \* current[d]: Caml_state->current_stack of domain d
  running,   \* domains that are running
  cont,      \* cont[c]: Field(c, 0), a segment or NULL
  contAlloc, \* continuation blocks allocated so far
  pending,   \* pending[d]: a caml_continuation_use_noexc between read and write
  arenas     \* local arena blocks currently allocated

vars == <<mapped, stk, cache, current, running, cont, contAlloc, pending,
          arenas>>

\* Header fields this module keeps: usable words, cache_bucket,
\* exception_ptr (the free-list link), handler->parent and local_arenas.
\* The fiber id (a 64-bit counter that is never reused) only names
\* segments and is left out.
Blank == [wsz |-> 0, bucket |-> -1, link |-> NULL, parent |-> NULL,
          locals |-> NULL]

(***************************************************************************)
(* Pure helpers.                                                           *)
(***************************************************************************)

\* Mutant of BucketFrom: the loop runs one size class too far.
RECURSIVE BucketFromPastEnd(_, _, _)
BucketFromPastEnd(wosize, bucket, size_bucket_wsz) ==
  IF bucket > NUM_STACK_SIZE_CLASSES THEN -1
  ELSE IF wosize = size_bucket_wsz THEN bucket
  ELSE BucketFromPastEnd(wosize, bucket + 1, size_bucket_wsz + size_bucket_wsz)

\* stack_cache_bucket: the loop over the size classes
RECURSIVE BucketFrom(_, _, _)
BucketFrom(wosize, bucket, size_bucket_wsz) ==
  IF bucket >= NUM_STACK_SIZE_CLASSES THEN -1
  ELSE IF wosize = size_bucket_wsz THEN bucket
  ELSE BucketFrom(wosize, bucket + 1, size_bucket_wsz + size_bucket_wsz)

\* Mutant of stack_cache_bucket: the first class is taken to be twice
\* caml_fiber_wsz.
stack_cache_bucket_from_double(wosize) == BucketFrom(wosize, 0, 2 * FiberWsz)

stack_cache_bucket(wosize) == BucketFrom(wosize, 0, FiberWsz)

\* The doubling loop of caml_try_realloc_stack; 0 means "return 0".
RECURSIVE GrowWsize(_, _, _)
GrowWsize(wsize, need, max) ==
  IF wsize >= max THEN 0
  ELSE IF 2 * wsize < need THEN GrowWsize(2 * wsize, need, max)
  ELSE 2 * wsize

\* The chain of segments reached from s by Stack_parent.
RECURSIVE ChainFrom(_, _, _)
ChainFrom(st, s, fuel) ==
  IF s = NULL \/ fuel = 0 THEN <<>>
  ELSE <<s>> \o ChainFrom(st, st[s].parent, fuel - 1)

Chain(st, s) == ChainFrom(st, s, Cardinality(Stacks))

SeqSet(q) == {q[i] : i \in 1 .. Len(q)}

\* The free list of bucket b in a cache array ca.
CacheList(st, ca, b) ==
  LET RECURSIVE L(_, _)
      L(s, fuel) == IF s = NULL \/ fuel = 0 THEN <<>>
                    ELSE <<s>> \o L(st[s].link, fuel - 1)
  IN L(ca[b], Cardinality(Stacks) + 1)

Cached(st, ca) == UNION {SeqSet(CacheList(st, ca, b)) : b \in Buckets}

(***************************************************************************)
(* Memory operations as transformers of m = [mapped, stk, cache, arenas].  *)
(***************************************************************************)

Mem == [mapped |-> mapped, stk |-> stk, cache |-> cache, arenas |-> arenas]

\* caml_alloc_stack_cache: every free list empty
EmptyCache == [b \in Buckets |-> NULL]

CacheHit(m, d, b) == b # -1 /\ m.cache[d][b] # NULL

\* alloc_for_stack cannot fail when a free block exists; without one it
\* returns NULL and the caller raises or returns 0 (no state changes).
CanAlloc(m, d, b, fresh) == CacheHit(m, d, b) \/ fresh \notin m.mapped

\* alloc_size_class_stack_noexc: pop the size class's free list, or get a
\* fresh block, then initialise the header.  The caller's par is the
\* parent it installs right after (runstack, or the grown stack's parent).
AllocSizeClass(m, d, wosize, b, par, fresh) ==
  LET hit == CacheHit(m, d, b)
      s   == IF hit THEN m.cache[d][b] ELSE fresh
  IN [s      |-> s,
      mapped |-> m.mapped \cup {s},
      arenas |-> m.arenas,
      cache  |-> IF hit THEN [m.cache EXCEPT ![d][b] = m.stk[s].link]
                 ELSE m.cache,
      stk    |-> [m.stk EXCEPT ![s] =
                   [wsz    |-> IF hit THEN m.stk[s].wsz ELSE wosize,
                    bucket |-> IF hit THEN m.stk[s].bucket ELSE b,
                    link   |-> NULL,
                    parent |-> par,
                    locals |-> NULL]]]

\* free_stack_memory: return the block to the backend
FreeStackMemory(m, s) ==
  [m EXCEPT !.mapped = @ \ {s}, !.stk = [@ EXCEPT ![s] = Blank]]

\* caml_free_stack: free the segment's local arenas, then push it onto the
\* current domain's free list of its size class, or release an unpooled
\* segment to the backend.  A cached segment keeps its (now dangling)
\* local_arenas pointer until alloc_size_class_stack_noexc resets it.
FreeStack(m, d, s) ==
  LET b  == m.stk[s].bucket
      m1 == [m EXCEPT !.arenas = @ \ {m.stk[s].locals}]
  IN IF b # -1
     THEN [m1 EXCEPT !.stk   = [@ EXCEPT ![s].link = m.cache[d][b]],
                     !.cache = [@ EXCEPT ![d][b] = s]]
     ELSE FreeStackMemory(m1, s)

\* caml_free_stack_cache: empty every free list into the backend
FreeStackCache(m, d) ==
  LET gone == Cached(m.stk, m.cache[d])
  IN [mapped |-> m.mapped \ gone,
      stk    |-> [s \in Stacks |-> IF s \in gone THEN Blank ELSE m.stk[s]],
      cache  |-> [m.cache EXCEPT ![d] = EmptyCache],
      arenas |-> m.arenas]

SetMem(m) == /\ mapped' = m.mapped
             /\ stk' = m.stk
             /\ cache' = m.cache
             /\ arenas' = m.arenas

Alone == Cardinality(running) = 1


(***************************************************************************)
(* Initial state: the main domain runs on its main stack.                  *)
(***************************************************************************)

Init ==
  \E main \in Stacks :
  /\ mapped = {main}
  /\ stk = [s \in Stacks |->
              IF s = main
              THEN [Blank EXCEPT !.wsz = InitMainWsz,
                                 !.bucket = stack_cache_bucket(InitMainWsz)]
              ELSE Blank]
  /\ cache = [d \in Domains |-> EmptyCache]
  /\ current = [d \in Domains |-> IF d = MainDomain THEN main ELSE NULL]
  /\ running = {MainDomain}
  /\ cont = [c \in Conts |-> NULL]
  /\ contAlloc = {}
  /\ pending = [d \in Domains |-> NoUse]
  /\ arenas = {}

\* Domain d is running OCaml code and is not inside a continuation take.
Idle(d) == d \in running /\ pending[d] = NoUse

(***************************************************************************)
(* Actions.                                                                *)
(***************************************************************************)

\* Domain e spawns d: the new domain gets an empty stack cache
\* (caml_alloc_stack_cache) and a main stack (caml_alloc_main_stack).
DomainSpawn(d, e, fresh) ==
  LET m0 == [Mem EXCEPT !.cache = [@ EXCEPT ![d] = EmptyCache]]
      b  == stack_cache_bucket(InitMainWsz)
      r  == AllocSizeClass(m0, d, InitMainWsz, b, NULL, fresh)
  IN /\ Idle(e)
     /\ d \notin running
     /\ CanAlloc(m0, d, b, fresh)
     /\ SetMem(r)
     /\ current' = [current EXCEPT ![d] = r.s]
     /\ running' = running \cup {d}
     /\ UNCHANGED <<cont, contAlloc, pending>>

\* A domain other than the main one terminates once it is back on its main
\* stack: the main stack is freed, then the whole stack cache.  Termination
\* synchronises with every other domain (stop-the-world), so none of them
\* is inside caml_continuation_use_noexc.
DomainTerminate(d) ==
  LET m1 == FreeStack(Mem, d, current[d])
  IN /\ d \in running
     /\ d # MainDomain
     /\ \A e \in Domains : pending[e] = NoUse
     /\ stk[current[d]].parent = NULL
     /\ SetMem(FreeStackCache(m1, d))
     /\ current' = [current EXCEPT ![d] = NULL]
     /\ running' = running \ {d}
     /\ UNCHANGED <<cont, contAlloc, pending>>

\* caml_alloc_stack (native): a fiber stack of caml_fiber_wsz words from
\* bucket 0 with a fresh id; the caller (match_with) runs it at once, which
\* makes it the current stack with the old current stack as parent.
AllocStack(d, fresh) ==
  LET r == AllocSizeClass(Mem, d, FiberWsz, 0, current[d], fresh)
  IN /\ Idle(d)
     /\ CanAlloc(Mem, d, 0, fresh)
     /\ SetMem(r)
     /\ current' = [current EXCEPT ![d] = r.s]
     /\ UNCHANGED <<running, cont, contAlloc, pending>>

\* perform: the k innermost segments, up to the fiber whose handler handles
\* the effect, are cut off and stored in a new continuation; execution goes
\* on in the handler's parent.
Perform(d, c, k) ==
  LET ch == Chain(stk, current[d])
  IN /\ Idle(d)
     /\ c \notin contAlloc
     /\ k \in 1 .. Len(ch) - 1
     /\ stk' = [stk EXCEPT ![ch[k]].parent = NULL]
     /\ cont' = [cont EXCEPT ![c] = ch[1]]
     /\ contAlloc' = contAlloc \cup {c}
     /\ current' = [current EXCEPT ![d] = ch[k + 1]]
     /\ UNCHANGED <<mapped, cache, running, pending, arenas>>

\* caml_continuation_use_noexc, first half: v = Field(cont, 0)
UseBegin(d, c, op) ==
  /\ Idle(d)
  /\ c \in contAlloc
  /\ pending' = [pending EXCEPT ![d] = [op |-> op, c |-> c, v |-> cont[c]]]
  /\ UNCHANGED <<mapped, stk, cache, current, running, cont, contAlloc, arenas>>

\* Mutant of UseEnd: the take is a plain store whether or not the domain
\* is alone (the CAS is dropped).
UseEndPlainStore(d) ==
  LET p     == pending[d]
      r     == p.v
      outer == ChainFrom(stk, r, Cardinality(Stacks))
  IN /\ d \in running
     /\ p # NoUse
     /\ pending' = [pending EXCEPT ![d] = NoUse]
     /\ cont' = [cont EXCEPT ![p.c] = NULL]
     /\ IF r = NULL
        THEN UNCHANGED <<mapped, stk, cache, current, arenas>>
        ELSE IF p.op = "drop"
        THEN /\ SetMem(FreeStack(Mem, d, r))
             /\ UNCHANGED current
        ELSE /\ stk' = [stk EXCEPT ![outer[Len(outer)]].parent = current[d]]
             /\ current' = [current EXCEPT ![d] = r]
             /\ UNCHANGED <<mapped, cache, arenas>>
     /\ UNCHANGED <<running, contAlloc>>

\* caml_continuation_use_noexc, second half: a plain store of NULL when the
\* domain is alone, a CAS from v to NULL otherwise; then the caller:
\*  - resume (caml_resume) links the chain's outermost segment to the
\*    current stack and switches to the chain;
\*  - resume_update (caml_continuation_use_and_update_handler_noexc) walks
\*    to the outermost segment to rewrite its handlers, then resumes;
\*  - drop (caml_drop_continuation) frees the returned segment.
\* A NULL result raises Continuation_already_resumed: nothing else changes.
UseEnd(d) ==
  LET p     == pending[d]
      taken == Alone \/ cont[p.c] = p.v
      r     == IF taken THEN p.v ELSE NULL
      outer == ChainFrom(stk, r, Cardinality(Stacks))
  IN /\ d \in running
     /\ p # NoUse
     /\ pending' = [pending EXCEPT ![d] = NoUse]
     /\ cont' = IF taken THEN [cont EXCEPT ![p.c] = NULL] ELSE cont
     /\ IF r = NULL
        THEN UNCHANGED <<mapped, stk, cache, current, arenas>>
        ELSE IF p.op = "drop"
        THEN /\ SetMem(FreeStack(Mem, d, r))
             /\ UNCHANGED current
        ELSE /\ stk' = [stk EXCEPT ![outer[Len(outer)]].parent = current[d]]
             /\ current' = [current EXCEPT ![d] = r]
             /\ UNCHANGED <<mapped, cache, arenas>>
     /\ UNCHANGED <<running, contAlloc>>

\* caml_continuation_replace: a privileged caller installs the k innermost
\* segments of its chain into an emptied continuation (CAS from NULL).
Replace(d, c, k) ==
  LET ch == Chain(stk, current[d])
  IN /\ Idle(d)
     /\ c \in contAlloc
     /\ cont[c] = NULL
     /\ k \in 1 .. Len(ch) - 1
     /\ stk' = [stk EXCEPT ![ch[k]].parent = NULL]
     /\ cont' = [cont EXCEPT ![c] = ch[1]]
     /\ current' = [current EXCEPT ![d] = ch[k + 1]]
     /\ UNCHANGED <<mapped, cache, running, contAlloc, pending, arenas>>

\* A fiber returns: execution continues on its parent and the fiber's
\* segment is released with caml_free_stack.
FiberReturn(d) ==
  LET top == current[d]
  IN /\ Idle(d)
     /\ stk[top].parent # NULL
     /\ SetMem(FreeStack(Mem, d, top))
     /\ current' = [current EXCEPT ![d] = stk[top].parent]
     /\ UNCHANGED <<running, cont, contAlloc, pending>>

\* Mutant of Realloc: the local arenas are handed to the new stack but not
\* detached from the old one before it is freed.
ReallocNoDetach(d, need, fresh) ==
  LET old == current[d]
      w   == GrowWsize(stk[old].wsz, need, MaxStackWsz)
      b   == stack_cache_bucket(w)
      r   == AllocSizeClass(Mem, d, w, b, stk[old].parent, fresh)
      mv  == [r EXCEPT !.stk = [@ EXCEPT ![r.s].locals = stk[old].locals]]
  IN /\ Idle(d)
     /\ Backend = "malloc"
     /\ need \in stk[old].wsz + 1 .. MaxNeed
     /\ w # 0
     /\ CanAlloc(Mem, d, b, fresh)
     /\ SetMem(FreeStack(mv, d, old))
     /\ current' = [current EXCEPT ![d] = r.s]
     /\ UNCHANGED <<running, cont, contAlloc, pending>>

\* caml_try_realloc_stack with need = stack_used + required_space larger
\* than the current stack: double up to the limit, allocate the new stack
\* with the old handlers and id, move the parent link, hand the local
\* arenas to the new stack and detach them from the old one, free the old
\* stack and make the new one current.  With the mmap backends it
\* returns 0.
Realloc(d, need, fresh) ==
  LET old == current[d]
      w   == GrowWsize(stk[old].wsz, need, MaxStackWsz)
      b   == stack_cache_bucket(w)
      r   == AllocSizeClass(Mem, d, w, b, stk[old].parent, fresh)
      mv  == [r EXCEPT !.stk = [@ EXCEPT ![r.s].locals = stk[old].locals,
                                         ![old].locals = NULL]]
  IN /\ Idle(d)
     /\ Backend = "malloc"
     /\ need \in stk[old].wsz + 1 .. MaxNeed
     /\ w # 0
     /\ CanAlloc(Mem, d, b, fresh)
     /\ SetMem(FreeStack(mv, d, old))
     /\ current' = [current EXCEPT ![d] = r.s]
     /\ UNCHANGED <<running, cont, contAlloc, pending>>

\* OCaml code running on the current stack makes its first local
\* allocation: the runtime creates the stack's caml_local_arenas.
AllocLocals(d, a) ==
  LET s == current[d]
  IN /\ Idle(d)
     /\ stk[s].locals = NULL
     /\ a \notin arenas
     /\ arenas' = arenas \cup {a}
     /\ stk' = [stk EXCEPT ![s].locals = a]
     /\ UNCHANGED <<mapped, cache, current, running, cont, contAlloc, pending>>

Next ==
  \E d \in Domains :
    \/ \E e \in Domains, s \in Stacks : DomainSpawn(d, e, s)
    \/ DomainTerminate(d)
    \/ \E s \in Stacks : AllocStack(d, s)
    \/ \E c \in Conts, k \in 1 .. Cardinality(Stacks) : Perform(d, c, k)
    \/ \E c \in Conts, op \in UseOps : UseBegin(d, c, op)
    \/ UseEnd(d)
    \/ \E c \in Conts, k \in 1 .. Cardinality(Stacks) : Replace(d, c, k)
    \/ FiberReturn(d)
    \/ \E n \in 1 .. MaxNeed, s \in Stacks : Realloc(d, n, s)
    \/ \E a \in Arenas : AllocLocals(d, a)

Spec == Init /\ [][Next]_vars


(***************************************************************************)
(* Properties.                                                             *)
(***************************************************************************)

Seg == Stacks \cup {NULL}

TypeOK ==
  /\ mapped \subseteq Stacks
  /\ stk \in [Stacks -> [wsz : Nat, bucket : -1 .. NUM_STACK_SIZE_CLASSES - 1,
                         link : Seg, parent : Seg,
                         locals : Arenas \cup {NULL}]]
  /\ arenas \subseteq Arenas
  /\ cache \in [Domains -> [Buckets -> Seg]]
  /\ current \in [Domains -> Seg]
  /\ running \subseteq Domains
  /\ cont \in [Conts -> Seg]
  /\ contAlloc \subseteq Conts
  /\ \A d \in Domains :
       pending[d] = NoUse \/
       pending[d] \in [op : UseOps, c : contAlloc, v : Seg]

\* The places that hold segments: a running domain holds the chain from its
\* current stack, a continuation the chain from its slot, a domain's cache
\* every segment on its free lists.
Places == {<<"dom", d>> : d \in Domains} \cup {<<"cont", c>> : c \in Conts}
            \cup {<<"cache", d>> : d \in Domains}

Held(p) ==
  CASE p[1] = "dom"  -> SeqSet(Chain(stk, current[p[2]]))
    [] p[1] = "cont" -> SeqSet(Chain(stk, cont[p[2]]))
    [] p[1] = "cache" -> Cached(stk, cache[p[2]])

\* A chain is well formed when following Stack_parent reaches NULL without
\* revisiting a segment.
ChainClosed(s) ==
  LET ch == Chain(stk, s)
  IN ch = <<>> \/ (stk[ch[Len(ch)]].parent = NULL
                   /\ Cardinality(SeqSet(ch)) = Len(ch))

\* Safety of segment ownership (what caml_free_stack, the stack cache and
\* the take of caml_continuation_use_noexc must jointly guarantee): every
\* segment a domain runs on, a continuation holds or a cache keeps is a
\* mapped block, every chain ends in NULL, and no segment is held by two
\* places at once -- neither two domains resuming one continuation, nor a
\* running or suspended segment sitting on a free list (double free).
ExclusiveOwnership ==
  /\ \A d \in Domains : ChainClosed(current[d])
  /\ \A c \in Conts : ChainClosed(cont[c])
  /\ \A p \in Places : Held(p) \subseteq mapped
  /\ \A p, q \in Places : p # q => Held(p) \cap Held(q) = {}

\* The local arenas of live stacks: every segment a domain runs on or a
\* continuation holds has local arenas that are still allocated, and no
\* two of them share one -- caml_free_stack frees stack->local_arenas, so
\* the arenas of a stack that is freed (by a fiber's return, a drop, or
\* the realloc that replaces it) must belong to no live stack.
LocalsOwned ==
  LET live == UNION {Held(p) : p \in {q \in Places : q[1] # "cache"}}
  IN \A s, t \in live :
       /\ stk[s].locals # NULL => stk[s].locals \in arenas
       /\ s # t /\ stk[s].locals # NULL => stk[s].locals # stk[t].locals

\* The free lists of every domain's stack cache are acyclic and disjoint,
\* and a segment on list b has cache_bucket b and exactly the size of class
\* b (the assertion alloc_size_class_stack_noexc makes on a cache hit), so
\* a cache hit hands out a stack of the requested size.
CacheWellFormed ==
  \A d \in Domains, b \in Buckets :
    LET l == CacheList(stk, cache[d], b)
    IN /\ Cardinality(SeqSet(l)) = Len(l)
       /\ l # <<>> => stk[l[Len(l)]].link = NULL
       /\ \A i \in 1 .. Len(l) :
            /\ stk[l[i]].bucket = b
            /\ stk[l[i]].wsz = FiberWsz * 2^b
       /\ \A e \in Domains, b2 \in Buckets :
            <<e, b2>> # <<d, b>> =>
              SeqSet(l) \cap SeqSet(CacheList(stk, cache[e], b2)) = {}

\* The continuation slots behave as in OneShotContinuations, where reading
\* and clearing a slot is one atomic step: the take of
\* caml_continuation_use_noexc (read, then plain store when alone or CAS
\* otherwise) only ever empties a slot still holding what it read, and
\* resume runs exactly that chain.
OneShot == INSTANCE OneShotContinuations WITH top <- current

ImplementsOneShot == OneShot!Spec

\* No segment leaks: every mapped block is held by some place, so that
\* it is eventually reused or returned to the backend (the spec's drop
\* "releases the returned chain's segments").
NoLeak == mapped \subseteq UNION {Held(p) : p \in Places}

=============================================================================
