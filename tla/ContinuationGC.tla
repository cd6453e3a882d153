--------------------------- MODULE ContinuationGC ---------------------------
(***************************************************************************)
(* The publication barrier of caml_continuation_use_noexc against a        *)
(* concurrent major-GC mark phase.                                         *)
(*                                                                         *)
(* Fibers not on a domain's current chain are reachable only through       *)
(* continuation blocks.  Marking starts with a stop-the-world step that    *)
(* empties the minor heaps and scans every domain's current chain; later   *)
(* the collector reaches the remaining chains by darkening continuation    *)
(* blocks.  Taking a continuation moves its chain onto a domain without    *)
(* the collector seeing it, so before the slot is read the taker darkens   *)
(* the block if it is in the major heap and marking has started.           *)
(*                                                                         *)
(* A stack is "marked" when its frames have been scanned in this cycle.    *)
(* The collector's own steps (cycle start, caml_darken_cont by the mark    *)
(* loop, minor collections, cycle end) live in major_gc.c and minor_gc.c;  *)
(* they are modelled from the runtime's contract.  Domains do not spawn or *)
(* terminate here (FiberStacks covers that).                               *)
(***************************************************************************)
EXTENDS Integers, FiniteSets, Sequences

CONSTANTS
  Domains,   \* domains (model values)
  Stacks,    \* stack segments (model values)
  Conts      \* continuation blocks (model values)

UseOps == {"resume", "drop"}
NoUse == [op |-> "none"]

VARIABLES
  dom,       \* dom[d]: the chain from Caml_state->current_stack, innermost first
  cont,      \* cont[c]: the chain in Field(c, 0); <<>> is NULL
  contAlloc, \* continuation blocks allocated so far
  young,     \* continuation blocks still in the minor heap
  live,      \* stack segments currently allocated
  phase,     \* "idle" or "marking" (caml_marking_started())
  marked,    \* stacks whose frames were scanned in this cycle
  darkened,  \* continuation blocks darkened in this cycle
  snapshot,  \* history: stacks allocated when marking started
  pending    \* pending[d]: a take between its read and its write

vars == <<dom, cont, contAlloc, young, live, phase, marked, darkened,
          snapshot, pending>>

SeqSet(q) == {q[i] : i \in 1 .. Len(q)}

Alone == Cardinality(Domains) = 1

\* No domain is inside caml_continuation_use_noexc: the primitive has no
\* poll point, so a stop-the-world section waits for it to return.
Quiescent == \A d \in Domains : pending[d] = NoUse

Init ==
  \E main \in [Domains -> Stacks] :
    /\ \A d, e \in Domains : d # e => main[d] # main[e]
    /\ dom = [d \in Domains |-> <<main[d]>>]
    /\ live = {main[d] : d \in Domains}
    /\ cont = [c \in Conts |-> <<>>]
    /\ contAlloc = {}
    /\ young = {}
    /\ phase = "idle"
    /\ marked = {}
    /\ darkened = {}
    /\ snapshot = {}
    /\ pending = [d \in Domains |-> NoUse]

(***************************************************************************)
(* Mutator steps.                                                          *)
(***************************************************************************)

\* caml_alloc_stack followed by runstack: a new fiber on top of the chain.
NewFiber(d, s) ==
  /\ pending[d] = NoUse
  /\ s \notin live
  /\ dom' = [dom EXCEPT ![d] = <<s>> \o @]
  /\ live' = live \cup {s}
  /\ UNCHANGED <<cont, contAlloc, young, phase, marked, darkened, snapshot,
                 pending>>

\* A fiber returns and caml_free_stack releases its segment.
FiberReturn(d) ==
  LET s == Head(dom[d])
  IN /\ pending[d] = NoUse
     /\ Len(dom[d]) > 1
     /\ dom' = [dom EXCEPT ![d] = Tail(@)]
     /\ live' = live \ {s}
     /\ marked' = marked \ {s}
     /\ snapshot' = snapshot \ {s}
     /\ UNCHANGED <<cont, contAlloc, young, phase, darkened, pending>>

\* perform: the k innermost segments go into a new continuation block,
\* allocated in the minor heap.
Perform(d, c, k) ==
  /\ pending[d] = NoUse
  /\ c \notin contAlloc
  /\ k \in 1 .. Len(dom[d]) - 1
  /\ cont' = [cont EXCEPT ![c] = SubSeq(dom[d], 1, k)]
  /\ dom' = [dom EXCEPT ![d] = SubSeq(@, k + 1, Len(@))]
  /\ contAlloc' = contAlloc \cup {c}
  /\ young' = young \cup {c}
  /\ UNCHANGED <<live, phase, marked, darkened, snapshot, pending>>

\* caml_darken_cont: mark the block and scan its chain (atomic: a domain
\* that finds the block being marked by another waits for it).
DarkenCont(c) ==
  /\ darkened' = darkened \cup {c}
  /\ marked' = marked \cup SeqSet(cont[c])

\* Mutant of UseBegin: the barrier is skipped.
UseBeginNoBarrier(d, c, op) ==
  /\ pending[d] = NoUse
  /\ c \in contAlloc
  /\ pending' = [pending EXCEPT ![d] = [op |-> op, c |-> c, v |-> cont[c]]]
  /\ UNCHANGED <<dom, cont, contAlloc, young, live, phase, marked, darkened,
                 snapshot>>

\* Mutant of UseBegin: young blocks are darkened too.
UseBeginDarkenYoung(d, c, op) ==
  /\ pending[d] = NoUse
  /\ c \in contAlloc
  /\ IF phase = "marking"
     THEN DarkenCont(c)
     ELSE UNCHANGED <<marked, darkened>>
  /\ pending' = [pending EXCEPT ![d] = [op |-> op, c |-> c, v |-> cont[c]]]
  /\ UNCHANGED <<dom, cont, contAlloc, young, live, phase, snapshot>>

\* caml_continuation_use_noexc, first half: the barrier
\*   if (!Is_young(cont) && caml_marking_started()) caml_darken_cont(cont);
\* then v = Field(cont, 0).
UseBegin(d, c, op) ==
  /\ pending[d] = NoUse
  /\ c \in contAlloc
  /\ IF c \notin young /\ phase = "marking"
     THEN DarkenCont(c)
     ELSE UNCHANGED <<marked, darkened>>
  /\ pending' = [pending EXCEPT ![d] = [op |-> op, c |-> c, v |-> cont[c]]]
  /\ UNCHANGED <<dom, cont, contAlloc, young, live, phase, snapshot>>

\* caml_continuation_use_noexc, second half (plain store when alone, CAS
\* otherwise), then the caller: resume puts the chain on top of the
\* domain's chain; caml_drop_continuation frees the returned segment.
UseEnd(d) ==
  LET p     == pending[d]
      taken == Alone \/ cont[p.c] = p.v
      r     == IF taken THEN p.v ELSE <<>>
  IN /\ p # NoUse
     /\ pending' = [pending EXCEPT ![d] = NoUse]
     /\ cont' = IF taken THEN [cont EXCEPT ![p.c] = <<>>] ELSE cont
     /\ IF r = <<>>
        THEN UNCHANGED <<dom, live, marked, snapshot>>
        ELSE IF p.op = "drop"
        THEN /\ live' = live \ {Head(r)}
             /\ marked' = marked \ {Head(r)}
             /\ snapshot' = snapshot \ {Head(r)}
             /\ UNCHANGED dom
        ELSE /\ dom' = [dom EXCEPT ![d] = r \o @]
             /\ UNCHANGED <<live, marked, snapshot>>
     /\ UNCHANGED <<contAlloc, young, phase, darkened>>

(***************************************************************************)
(* Collector steps (major_gc.c, minor_gc.c).                               *)
(***************************************************************************)

\* Stop-the-world cycle start: the minor heaps are emptied, so every block
\* is in the major heap, and each domain's current chain is scanned.
StartCycle ==
  /\ phase = "idle"
  /\ Quiescent
  /\ phase' = "marking"
  /\ young' = {}
  /\ marked' = UNION {SeqSet(dom[d]) : d \in Domains}
  /\ darkened' = {}
  /\ snapshot' = live
  /\ UNCHANGED <<dom, cont, contAlloc, live, pending>>

\* The mark loop reaches an undarkened block of the major heap.
MarkCont(c) ==
  /\ phase = "marking"
  /\ c \in contAlloc \ (young \cup darkened)
  /\ DarkenCont(c)
  /\ UNCHANGED <<dom, cont, contAlloc, young, live, phase, snapshot, pending>>

\* Stop-the-world minor collection: young blocks are promoted; during
\* marking they are allocated already marked.
MinorGC ==
  /\ young # {}
  /\ Quiescent
  /\ young' = {}
  /\ darkened' = IF phase = "marking" THEN darkened \cup young ELSE darkened
  /\ UNCHANGED <<dom, cont, contAlloc, live, phase, marked, snapshot, pending>>

\* Marking ends once every block of the major heap has been darkened.
EndCycle ==
  /\ phase = "marking"
  /\ Quiescent
  /\ contAlloc \ young \subseteq darkened
  /\ phase' = "idle"
  /\ marked' = {}
  /\ darkened' = {}
  /\ snapshot' = {}
  /\ UNCHANGED <<dom, cont, contAlloc, young, live, pending>>

Next ==
  \/ \E d \in Domains :
       \/ \E s \in Stacks : NewFiber(d, s)
       \/ FiberReturn(d)
       \/ \E c \in Conts, k \in 1 .. Cardinality(Stacks) : Perform(d, c, k)
       \/ \E c \in Conts, op \in UseOps : UseBegin(d, c, op)
       \/ UseEnd(d)
  \/ StartCycle
  \/ \E c \in Conts : MarkCont(c)
  \/ MinorGC
  \/ EndCycle

Spec == Init /\ [][Next]_vars

(***************************************************************************)
(* Properties.                                                             *)
(***************************************************************************)

\* Types; a darkened block is always one of the major heap (darkening a
\* block of the minor heap would corrupt it).
TypeOK ==
  /\ dom \in [Domains -> Seq(Stacks)]
  /\ cont \in [Conts -> Seq(Stacks)]
  /\ young \subseteq contAlloc /\ contAlloc \subseteq Conts
  /\ live \subseteq Stacks /\ marked \subseteq Stacks
  /\ snapshot \subseteq Stacks
  /\ darkened \subseteq contAlloc \ young
  /\ phase \in {"idle", "marking"}
  /\ \A d \in Domains :
       pending[d] = NoUse \/
       pending[d] \in [op : UseOps, c : contAlloc, v : Seq(Stacks)]

\* Stacks still reachable: on a domain's chain or in a continuation.
Reachable == UNION {SeqSet(dom[d]) : d \in Domains}
               \cup UNION {SeqSet(cont[c]) : c \in Conts}

\* The snapshot invariant the barrier protects: during marking, every stack
\* that was allocated when the cycle started and is still reachable has
\* been scanned, or still sits in a major-heap block the collector has yet
\* to darken.  So when marking ends no reachable stack of the snapshot is
\* left unscanned.  Taking a continuation moves a chain out of the blocks
\* the collector will visit; without the darkening in
\* caml_continuation_use_noexc the chain would never be scanned.
SnapshotScanned ==
  phase = "marking" =>
    \A s \in snapshot \cap Reachable :
      \/ s \in marked
      \/ \E c \in contAlloc \ (young \cup darkened) : s \in SeqSet(cont[c])

=============================================================================
