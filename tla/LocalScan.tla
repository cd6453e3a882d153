----------------------------- MODULE LocalScan -----------------------------
(***************************************************************************)
(* Scanning a stack's local allocations for the GC (native code): the      *)
(* roots of the stack frames and of CAMLlocal tables are visited (visit),  *)
(* which marks the local blocks they reach; then scan_local_allocations    *)
(* walks the local blocks from local_sp, the most recent, to the oldest,   *)
(* and for each marked block resets the mark and visits its fields.        *)
(*                                                                         *)
(* Positions stand for offsets from the end of the arenas (local_sp is one *)
(* offset shared by all arenas): position 1 is the most recent block, a    *)
(* larger position is an older block.  The blocks at positions             *)
(* 1 .. TopBlocks are in the last arena, the others in the one before it;  *)
(* the last arena has the Local_uninit_hd header at position TopBlocks + 1 *)
(* where the earlier arena continues.                                      *)
(*                                                                         *)
(* A field holds a local block (its position), HEAP (a block of the        *)
(* minor or major heap, for which visit calls the scanning action f) or    *)
(* CODE (a closure's code pointer, which must never reach f).  f is        *)
(* modelled by the set of locations it is called with.                     *)
(***************************************************************************)
EXTENDS Integers, Sequences, FiniteSets

CONSTANTS
  NBlocks,     \* local blocks on the stack
  TopBlocks,   \* how many of them are in the last arena
  NRoots,      \* live roots of the frames and local roots tables
  MaxFields,   \* bound on the fields of a block
  AllowSelf    \* whether a block may hold a pointer to itself

Pos == 1 .. NBlocks
HEAP == 0    \* a pointer to a block of the minor or major heap
CODE == -1   \* a code pointer
ROOTS == 0   \* the location <<ROOTS, r>> is root r; <<j, i>> is field i of block j
Values == Pos \cup {HEAP}

\* The blocks the program can have left on the local stack: ordinary
\* blocks, closures (whose first field, before Start_env, is code) and
\* blocks with a tag >= No_scan_tag (whose words are not values).
Blocks ==
  [kind : {"scan"}, fields : UNION {[1 .. n -> Values] : n \in 0 .. MaxFields}]
  \cup [kind : {"closure"}, fields : {<<CODE, v>> : v \in Values}]
  \cup [kind : {"noscan"}, fields : {<<HEAP>>}]

VARIABLES
  blocks,  \* blocks[j]: the local block at position j (input)
  roots,   \* roots[r]: the value in root r (input)
  hdr,     \* hdr[j]: "marked" (colors.GARBAGE) or "unmarked" (NOT_MARKABLE)
  found,   \* locations f has been called with
  pc,      \* "roots", "scan", "done" or "fatal"
  sp,      \* position being scanned
  arena    \* arena_ix: 1 for the last arena, 0 for the one before

vars == <<blocks, roots, hdr, found, pc, sp, arena>>

ArenaOf(j) == IF j <= TopBlocks THEN 1 ELSE 0

\* Mutant of ScanFields: a closure's fields are scanned from 0, not from
\* Start_env.
ScanFieldsNoStartEnv(b) ==
  IF b.kind = "noscan" THEN {} ELSE 1 .. Len(b.fields)

\* The fields of a block that scan_local_allocations visits.
ScanFields(b) ==
  CASE b.kind = "noscan"  -> {}
    [] b.kind = "closure" -> 2 .. Len(b.fields)
    [] OTHER              -> 1 .. Len(b.fields)

(***************************************************************************)
(* visit and the field loop.                                               *)
(***************************************************************************)

\* visit(p) for a location loc holding v: a heap block goes to f; an
\* unmarked local block is marked and its arena returned; anything else
\* gives -1.
Visit(v, loc, h, fnd) ==
  IF v \in Pos
  THEN IF h[v] = "marked" THEN [ix |-> -1, hdr |-> h, found |-> fnd]
       ELSE [ix |-> ArenaOf(v), hdr |-> [h EXCEPT ![v] = "marked"], found |-> fnd]
  ELSE [ix |-> -1, hdr |-> h, found |-> fnd \cup {loc}]

\* Mutant of FieldLoop: a pointer to a more recent block is let through.
RECURSIVE FieldLoopNoCheck(_, _, _, _, _)
FieldLoopNoCheck(j, is, h, fnd, fatal) ==
  IF is = {} THEN [hdr |-> h, found |-> fnd, fatal |-> fatal]
  ELSE LET i == CHOOSE k \in is : \A l \in is : k <= l
           r == Visit(blocks[j].fields[i], <<j, i>>, h, fnd)
       IN FieldLoopNoCheck(j, is \ {i}, r.hdr, r.found, FALSE)

\* The loop over the scannable fields of block j, in order; a local block
\* newly marked at a more recent position is a backwards pointer and
\* stops the scan with caml_fatal_error.
RECURSIVE FieldLoop(_, _, _, _, _)
FieldLoop(j, is, h, fnd, fatal) ==
  IF is = {} \/ fatal THEN [hdr |-> h, found |-> fnd, fatal |-> fatal]
  ELSE LET i == CHOOSE k \in is : \A l \in is : k <= l
           v == blocks[j].fields[i]
           r == Visit(v, <<j, i>>, h, fnd)
       IN FieldLoop(j, is \ {i}, r.hdr, r.found, r.ix # -1 /\ v < j)

(***************************************************************************)
(* The scan.                                                               *)
(***************************************************************************)

Init ==
  /\ blocks \in [Pos -> Blocks]
  /\ AllowSelf \/ \A j \in Pos : \A i \in ScanFields(blocks[j]) :
                                   blocks[j].fields[i] # j
  /\ roots \in [1 .. NRoots -> Values]
  /\ hdr = [j \in Pos |-> "unmarked"]
  /\ found = {}
  /\ pc = "roots"
  /\ sp = 1
  /\ arena = 1

\* scan_stack_frames and the local roots of caml_do_local_roots: every
\* live root is visited with the stack's local arenas.
VisitRoots ==
  LET RECURSIVE Go(_, _, _)
      Go(r, h, fnd) ==
        IF r > NRoots THEN [hdr |-> h, found |-> fnd]
        ELSE LET x == Visit(roots[r], <<ROOTS, r>>, h, fnd)
             IN Go(r + 1, x.hdr, x.found)
      res == Go(1, hdr, found)
  IN /\ pc = "roots"
     /\ hdr' = res.hdr /\ found' = res.found
     /\ pc' = "scan"
     /\ UNCHANGED <<blocks, roots, sp, arena>>

\* Mutant of NextArena: the loop continues without --arena_ix, so it
\* reads the same Local_uninit_hd again.
NextArenaStuck ==
  /\ pc = "scan" /\ sp <= NBlocks
  /\ arena = 1 /\ sp = TopBlocks + 1
  /\ UNCHANGED vars

\* The header at sp in the last arena is Local_uninit_hd: go on in the
\* arena before it, at the same offset.
NextArena ==
  /\ pc = "scan" /\ sp <= NBlocks
  /\ arena = 1 /\ sp = TopBlocks + 1
  /\ arena' = 0
  /\ UNCHANGED <<blocks, roots, hdr, found, pc, sp>>

\* Mutant of ScanBlock: the mark is not reset.
ScanBlockNoReset ==
  LET r == FieldLoop(sp, ScanFields(blocks[sp]), hdr, found, FALSE)
  IN /\ pc = "scan" /\ sp <= NBlocks
     /\ ~(arena = 1 /\ sp = TopBlocks + 1)
     /\ IF hdr[sp] = "unmarked"
        THEN UNCHANGED <<hdr, found, pc>>
        ELSE /\ hdr' = r.hdr /\ found' = r.found
             /\ pc' = IF r.fatal THEN "fatal" ELSE pc
     /\ sp' = sp + 1
     /\ UNCHANGED <<blocks, roots, arena>>

\* One block: unmarked blocks are skipped; a marked one has its mark reset,
\* then, unless its tag is >= No_scan_tag, its fields are visited.
ScanBlock ==
  LET b == blocks[sp]
      r == FieldLoop(sp, ScanFields(b), [hdr EXCEPT ![sp] = "unmarked"],
                     found, FALSE)
  IN /\ pc = "scan" /\ sp <= NBlocks
     /\ ~(arena = 1 /\ sp = TopBlocks + 1)
     /\ IF hdr[sp] = "unmarked"
        THEN UNCHANGED <<hdr, found, pc>>
        ELSE /\ hdr' = r.hdr /\ found' = r.found
             /\ pc' = IF r.fatal THEN "fatal" ELSE pc
     /\ sp' = sp + 1
     /\ UNCHANGED <<blocks, roots, arena>>

\* while (sp < 0): the walk ends at the oldest block.
Finish ==
  /\ pc = "scan" /\ sp > NBlocks
  /\ pc' = "done"
  /\ UNCHANGED <<blocks, roots, hdr, found, sp, arena>>

\* The scan has ended (or the process has stopped).
Ended == pc \in {"done", "fatal"} /\ UNCHANGED vars

Next == VisitRoots \/ NextArena \/ ScanBlock \/ Finish \/ Ended

\* The scan is a loop run to its end by the collector: weak fairness.
Spec == Init /\ [][Next]_vars /\ WF_vars(Next)

(***************************************************************************)
(* Reference definitions and properties.                                   *)
(***************************************************************************)

\* The value at a location.
Content(l) == IF l[1] = ROOTS THEN roots[l[2]] ELSE blocks[l[1]].fields[l[2]]

\* Type invariant; f is only ever called on a location holding a value
\* (never on a code pointer or a word of an unscanned block).
TypeOK ==
  /\ \A l \in found : Content(l) \in Values
  /\ blocks \in [Pos -> Blocks] /\ roots \in [1 .. NRoots -> Values]
  /\ hdr \in [Pos -> {"marked", "unmarked"}]
  /\ pc \in {"roots", "scan", "done", "fatal"}
  /\ sp \in 1 .. NBlocks + 1 /\ arena \in {0, 1}

\* The local blocks reachable from the roots through scanned fields.
LocalEdges(j) == {blocks[j].fields[i] : i \in ScanFields(blocks[j])} \cap Pos
RECURSIVE Closure(_)
Closure(s) ==
  LET t == s \cup UNION {LocalEdges(j) : j \in s}
  IN IF t = s THEN s ELSE Closure(t)
Reachable == Closure({roots[r] : r \in 1 .. NRoots} \cap Pos)

\* The heap references the collector must be told about.
HeapRefs ==
  {<<ROOTS, r>> : r \in {q \in 1 .. NRoots : roots[q] = HEAP}}
  \cup UNION {{<<j, i>> : i \in {k \in ScanFields(blocks[j]) :
                                   blocks[j].fields[k] = HEAP}} :
               j \in Reachable}

\* A reachable block holds a pointer to a more recent local block.
BackwardsPointer ==
  \E j \in Reachable : \E t \in LocalEdges(j) : t < j

\* The one-pass scan is exact: when it ends normally, f has been called on
\* exactly the heap references held by the roots and by the local blocks
\* reachable from them (none missed, no code pointer or unscannable word),
\* and the local stack had no backwards pointer; when it stops with the
\* fatal error, there was one.
ScanExact ==
  /\ pc = "done" => found = HeapRefs /\ ~BackwardsPointer
  /\ pc = "fatal" => BackwardsPointer

\* visit's marks are temporary: a scan that ends normally leaves every
\* local block unmarked (NOT_MARKABLE), as the next scan, under the next
\* cycle's colours, requires.
MarksTemporary == pc = "done" => \A j \in Pos : hdr[j] = "unmarked"

\* Every scan ends.
ScanEnds == <>(pc \in {"done", "fatal"})

=============================================================================
