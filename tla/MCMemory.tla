------------------------------ MODULE MCMemory ------------------------------
(***************************************************************************)
(* Physical memory: the bitmap allocator under its callers, and the code   *)
(* that builds the first bitmap from the memory map.  The two share no     *)
(* state, so a behaviour takes the steps of the part that Init chooses and *)
(* the other part rests in an initial state.                               *)
(***************************************************************************)
EXTENDS BitmapAlloc, AllocBootstrap, SequencesExt

CONSTANTS Lengths,   \* bytes of one stretch of memory
          Stretches  \* how many stretches a memory map has

VARIABLE part

Kinds == {"free", "used", "hole"}
StartOf(ls, i) == FoldSeq(LAMBDA l, acc : l + acc, 0, SubSeq(ls, 1, i - 1))

\* Regions that follow each other, with holes, on and off page boundaries.
Map(ls, ks) ==
  SelectSeq([i \in 1..Stretches |-> [start |-> StartOf(ls, i), len |-> ls[i],
                                     free |-> ks[i] = "free", kind |-> ks[i]]],
            LAMBDA r : r.kind # "hole")

SmallMaps ==
  {Map(ls, ks) : ls \in [1..Stretches -> Lengths], ks \in [1..Stretches -> Kinds]}
    \ {<< >>}

MCReserved == {0, 5}

MemoryVars == <<part, vars, bootVars>>

MemoryInit ==
  /\ part \in {"allocator", "bootstrap"}
  /\ Init /\ BootInit
  /\ part = "allocator" => regions = CHOOSE m \in SmallMaps : TRUE

Allocator == part = "allocator" /\ Next /\ UNCHANGED <<part, bootVars>>
Bootstrap == part = "bootstrap" /\ BootNext /\ UNCHANGED <<part, vars>>

MemorySpec == MemoryInit /\ [][Allocator \/ Bootstrap]_MemoryVars
=============================================================================
