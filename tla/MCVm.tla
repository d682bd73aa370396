-------------------------------- MODULE MCVm --------------------------------
(***************************************************************************)
(* Small address spaces: page 1 holds a segment, or the end of one and the *)
(* start of the next; a heap of up to one page, a stack of two.            *)
(***************************************************************************)
EXTENDS Vm, TLC

MCLayouts == { << [lo |-> 1, hi |-> 1] >>,
               << [lo |-> 1, hi |-> 1], [lo |-> 1, hi |-> 1] >> }

Symmetry == Permutations(Page) \cup Permutations(Proc)
==============================================================================
