--------------------------- MODULE MCArenaAllocator ---------------------------
(* An instance of ArenaAllocator for TLC. *)
EXTENDS ArenaAllocator, TLC

Symmetry == Permutations(Allocator)

\* Arenas of two objects, of three, of two and a tail, of one, and a size that is
\* too large for an arena.
MCShape == {[size |-> 16, alignment |-> 16], [size |-> 12, alignment |-> 8],
            [size |-> 20, alignment |-> 4], [size |-> 36, alignment |-> 8],
            [size |-> 56, alignment |-> 8]}

\* No step is taken with more than three objects laid out.
Bounds == Cardinality(DOMAIN word) <= 3
=============================================================================
