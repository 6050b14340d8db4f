------------------------------ MODULE MCPager ------------------------------
(* Two connections, which are interchangeable, on a file of two pages.       *)
EXTENDS Pager, TLC

Symmetry == Permutations(Conns)
=============================================================================
