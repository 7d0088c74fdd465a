-------------------------------- MODULE MCFix --------------------------------
(* Connections and client order ids are interchangeable.                    *)
EXTENDS Fix, TLC
Symmetry == Permutations(Conns) \union Permutations(ClOrdIds)
=============================================================================
