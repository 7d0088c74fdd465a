------------------------------ MODULE MCJournal ------------------------------
(* Two commands for the book of symbol 1, which may change places, and one  *)
(* for that of symbol 2.                                                    *)
EXTENDS Journal, TLC

CONSTANTS buy, sell, other

MCCommand == {buy, sell, other}
MCSymbolOf == [c \in MCCommand |-> IF c = other THEN 2 ELSE 1]
MCSymmetry == Permutations({buy, sell})
=============================================================================
