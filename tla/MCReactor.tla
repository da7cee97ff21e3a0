----------------------------- MODULE MCReactor -----------------------------
(* Reactor for TLC: the constants are model values, so that descriptors,   *)
(* connections and workers are interchangeable.                            *)
EXTENDS Reactor, TLC

Symmetry == Permutations(Fds) \cup Permutations(Conns) \cup
            Permutations(Workers)
=============================================================================
