----------------------------- MODULE MCEvBuffer -----------------------------
(***************************************************************************)
(* EvBuffer for TLC: which buffer is which does not matter.                *)
(***************************************************************************)
EXTENDS EvBuffer, TLC

Symmetry == Permutations(Buffers)

\* No action reads call, and every step is checked whether its state is new
\* or not: states that differ in call alone need not be told apart.
View == buf
=============================================================================
