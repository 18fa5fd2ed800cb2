-------------------------- MODULE MCDefinitionEvents --------------------------
(* Writers and editors are interchangeable.                                *)
EXTENDS DefinitionEvents, TLC

Symmetry == Permutations(Writers) \cup Permutations(Editors)
=============================================================================
