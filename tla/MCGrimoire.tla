----------------------------- MODULE MCGrimoire -----------------------------
(* One item, its texts, sources and writers interchangeable.                *)
EXTENDS Grimoire, TLC

Symmetry ==
  {t @@ s @@ w : t \in Permutations(Texts), s \in Permutations(Sources), w \in Permutations(Writers)}
=============================================================================
