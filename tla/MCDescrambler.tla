--------------------------- MODULE MCDescrambler ---------------------------
(* Two processes and two discs, one of which has a seed the search leaves  *)
(* out.                                                                    *)
EXTENDS DescramblerProps, TLC

MCSeedOf ==
  [d \in Discs |-> IF d = "first" THEN [ph \in 0 .. 1 |-> 1] ELSE [ph \in 0 .. 1 |-> IF ph = 0 THEN 0 ELSE 2]]
MCSymmetry == Permutations(Procs) \cup Permutations(Inodes)
MCDamages == {{}, {0}, {1}}
=============================================================================
