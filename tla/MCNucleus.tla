----------------------------- MODULE MCNucleus -----------------------------
(* Nucleus on small instances.                                             *)
EXTENDS Nucleus

(* PCBs are interchangeable; used by the runs without liveness properties. *)
Symmetry == Permutations(Pcbs)

(* For the liveness runs, where TLC's symmetry reduction is not sound, the *)
(* same argument fixes which PCB the first process gets.                   *)
FirstPcb == CHOOSE p \in Pcbs : TRUE
InitFirst == Init /\ currProc = FirstPcb
FairSpecFirst == InitFirst /\ [][Next]_vars /\ Fairness
=============================================================================
