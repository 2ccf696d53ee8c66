------------------------------ MODULE MCLists ------------------------------
(* Lists on small instances.                                               *)
EXTENDS Lists, TLC

(* Table entries and semaphore addresses are interchangeable: Init takes   *)
(* the tables in every order.                                              *)
Symmetry == {f @@ g @@ h : f \in Permutations(Pcbs), g \in Permutations(Descs),
                           h \in Permutations(Sems)}
=============================================================================
