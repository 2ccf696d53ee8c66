----------------------------- MODULE MCSupport -----------------------------
(* Support on small instances.                                             *)
EXTENDS Support, TLC

(* PCBs of programs are interchangeable, and so are the ASIDs other than   *)
(* the shell's; used by the run without liveness properties.               *)
Symmetry == {f @@ g : f \in Permutations(Kids),
                      g \in Permutations(Asids \ {SHELL_ASID})}
=============================================================================
