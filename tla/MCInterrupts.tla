---------------------------- MODULE MCInterrupts ----------------------------
(* Interrupts on small instances.                                          *)
EXTENDS Interrupts, TLC

(* A device with one command register, and a terminal with its two halves. *)
FlashAndTerminal == {<<4, 0>>, <<7, 0>>}
Terminal == {<<7, 0>>}

(* TLC evaluates what InterruptsProofs proves.                            *)
ASSUME IndicesEvaluated == IndicesAgree

(* Processes are interchangeable; used by the run without liveness.        *)
Symmetry == Permutations(Procs)
=============================================================================
