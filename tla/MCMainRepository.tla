--------------------------- MODULE MCMainRepository ---------------------------
(* TLC instances of MainRepository.  The coroutines are interchangeable;     *)
(* the UUIDs are not (CHOOSE picks among them).                              *)
EXTENDS MainRepository, TLC

Symmetry == Permutations(Coroutines)

================================================================================
