-------------------------------- MODULE Tree --------------------------------
(***************************************************************************)
(* Places in the file system.  A directory, or a file, is the sequence of  *)
(* names that leads to it from the root.                                   *)
(***************************************************************************)
EXTENDS Naturals, Sequences

\* Slip: the first name is dropped instead of the last.
dirname_front(d) == IF d = <<>> THEN d ELSE SubSeq(d, 2, Len(d))

dirname(d) == IF d = <<>> THEN d ELSE SubSeq(d, 1, Len(d) - 1)

\* d is top or lies below it.
Within(top, d) ==
    Len(top) <= Len(d) /\ \A i \in 1..Len(top) : d[i] = top[i]
=============================================================================
