----------------------------- MODULE MCKeypadBoard -----------------------------
(***************************************************************************)
(* Small instances of KeypadBoard for TLC.                                 *)
(***************************************************************************)
EXTENDS KeypadBoard, TLC

\* No handle is special: a state and its image under a permutation of the
\* handles behave alike. Used for safety runs only.
HandleSymmetry == Permutations(Handles)

=============================================================================
