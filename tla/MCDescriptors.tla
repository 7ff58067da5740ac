---------------------------- MODULE MCDescriptors ----------------------------
(* TLC instances of SharedMaps.                                           *)
EXTENDS SharedMaps, TLC

(* Objects and names are interchangeable.                                  *)
Interchangeable == Permutations(Object) \cup Permutations(Name)
=============================================================================
