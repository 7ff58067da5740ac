------------------------------- MODULE Vector -------------------------------
(***************************************************************************)
(* The std::vector idiom both selectors use to drop a descriptor,          *)
(*   v.erase(std::remove_if(v.begin(), v.end(),                            *)
(*                          [fd](auto x) { return x.fd == fd; }), v.end()) *)
(* on a sequence of records with a field fd.  The elements that stay keep  *)
(* their order.  The definition goes through the positions that survive,   *)
(* rather than through SelectSeq, so that it can be reasoned about for     *)
(* vectors of every length (module Vector_proofs).                         *)
(***************************************************************************)
EXTENDS Integers, Sequences, FiniteSets

(* The positions of v whose element is not registered for fd.              *)
Survivors(v, fd) == {i \in 1..Len(v) : v[i].fd # fd}

(* The k-th smallest member of a finite set of numbers.                    *)
Nth(S, k) == CHOOSE i \in S : Cardinality({j \in S : j <= i}) = k

(* The elements of v at the positions S, moved together in order.          *)
Pack(v, S) == [k \in 1..Cardinality(S) |-> v[Nth(S, k)]]

Erase(v, fd) == Pack(v, Survivors(v, fd))
=============================================================================
