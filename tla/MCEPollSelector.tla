--------------------------- MODULE MCEPollSelector ---------------------------
(* Small instances of EPollSelector.                                       *)
EXTENDS EPollSelector, TLC

Symmetry == Permutations(Fd)

MCReadInterest == {{"Read"}}

MCHabits == {{}, {"order", "capacity", "failure", "edit"}}

MCFewConditions == {{}, {"EPOLLIN"}}
=============================================================================
