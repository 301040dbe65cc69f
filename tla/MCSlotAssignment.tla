-------------------------- MODULE MCSlotAssignment --------------------------
(***************************************************************************)
(* SlotAssignment for TLC: videos, requests, slot ids and times are        *)
(* interchangeable (which open slot is the earliest does not matter, as    *)
(* any slot may be chosen by hand).                                        *)
(***************************************************************************)
EXTENDS SlotAssignment, TLC

Symmetry == Permutations(Slots) \cup Permutations(Times)
                \cup Permutations(Videos) \cup Permutations(Requests)
=============================================================================
