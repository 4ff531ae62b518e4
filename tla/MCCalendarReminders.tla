------------------------ MODULE MCCalendarReminders ------------------------
(* Instances of CalendarReminders for TLC: one owner with one or two endpoints. *)
EXTENDS CalendarReminders, TLC

MCUsers == {"u1"}
MCOwnerOne == (1 :> "u1")
MCOwnerTwo == (1 :> "u1") @@ (2 :> "u1")
MCAddressee == [k \in Occurrences |-> "u1"]

Symmetry == Permutations(Senders) \cup Permutations(Schedulers)
=============================================================================
