----------------------------- MODULE WorkFence -----------------------------
(***************************************************************************)
(* What the fence of an account promises, with no lock files, registry,    *)
(* leases or database in sight: workers share the account and managers     *)
(* take it for themselves; no work starts while the account is shut, and   *)
(* none ever once it is closed.  Only work leaves data behind, and only a  *)
(* manager removes it, and closes the account, once it is shut and empty.  *)
(***************************************************************************)
CONSTANTS
  Workers,  \* requests and jobs of the account
  Managers  \* who suspends, restores and erases it

VARIABLES
  holder,  \* who shares the account, and who has it exclusively
  shut,    \* no work may start
  closed,  \* the account is erased
  data     \* is there data of the account?

fenceVars == <<holder, shut, closed, data>>

Parties == Workers \cup Managers

Init == holder = [p \in Parties |-> "none"] /\ ~shut /\ ~closed /\ ~data

Excluded == \E p \in Parties : holder[p] = "ex"

Share(p) ==
  /\ holder[p] = "none" /\ ~Excluded
  /\ ~shut /\ ~closed
  /\ holder' = [holder EXCEPT ![p] = "sh"]
  /\ UNCHANGED <<shut, closed, data>>

Write(p) ==
  /\ holder[p] = "sh"
  /\ data' = TRUE
  /\ UNCHANGED <<holder, shut, closed>>

Exclude(p) ==
  /\ \A q \in Parties : holder[q] = "none"
  /\ holder' = [holder EXCEPT ![p] = "ex"]
  /\ UNCHANGED <<shut, closed, data>>

\* Of what an account is, a manager changes anything, but closes it once and for all.
Manage(p) ==
  /\ holder[p] = "ex"
  /\ holder' \in {holder, [holder EXCEPT ![p] = "none"]}
  /\ shut' \in BOOLEAN
  /\ data' \in BOOLEAN /\ (data' => data)
  /\ closed' = closed

Close(p) ==
  /\ holder[p] = "ex"
  /\ shut /\ ~data
  /\ closed' = TRUE
  /\ UNCHANGED <<holder, shut, data>>

Leave(p) ==
  /\ holder[p] # "none"
  /\ holder' = [holder EXCEPT ![p] = "none"]
  /\ UNCHANGED <<shut, closed, data>>

Next ==
  \/ \E p \in Workers : Share(p) \/ Write(p)
  \/ \E p \in Managers : Exclude(p) \/ Manage(p) \/ Close(p)
  \/ \E p \in Parties : Leave(p)

Spec == Init /\ [][Next]_fenceVars

\* What follows: an account that is closed has no data, whatever was going on when it
\* was closed.
FenceInv ==
  /\ \A p, q \in Parties : p # q /\ holder[p] = "ex" => holder[q] = "none"
  /\ closed => ~data /\ \A p \in Parties : holder[p] # "sh"
=============================================================================
