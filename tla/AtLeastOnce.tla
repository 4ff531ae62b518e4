---------------------------- MODULE AtLeastOnce ----------------------------
(***************************************************************************)
(* What a queue with leases and numbered claims promises for each item,    *)
(* with no workers, leases, or retries in sight: an item is worked on      *)
(* under a bounded number of claims, each claim has at most one effect,    *)
(* the item is done only if its last claim has had its effect, and an item *)
(* that is done or dropped stays so.  An effect may come late, also when   *)
(* the item is closed: exactly-once is not promised.                       *)
(***************************************************************************)
EXTENDS Naturals

CONSTANTS Items, MaxAttempts

VARIABLES
  phase,   \* of each item
  claims,  \* number of claims of each item
  effects  \* the claims of each item that have had their effect

Phases == {"none", "open", "done", "dropped", "forgotten"}

Init ==
  /\ phase = [i \in Items |-> "none"]
  /\ claims = [i \in Items |-> 0]
  /\ effects = [i \in Items |-> {}]

\* The steps of one item.
Idle(i) == phase'[i] = phase[i] /\ claims'[i] = claims[i]

Open(i) == phase[i] = "none" /\ phase'[i] \in {"none", "open"} /\ claims'[i] = claims[i]

Claim(i) ==
  /\ phase[i] = "open" /\ phase'[i] = "open"
  /\ claims[i] < MaxAttempts /\ claims'[i] = claims[i] + 1

Complete(i) ==
  /\ phase[i] = "open" /\ phase'[i] = "done"
  /\ claims[i] \in effects[i]
  /\ claims'[i] = claims[i]

Drop(i) == phase[i] = "open" /\ phase'[i] = "dropped" /\ claims'[i] = claims[i]

Forget(i) ==
  phase[i] \in {"done", "dropped"} /\ phase'[i] = "forgotten" /\ claims'[i] = claims[i]

\* A transaction may move several items at once.
Move ==
  /\ phase' \in [Items -> Phases]
  /\ DOMAIN claims' = Items
  /\ \A i \in Items : Idle(i) \/ Open(i) \/ Claim(i) \/ Complete(i) \/ Drop(i) \/ Forget(i)
  /\ effects' = effects

Effect(i) ==
  /\ \E n \in 1 .. claims[i] : n \notin effects[i] /\ effects' = [effects EXCEPT ![i] = @ \cup {n}]
  /\ UNCHANGED <<phase, claims>>

Next == Move \/ \E i \in Items : Effect(i)

Spec == Init /\ [][Next]_<<phase, claims, effects>>
=============================================================================
