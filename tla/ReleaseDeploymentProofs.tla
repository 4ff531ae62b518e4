----------------------- MODULE ReleaseDeploymentProofs -----------------------
(* Proofs about ReleaseDeployment: two releases never consume the same queues, *)
(* the active target is untouched until another is accepted, and the state     *)
(* file tells the truth when no release is in progress.                        *)
EXTENDS ReleaseDeployment, TLAPS

-----------------------------------------------------------------------------
(* The invariant.                                                            *)

\* A release is prepared in the slot that is not active, and somebody works only on an
\* open one.
Shaped ==
  /\ activeSlot = knownGood.slot
  /\ release.open => release.slot = Other(knownGood.slot)
  /\ release.generation = begun
  /\ deployer.at = "idle" => deployer = NoDeployer
  /\ deployer.at # "idle" => release.open

\* Traffic leaves the active slot for containers of the release that may be rolled back.
Standing ==
  /\ stack[knownGood.slot] = knownGood.sha
  /\ traffic # knownGood.slot =>
       /\ release.open /\ release.phase = "traffic_switch"
       /\ stack[traffic] = release.sha

\* The authority is not the candidate's.
NotCandidates == authority.owner = "CANDIDATE" => authority.candidate = Retained

\* Whoever the authority names is the known good release or the open candidate, and the
\* workers of the other slot are off.
Fenced ==
  /\ \E s \in Slots : consumers[s] = "inactive"
  /\ authority.owner = "OLD" =>
       authority.old = Retained /\ consumers[Other(knownGood.slot)] = "inactive"
  /\ authority.owner = "CANDIDATE" =>
       \/ authority.candidate = Retained /\ consumers[Other(knownGood.slot)] = "inactive"
       \/ /\ release.open
          /\ authority.candidate = Candidate /\ consumers[knownGood.slot] = "inactive"

\* Between releases nothing is left of the candidate.
Resting ==
  ~release.open => NotCandidates /\ consumers[Other(knownGood.slot)] = "inactive"

\* In which mode each step is taken.
InMode ==
  /\ deployer.at \in {"start", "cutover", "inhibit", "authorize", "activate", "confirm", "switch",
       "observe"} => deployer.mode = "deploy"
  /\ deployer.at \in {"revoke", "dismiss", "entrust", "restore", "settle"} => deployer.mode # "deploy"
  /\ deployer.at = "quiesce" => deployer.mode \in {"deploy", "recover"}
  /\ deployer.at = "revoke" => deployer.mode # "recover"
  /\ deployer.at = "routeBack" => deployer.mode = "rollback"
  /\ deployer.at \in {"route", "sort", "reinstate"} => deployer.mode = "recover"

\* What each step finds in the authority.
Authorized ==
  /\ deployer.at \in {"start", "cutover", "clean", "archive"} => NotCandidates
  /\ deployer.at \in {"inhibit", "restore", "settle", "routeBack"} => authority.owner = "OLD"
  /\ deployer.at \in {"quiesce", "authorize", "dismiss", "entrust"} => authority.owner = "NONE"
  /\ deployer.at \in {"activate", "confirm", "switch", "observe"} =>
       authority.owner = "CANDIDATE" /\ authority.candidate = Candidate
  /\ deployer.at = "revoke" => authority.owner \in {"CANDIDATE", "NONE"}
  /\ deployer.at \notin {"idle", "start", "cutover", "clean", "archive"} =>
       authority.generation = release.generation

\* What each step finds of the candidate and the traffic.
Placed ==
  /\ deployer.mode = "deploy" /\ deployer.at \in {"cutover", "inhibit", "quiesce", "authorize",
       "activate", "confirm", "switch"} => stack[release.slot] = release.sha
  /\ deployer.at \in {"switch", "observe"} => release.phase = "traffic_switch"
  /\ deployer.at = "observe" => traffic = release.slot
  /\ deployer.at = "archive" =>
       traffic = knownGood.slot /\ consumers[release.slot] = "inactive"
  /\ deployer.at \in {"authorize", "entrust"} => \A s \in Slots : consumers[s] = "inactive"

\* What recovery saw of the workers, and read of the authority, is still so.
Seen ==
  /\ deployer.mode = "recover" /\ deployer.at \in {"route", "sort", "reinstate", "quiesce", "dismiss"} =>
       /\ deployer.noted => release.owner = authority.owner
       /\ deployer.seen.side \in {"none", "candidate"} => consumers[knownGood.slot] = "inactive"
       /\ deployer.seen.side \in {"none", "old"} => consumers[release.slot] = "inactive"
  /\ deployer.mode = "recover" /\ deployer.at = "dismiss" => consumers[knownGood.slot] = "inactive"
  /\ deployer.at = "reinstate" =>
       deployer.noted /\ (RetainedActive(deployer.seen) => release.owner = "OLD")

ReleaseInv ==
  /\ ReleaseTypeOK /\ Shaped /\ Standing /\ Fenced /\ Resting
  /\ InMode /\ Authorized /\ Placed /\ Seen

-----------------------------------------------------------------------------
(* Slots, and the first state.                                               *)

LEMMA TwoSlots ==
  \A s \in Slots : Other(s) \in Slots /\ Other(s) # s /\ Slots = {s, Other(s)}
BY DEF Slots, Other

LEMMA InitInv == ReleaseInit => ReleaseInv
<1> SUFFICES ASSUME ReleaseInit PROVE ReleaseInv
  OBVIOUS
<1> USE ReleaseAssumption DEF ReleaseInit
<1>1. ReleaseTypeOK
  BY DEF ReleaseTypeOK, Generations, Identities, Slots, Groups, Owners, Steps, Modes, NoDeployer, Nobody
<1>2. Shaped /\ Standing
  BY DEF Shaped, Standing, Slots, NoDeployer
<1>3. Fenced /\ Resting
  BY DEF Fenced, Resting, NotCandidates, Retained, Slots, Other
<1>4. InMode /\ Authorized /\ Placed /\ Seen
  BY DEF InMode, Authorized, Placed, Seen, NoDeployer
<1> QED
  BY <1>1, <1>2, <1>3, <1>4 DEF ReleaseInv

-----------------------------------------------------------------------------
(* How a step ends.                                                          *)

\* What the steps may be where an exception is caught.
LEMMA Caught ==
  ASSUME ReleaseInv, deployer.at \notin {"idle", "revoke"}
  PROVE  \/ Handler = NoDeployer
         \/ /\ Handler = [deployer EXCEPT !.at = "clean", !.mode = "deploy"]
            /\ NotCandidates
         \/ /\ \E m \in {"undo", "withdraw", "rollback"} :
                 Handler = [deployer EXCEPT !.at = "revoke", !.mode = m]
            /\ authority.owner \in {"CANDIDATE", "NONE"}
            /\ authority.generation = release.generation
<1>1. deployer.at \in Steps
  BY DEF ReleaseInv, ReleaseTypeOK
<1>2. CASE In("deploy") /\ deployer.at \in {"authorize", "activate", "confirm", "switch", "observe"}
  <2>1. authority.owner \in {"CANDIDATE", "NONE"} /\ authority.generation = release.generation
    BY <1>2 DEF ReleaseInv, Authorized
  <2>2. ~(deployer.at \in {"start", "cutover", "inhibit", "quiesce"}) /\ ~In("undo")
    BY <1>2 DEF In
  <2>3. \E m \in {"undo", "withdraw", "rollback"} :
          Handler = [deployer EXCEPT !.at = "revoke", !.mode = m]
    <3>1. CASE deployer.at \in {"authorize", "activate", "confirm"}
      BY <1>2, <2>2, <3>1 DEF Handler
    <3>2. CASE deployer.at = "switch"
      BY <1>2, <2>2, <3>2 DEF Handler
    <3>3. CASE deployer.at = "observe"
      BY <1>2, <2>2, <3>3 DEF Handler
    <3> QED
      BY <1>2, <3>1, <3>2, <3>3
  <2> QED
    BY <2>1, <2>3
<1>3. CASE In("deploy") /\ deployer.at \in {"start", "cutover", "inhibit", "quiesce"}
  <2>1. NotCandidates
    BY <1>3 DEF ReleaseInv, Authorized, NotCandidates
  <2> QED
    BY <1>3, <2>1 DEF Handler, In
<1>4. CASE In("undo") /\ deployer.at # "clean"
  <2>1. NotCandidates
    BY <1>4, <1>1 DEF ReleaseInv, Authorized, InMode, NotCandidates, Steps, In
  <2> QED
    BY <1>4, <2>1 DEF Handler, In
<1>5. CASE ~(In("deploy") /\ deployer.at \in {"authorize", "activate", "confirm", "switch", "observe",
                                           "start", "cutover", "inhibit", "quiesce"})
           /\ ~(In("undo") /\ deployer.at # "clean")
  BY <1>5 DEF Handler
<1> QED
  BY <1>2, <1>3, <1>4, <1>5

DeployerStates ==
  [at : Steps \cup {"idle"}, mode : Modes,
   seen : [side : {"none", "old", "candidate", "overlap"}, group : Groups], noted : BOOLEAN]

\* Where an exception is caught or the deployer dies, what is known of the state file, the
\* authority and the candidate suffices.
LEMMA EndsWell ==
  ASSUME ReleaseInv, deployer.at # "idle", UNCHANGED <<stateFile, authority, begun>>,
         \/ deployer' = NoDeployer
         \/ deployer' = Handler /\ deployer.at # "revoke"
  PROVE  /\ deployer' \in DeployerStates
         /\ Shaped' /\ InMode' /\ Authorized' /\ Placed' /\ Seen'
<1>1. deployer \in DeployerStates
  BY DEF ReleaseInv, ReleaseTypeOK, DeployerStates
<1>2. release' = release /\ authority' = authority /\ knownGood' = knownGood
      /\ activeSlot' = activeSlot /\ begun' = begun /\ release.open
  BY DEF stateFile, ReleaseInv, Shaped
<1>3. CASE deployer' = NoDeployer
  <2>1. deployer'.at = "idle" /\ deployer'.mode = "deploy" /\ deployer' \in DeployerStates
    BY <1>3 DEF NoDeployer, Nobody, DeployerStates, Modes, Groups
  <2>2. Shaped'
    BY <1>2, <1>3, <2>1 DEF ReleaseInv, Shaped, NoDeployer
  <2> QED
    BY <2>1, <2>2 DEF InMode, Authorized, Placed, Seen
<1>4. CASE deployer' = [deployer EXCEPT !.at = "clean", !.mode = "deploy"] /\ NotCandidates
  <2>1. deployer'.at = "clean" /\ deployer'.mode = "deploy" /\ deployer' \in DeployerStates
    BY <1>1, <1>4 DEF DeployerStates, Steps, Modes
  <2>2. NotCandidates'
    BY <1>2, <1>4 DEF NotCandidates, Retained
  <2>3. Shaped'
    BY <1>2, <2>1 DEF ReleaseInv, Shaped
  <2> QED
    BY <2>1, <2>2, <2>3 DEF InMode, Authorized, Placed, Seen
<1>5. CASE /\ \E m \in {"undo", "withdraw", "rollback"} :
                deployer' = [deployer EXCEPT !.at = "revoke", !.mode = m]
           /\ authority.owner \in {"CANDIDATE", "NONE"}
           /\ authority.generation = release.generation
  <2>1. /\ deployer'.at = "revoke" /\ deployer'.mode \in {"undo", "withdraw", "rollback"}
        /\ deployer' \in DeployerStates
    BY <1>1, <1>5 DEF DeployerStates, Steps, Modes
  <2>2. Shaped'
    BY <1>2, <2>1 DEF ReleaseInv, Shaped
  <2> QED
    BY <1>2, <1>5, <2>1, <2>2 DEF InMode, Authorized, Placed, Seen
<1> QED
  BY <1>3, <1>4, <1>5, Caught

\* A step that breaks off, when it leaves the containers and the route as the fence wants them.
LEMMA BrokenOff ==
  ASSUME ReleaseInv, deployer.at # "idle", UNCHANGED <<stateFile, authority, begun>>,
         \/ deployer' = NoDeployer
         \/ deployer' = Handler /\ deployer.at # "revoke",
         faults' \in 0 .. MaxFaults, traffic' \in Slots,
         stack' \in [Slots -> Shas \cup {NoSha}], consumers' \in [Slots -> Groups],
         Standing', Fenced', Resting'
  PROVE  ReleaseInv'
<1>1. ReleaseTypeOK'
  BY EndsWell DEF ReleaseInv, ReleaseTypeOK, DeployerStates, stateFile
<1> QED
  BY <1>1, EndsWell DEF ReleaseInv

\* A step that breaks off before it did anything.
LEMMA RaiseKeeps ==
  ASSUME ReleaseInv, deployer.at # "idle", UNCHANGED <<stateFile, authority, host, begun>>,
         \/ deployer' = NoDeployer
         \/ deployer' = Handler /\ deployer.at # "revoke",
         faults' \in 0 .. MaxFaults
  PROVE  ReleaseInv'
<1>1. traffic' \in Slots /\ stack' \in [Slots -> Shas \cup {NoSha}]
      /\ consumers' \in [Slots -> Groups]
  BY DEF ReleaseInv, ReleaseTypeOK, host
<1>2. Standing' /\ Fenced' /\ Resting'
  BY DEF ReleaseInv, Standing, Fenced, Resting, NotCandidates, Retained, Candidate, host, stateFile
<1> QED
  BY <1>1, <1>2, BrokenOff

LEMMA FaultBounded ==
  ASSUME ReleaseInv PROVE (Fault \/ UNCHANGED faults) => faults' \in 0 .. MaxFaults
BY ReleaseAssumption DEF ReleaseInv, ReleaseTypeOK, Fault

\* Workers that stop break no fence.
LEMMA Quieter ==
  ASSUME ReleaseInv, UNCHANGED <<stateFile, authority, stack, traffic>>,
         consumers' \in [Slots -> Groups],
         \A s \in Slots : consumers[s] = "inactive" => consumers'[s] = "inactive"
  PROVE  Standing' /\ Fenced' /\ Resting'
<1> USE DEF ReleaseInv, ReleaseTypeOK, stateFile
<1>1. Standing'
  BY DEF Standing
<1>2. knownGood.slot \in Slots /\ Other(knownGood.slot) \in Slots
  BY TwoSlots
<1>3. Fenced' /\ Resting'
  BY <1>2 DEF Fenced, Resting, NotCandidates, Retained, Candidate
<1> QED
  BY <1>1, <1>3

-----------------------------------------------------------------------------
(* Steps that write the authority.                                           *)

\* What an authority that is written breaks not, if the workers of the slot that it does not
\* name are off.
LEMMA Written ==
  ASSUME ReleaseInv, deployer.at # "idle", NEW owner \in Owners, NEW next \in Steps,
         authority' = [owner |-> owner, generation |-> release.generation,
                       old |-> Retained, candidate |-> Candidate],
         deployer' = [deployer EXCEPT !.at = next, !.noted = FALSE],
         UNCHANGED <<stateFile, host, begun, faults>>,
         owner = "OLD" => consumers[release.slot] = "inactive",
         owner = "CANDIDATE" => consumers[knownGood.slot] = "inactive"
  PROVE  /\ ReleaseTypeOK' /\ Shaped' /\ Standing' /\ Fenced' /\ Resting'
         /\ deployer'.at = next /\ deployer'.mode = deployer.mode
         /\ deployer'.seen = deployer.seen /\ ~deployer'.noted
         /\ authority'.owner = owner /\ authority'.generation = release'.generation
         /\ authority'.candidate = Candidate'
         /\ owner # "CANDIDATE" => NotCandidates'
<1> USE DEF stateFile, host
<1>1. ReleaseTypeOK
  BY DEF ReleaseInv
<1>2. Retained \in Identities /\ Candidate \in Identities
  BY <1>1 DEF ReleaseTypeOK, Retained, Candidate, Identities
<1>3. authority' \in [owner : Owners, generation : Generations, old : Identities,
                      candidate : Identities]
  BY <1>1, <1>2 DEF ReleaseTypeOK
<1>4. deployer \in DeployerStates
  BY <1>1 DEF ReleaseTypeOK, DeployerStates
<1>5. /\ deployer' \in DeployerStates /\ deployer'.at = next /\ deployer'.mode = deployer.mode
      /\ deployer'.seen = deployer.seen /\ ~deployer'.noted
  BY <1>4 DEF DeployerStates
<1>6. ReleaseTypeOK'
  BY <1>1, <1>3, <1>5 DEF ReleaseTypeOK, DeployerStates
<1>7. release.open /\ release.slot = Other(knownGood.slot)
  BY DEF ReleaseInv, Shaped
<1>8. Shaped'
  BY <1>5, <1>7 DEF ReleaseInv, Shaped, Steps
<1>9. Standing'
  BY DEF ReleaseInv, Standing
<1>10. authority'.owner = owner /\ authority'.old = Retained' /\ authority'.candidate = Candidate'
       /\ authority'.generation = release'.generation
  BY DEF Retained, Candidate
<1>11. Fenced' /\ Resting'
  BY <1>7, <1>10 DEF ReleaseInv, Fenced, Resting
<1> QED
  BY <1>5, <1>6, <1>8, <1>9, <1>10, <1>11 DEF NotCandidates

LEMMA CutOverKeeps == ASSUME ReleaseInv, CutOver PROVE ReleaseInv'
<1>1. deployer.at = "cutover" /\ deployer.mode = "deploy"
  BY DEF CutOver, Reached, ReleaseInv, InMode
<1>2. CASE RetainedActive(Ownership) /\ AuthorityAllows("OLD", {"OLD", "CANDIDATE"})
  <2>1. consumers[release.slot] = "inactive"
    BY <1>2 DEF RetainedActive, Ownership, Nobody
  <2>2. /\ ReleaseTypeOK' /\ Shaped' /\ Standing' /\ Fenced' /\ Resting'
        /\ deployer'.at = "inhibit" /\ deployer'.mode = deployer.mode
        /\ authority'.owner = "OLD" /\ authority'.generation = release'.generation
    BY <1>1, <1>2, <2>1, Written DEF CutOver, Authorize, Unless, Steps, Owners
  <2>3. stack'[release'.slot] = release'.sha
    BY <1>1, <1>2 DEF ReleaseInv, Placed, CutOver, Authorize, Unless, stateFile, host
  <2> QED
    BY <1>1, <2>2, <2>3 DEF ReleaseInv, InMode, Authorized, Placed, Seen
<1>3. CASE ~(RetainedActive(Ownership) /\ AuthorityAllows("OLD", {"OLD", "CANDIDATE"}))
  BY <1>1, <1>3, RaiseKeeps, FaultBounded DEF CutOver, Authorize, Unless, Raise
<1> QED
  BY <1>2, <1>3

LEMMA InhibitKeeps == ASSUME ReleaseInv, Inhibit PROVE ReleaseInv'
<1>1. deployer.at = "inhibit" /\ deployer.mode = "deploy"
  BY DEF Inhibit, Reached, ReleaseInv, InMode
<1>2. CASE AuthorityAllows("NONE", {"OLD"})
  <2>1. /\ ReleaseTypeOK' /\ Shaped' /\ Standing' /\ Fenced' /\ Resting'
        /\ deployer'.at = "quiesce" /\ deployer'.mode = deployer.mode
        /\ authority'.owner = "NONE" /\ authority'.generation = release'.generation
    BY <1>1, <1>2, Written DEF Inhibit, Authorize, Unless, Steps, Owners
  <2>2. stack'[release'.slot] = release'.sha
    BY <1>1, <1>2 DEF ReleaseInv, Placed, Inhibit, Authorize, Unless, stateFile, host
  <2> QED
    BY <1>1, <2>1, <2>2 DEF ReleaseInv, InMode, Authorized, Placed, Seen
<1>3. CASE ~AuthorityAllows("NONE", {"OLD"})
  BY <1>1, <1>3, RaiseKeeps, FaultBounded DEF Inhibit, Authorize, Unless, Raise
<1> QED
  BY <1>2, <1>3

LEMMA AuthorizeCandidateKeeps == ASSUME ReleaseInv, AuthorizeCandidate PROVE ReleaseInv'
<1>1. deployer.at = "authorize" /\ deployer.mode = "deploy"
  BY DEF AuthorizeCandidate, Reached, ReleaseInv, InMode
<1>2. CASE AuthorityAllows("CANDIDATE", {"NONE"})
  <2>1. consumers[knownGood.slot] = "inactive"
    BY <1>1 DEF ReleaseInv, Placed, ReleaseTypeOK
  <2>2. /\ ReleaseTypeOK' /\ Shaped' /\ Standing' /\ Fenced' /\ Resting'
        /\ deployer'.at = "activate" /\ deployer'.mode = deployer.mode
        /\ authority'.owner = "CANDIDATE" /\ authority'.generation = release'.generation
        /\ authority'.candidate = Candidate'
    BY <1>1, <1>2, <2>1, Written DEF AuthorizeCandidate, Authorize, Unless, Steps, Owners
  <2>3. stack'[release'.slot] = release'.sha
    BY <1>1, <1>2 DEF ReleaseInv, Placed, AuthorizeCandidate, Authorize, Unless, stateFile, host
  <2> QED
    BY <1>1, <2>2, <2>3 DEF ReleaseInv, InMode, Authorized, Placed, Seen
<1>3. CASE ~AuthorityAllows("CANDIDATE", {"NONE"})
  BY <1>1, <1>3, RaiseKeeps, FaultBounded DEF AuthorizeCandidate, Authorize, Unless, Raise
<1> QED
  BY <1>2, <1>3

LEMMA RevokeKeeps == ASSUME ReleaseInv, Revoke PROVE ReleaseInv'
<1>1. deployer.at = "revoke" /\ deployer.mode \notin {"deploy", "recover"}
  BY DEF Revoke, Reached, ReleaseInv, InMode
<1>2. AuthorityAllows("NONE", {"CANDIDATE", "NONE"})
  BY <1>1 DEF ReleaseInv, Authorized, AuthorityAllows
<1>3. /\ ReleaseTypeOK' /\ Shaped' /\ Standing' /\ Fenced' /\ Resting'
      /\ deployer'.at = "dismiss" /\ deployer'.mode = deployer.mode
      /\ authority'.owner = "NONE" /\ authority'.generation = release'.generation
  BY <1>1, <1>2, Written DEF Revoke, Authorize, Unless, Steps, Owners
<1> QED
  BY <1>1, <1>3 DEF ReleaseInv, InMode, Authorized, Placed, Seen

LEMMA EntrustKeeps == ASSUME ReleaseInv, Entrust PROVE ReleaseInv'
<1>1. deployer.at = "entrust" /\ deployer.mode # "deploy"
  BY DEF Entrust, Reached, ReleaseInv, InMode
<1>2. CASE AuthorityAllows("OLD", {"NONE"})
  <2>1. consumers[release.slot] = "inactive"
    BY <1>1 DEF ReleaseInv, Placed, ReleaseTypeOK
  <2>2. /\ ReleaseTypeOK' /\ Shaped' /\ Standing' /\ Fenced' /\ Resting'
        /\ deployer'.at = "restore" /\ deployer'.mode = deployer.mode
        /\ authority'.owner = "OLD" /\ authority'.generation = release'.generation
    BY <1>1, <1>2, <2>1, Written DEF Entrust, Authorize, Unless, Steps, Owners
  <2> QED
    BY <1>1, <2>2 DEF ReleaseInv, InMode, Authorized, Placed, Seen
<1>3. CASE ~AuthorityAllows("OLD", {"NONE"})
  BY <1>1, <1>3, RaiseKeeps, FaultBounded DEF Entrust, Authorize, Unless, Raise
<1> QED
  BY <1>2, <1>3

-----------------------------------------------------------------------------
(* Recovery's reading of the authority.                                      *)

LEMMA NoteOwnerKeeps == ASSUME ReleaseInv, NoteOwner PROVE ReleaseInv'
<1> USE DEF host
<1>1. deployer.at # "idle"
  BY DEF NoteOwner, ReleaseInv, Shaped, NoDeployer
<1>2. /\ deployer \in DeployerStates /\ deployer' = [deployer EXCEPT !.noted = TRUE]
      /\ release' = [release EXCEPT !.owner = authority.owner]
      /\ authority.owner \in Owners
      /\ release \in [open : BOOLEAN, sha : Shas, slot : Slots, generation : Generations,
                      owner : Owners \cup {"unset"},
                      phase : {"candidate_start", "worker_cutover", "traffic_switch"}]
  BY DEF NoteOwner, DeployerStates, ReleaseInv, ReleaseTypeOK
<1>3. /\ deployer' \in DeployerStates /\ deployer'.at = deployer.at
      /\ deployer'.mode = deployer.mode /\ deployer'.seen = deployer.seen /\ deployer'.noted
  BY <1>2 DEF DeployerStates
<1>4. /\ release' \in [open : BOOLEAN, sha : Shas, slot : Slots, generation : Generations,
                       owner : Owners \cup {"unset"},
                       phase : {"candidate_start", "worker_cutover", "traffic_switch"}]
      /\ release'.owner = authority.owner /\ release'.open = release.open
      /\ release'.sha = release.sha /\ release'.slot = release.slot
      /\ release'.generation = release.generation /\ release'.phase = release.phase
  BY <1>2
<1>5. UNCHANGED <<activeSlot, knownGood, authority, stack, consumers, traffic, begun, faults>>
  BY DEF NoteOwner
<1>6. ReleaseTypeOK'
  BY <1>3, <1>4, <1>5 DEF ReleaseInv, ReleaseTypeOK, DeployerStates
<1>7. Shaped' /\ Standing' /\ Fenced' /\ Resting'
  BY <1>1, <1>3, <1>4, <1>5 DEF ReleaseInv, Shaped, Standing, Fenced, Resting, NotCandidates, Retained, Candidate
<1>8. InMode' /\ Authorized' /\ Placed'
  BY <1>3, <1>4, <1>5 DEF ReleaseInv, InMode, Authorized, Placed, NotCandidates, Retained, Candidate
<1>9. Seen'
  BY <1>1, <1>3, <1>4, <1>5 DEF ReleaseInv, Seen, NoteOwner
<1> QED
  BY <1>6, <1>7, <1>8, <1>9 DEF ReleaseInv

LEMMA ExamineKeeps == ASSUME ReleaseInv, Examine PROVE ReleaseInv'
<1> USE DEF stateFile, host
<1>1. /\ release.open /\ Ownership.side # "overlap" /\ deployer.at = "idle"
      /\ UNCHANGED <<activeSlot, knownGood, release, stack, consumers, traffic, begun, faults>>
  BY DEF Examine
<1>2. /\ Ownership \in [side : {"none", "old", "candidate", "overlap"}, group : Groups]
      /\ Ownership.side \in {"none", "candidate"} => consumers[knownGood.slot] = "inactive"
      /\ Ownership.side \in {"none", "old"} => consumers[release.slot] = "inactive"
  BY DEF Ownership, Nobody, Groups, ReleaseInv, ReleaseTypeOK
<1>3. \E noted \in BOOLEAN :
        deployer' = [at |-> "route", mode |-> "recover", seen |-> Ownership, noted |-> noted]
  BY DEF Examine
<1>4. /\ deployer' \in DeployerStates /\ deployer'.at = "route" /\ deployer'.mode = "recover"
      /\ deployer'.seen = Ownership
  BY <1>2, <1>3 DEF DeployerStates, Steps, Modes
<1>5. CASE /\ release.owner # "unset" /\ AuthorityRecorded
           /\ UNCHANGED authority
  <2>1. authority.owner = release.owner /\ authority.generation = release.generation
    BY <1>5 DEF AuthorityRecorded
  <2>2. ReleaseTypeOK'
    BY <1>1, <1>4, <1>5 DEF ReleaseInv, ReleaseTypeOK, DeployerStates
  <2>3. Shaped' /\ Standing' /\ Fenced' /\ Resting'
    BY <1>1, <1>4, <1>5 DEF ReleaseInv, Shaped, Standing, Fenced, Resting, NotCandidates, Retained, Candidate
  <2>4. InMode' /\ Authorized' /\ Placed' /\ Seen'
    BY <1>1, <1>2, <1>4, <1>5, <2>1 DEF InMode, Authorized, Placed, Seen
  <2> QED
    BY <2>2, <2>3, <2>4 DEF ReleaseInv
<1>6. CASE /\ release.owner = "unset" /\ RetainedActive(Ownership)
           /\ authority' = [owner |-> "OLD", generation |-> release.generation,
                            old |-> Retained, candidate |-> Candidate]
           /\ ~deployer'.noted
  <2>1. consumers[release.slot] = "inactive" /\ release.slot = Other(knownGood.slot)
    BY <1>1, <1>2, <1>6 DEF RetainedActive, ReleaseInv, Shaped
  <2>2. Retained \in Identities /\ Candidate \in Identities
    BY DEF ReleaseInv, ReleaseTypeOK, Retained, Candidate, Identities
  <2>3. /\ authority'.owner = "OLD" /\ authority'.old = Retained'
        /\ authority'.generation = release'.generation
        /\ authority' \in [owner : Owners, generation : Generations, old : Identities,
                           candidate : Identities]
    BY <1>1, <1>6, <2>2 DEF Retained, Owners, ReleaseInv, ReleaseTypeOK
  <2>4. ReleaseTypeOK'
    BY <1>1, <1>4, <2>3 DEF ReleaseInv, ReleaseTypeOK, DeployerStates
  <2>5. Shaped' /\ Standing' /\ Fenced' /\ Resting'
    BY <1>1, <1>4, <2>1, <2>3 DEF ReleaseInv, Shaped, Standing, Fenced, Resting
  <2>6. InMode' /\ Authorized' /\ Placed' /\ Seen'
    BY <1>1, <1>2, <1>4, <1>6, <2>3 DEF InMode, Authorized, Placed, Seen
  <2> QED
    BY <2>4, <2>5, <2>6 DEF ReleaseInv
<1> QED
  BY <1>3, <1>5, <1>6 DEF Examine

LEMMA SortKeeps == ASSUME ReleaseInv, Sort PROVE ReleaseInv'
<1>1. /\ deployer.at = "sort" /\ deployer.mode = "recover" /\ deployer.noted
      /\ release.owner = authority.owner /\ authority.generation = release.generation
      /\ deployer \in DeployerStates
  BY DEF Sort, Reached, ReleaseInv, InMode, Authorized, Seen, ReleaseTypeOK, DeployerStates
<1> DEFINE stay == UNCHANGED <<stateFile, authority, host, begun, faults>>
           seen == deployer.seen
<1>2. CASE seen.side = "candidate" /\ Authorize("NONE", {"CANDIDATE"}, "dismiss")
  <2>1. CASE AuthorityAllows("NONE", {"CANDIDATE"})
    <3>1. /\ ReleaseTypeOK' /\ Shaped' /\ Standing' /\ Fenced' /\ Resting'
          /\ deployer'.at = "dismiss" /\ deployer'.mode = deployer.mode
          /\ deployer'.seen = deployer.seen /\ ~deployer'.noted
          /\ authority'.owner = "NONE" /\ authority'.generation = release'.generation
      BY <1>1, <1>2, <2>1, Written DEF Authorize, Unless, Steps, Owners
    <3>2. UNCHANGED <<knownGood, consumers, release>>
      BY <1>2, <2>1 DEF Authorize, Unless, stateFile, host
    <3>3. Seen'
      BY <1>1, <1>2, <3>1, <3>2 DEF ReleaseInv, Seen
    <3> QED
      BY <1>1, <3>1, <3>3 DEF ReleaseInv, InMode, Authorized, Placed
  <2>2. CASE ~AuthorityAllows("NONE", {"CANDIDATE"})
    BY <1>1, <1>2, <2>2, RaiseKeeps, FaultBounded DEF Authorize, Unless, Raise
  <2> QED
    BY <2>1, <2>2
<1>3. CASE seen.side = "old" /\ Authorize("NONE", {"OLD"}, "quiesce")
  <2>1. CASE AuthorityAllows("NONE", {"OLD"})
    <3>1. /\ ReleaseTypeOK' /\ Shaped' /\ Standing' /\ Fenced' /\ Resting'
          /\ deployer'.at = "quiesce" /\ deployer'.mode = deployer.mode
          /\ deployer'.seen = deployer.seen /\ ~deployer'.noted
          /\ authority'.owner = "NONE" /\ authority'.generation = release'.generation
      BY <1>1, <1>3, <2>1, Written DEF Authorize, Unless, Steps, Owners
    <3>2. UNCHANGED <<knownGood, consumers, release>>
      BY <1>3, <2>1 DEF Authorize, Unless, stateFile, host
    <3>3. Seen'
      BY <1>1, <1>3, <3>1, <3>2 DEF ReleaseInv, Seen
    <3> QED
      BY <1>1, <3>1, <3>3 DEF ReleaseInv, InMode, Authorized, Placed
  <2>2. CASE ~AuthorityAllows("NONE", {"OLD"})
    BY <1>1, <1>3, <2>2, RaiseKeeps, FaultBounded DEF Authorize, Unless, Raise
  <2> QED
    BY <2>1, <2>2
<1>4. CASE Raise /\ stay
  BY <1>1, <1>4, RaiseKeeps, FaultBounded DEF Raise
<1>5. ASSUME NEW step \in {"quiesce", "reinstate"}, Go(step), stay,
             step = "quiesce" => release.owner = "NONE",
             step = "reinstate" => (RetainedActive(seen) => release.owner = "OLD")
      PROVE  ReleaseInv'
  <2>1. /\ deployer' \in DeployerStates /\ deployer'.at = step /\ deployer'.mode = "recover"
        /\ deployer'.seen = deployer.seen /\ deployer'.noted
    BY <1>1, <1>5 DEF Go, DeployerStates, Steps
  <2>2. UNCHANGED <<activeSlot, knownGood, release, authority, stack, consumers, traffic, begun, faults>>
    BY <1>5 DEF stateFile, host
  <2>3. ReleaseTypeOK'
    BY <2>1, <2>2 DEF ReleaseInv, ReleaseTypeOK, DeployerStates
  <2>4. Shaped' /\ Standing' /\ Fenced' /\ Resting'
    BY <1>1, <2>1, <2>2 DEF ReleaseInv, Shaped, Standing, Fenced, Resting, NotCandidates, Retained, Candidate
  <2>5. InMode' /\ Authorized' /\ Placed'
    BY <1>1, <1>5, <2>1, <2>2 DEF InMode, Authorized, Placed
  <2>6. Seen'
    BY <1>1, <1>5, <2>1, <2>2 DEF ReleaseInv, Seen, RetainedActive
  <2> QED
    BY <2>3, <2>4, <2>5, <2>6 DEF ReleaseInv
<1>6. \/ seen.side = "candidate" /\ Authorize("NONE", {"CANDIDATE"}, "dismiss")
      \/ seen.side = "old" /\ Authorize("NONE", {"OLD"}, "quiesce")
      \/ Raise /\ stay
      \/ Go("quiesce") /\ release.owner = "NONE" /\ stay
      \/ Go("reinstate") /\ (RetainedActive(seen) => release.owner = "OLD") /\ stay
  BY DEF Sort, RetainedActive
<1> QED
  BY <1>2, <1>3, <1>4, <1>5, <1>6

LEMMA ReinstateKeeps == ASSUME ReleaseInv, Reinstate PROVE ReleaseInv'
<1>1. /\ deployer.at = "reinstate" /\ deployer.mode = "recover" /\ deployer.noted
      /\ release.owner = authority.owner /\ authority.generation = release.generation
      /\ deployer \in DeployerStates
      /\ RetainedActive(deployer.seen) => authority.owner = "OLD"
      /\ deployer.seen = Nobody => \A s \in Slots : consumers[s] = "inactive"
  <2>1. knownGood.slot \in Slots /\ release.slot = Other(knownGood.slot)
    BY DEF ReleaseInv, ReleaseTypeOK, Shaped, Reinstate, Reached
  <2>2. Slots = {knownGood.slot, release.slot}
    BY <2>1, TwoSlots
  <2> QED
    BY <2>2 DEF Reinstate, Reached, ReleaseInv, InMode, Authorized, Seen, ReleaseTypeOK, DeployerStates, Nobody
<1> DEFINE stay == UNCHANGED <<stateFile, authority, host, begun, faults>>
<1>2. CASE deployer.seen = Nobody /\ Authorize("NONE", {release.owner}, "entrust")
  <2>1. CASE AuthorityAllows("NONE", {release.owner})
    <3>1. /\ ReleaseTypeOK' /\ Shaped' /\ Standing' /\ Fenced' /\ Resting'
          /\ deployer'.at = "entrust" /\ deployer'.mode = deployer.mode
          /\ authority'.owner = "NONE" /\ authority'.generation = release'.generation
      BY <1>1, <1>2, <2>1, Written DEF Authorize, Unless, Steps, Owners
    <3>2. UNCHANGED consumers
      BY <1>2, <2>1 DEF Authorize, Unless, host
    <3> QED
      BY <1>1, <1>2, <3>1, <3>2 DEF ReleaseInv, InMode, Authorized, Placed, Seen
  <2>2. CASE ~AuthorityAllows("NONE", {release.owner})
    BY <1>1, <1>2, <2>2, RaiseKeeps, FaultBounded DEF Authorize, Unless, Raise
  <2> QED
    BY <2>1, <2>2
<1>3. CASE deployer.seen = Nobody /\ Authorize("OLD", {"NONE"}, "restore")
  <2>1. CASE AuthorityAllows("OLD", {"NONE"})
    <3>1. consumers[release.slot] = "inactive"
      BY <1>1, <1>3 DEF ReleaseInv, ReleaseTypeOK
    <3>2. /\ ReleaseTypeOK' /\ Shaped' /\ Standing' /\ Fenced' /\ Resting'
          /\ deployer'.at = "restore" /\ deployer'.mode = deployer.mode
          /\ authority'.owner = "OLD" /\ authority'.generation = release'.generation
      BY <1>1, <1>3, <2>1, <3>1, Written DEF Authorize, Unless, Steps, Owners
    <3> QED
      BY <1>1, <3>2 DEF ReleaseInv, InMode, Authorized, Placed, Seen
  <2>2. CASE ~AuthorityAllows("OLD", {"NONE"})
    BY <1>1, <1>3, <2>2, RaiseKeeps, FaultBounded DEF Authorize, Unless, Raise
  <2> QED
    BY <2>1, <2>2
<1>4. CASE Raise /\ stay
  BY <1>1, <1>4, RaiseKeeps, FaultBounded DEF Raise
<1>5. CASE RetainedActive(deployer.seen) /\ Go("clean") /\ stay
  <2>1. /\ deployer' \in DeployerStates /\ deployer'.at = "clean" /\ deployer'.mode = "recover"
    BY <1>1, <1>5 DEF Go, DeployerStates, Steps
  <2>2. UNCHANGED <<activeSlot, knownGood, release, authority, stack, consumers, traffic, begun, faults>>
    BY <1>5 DEF stateFile, host
  <2>3. ReleaseTypeOK'
    BY <2>1, <2>2 DEF ReleaseInv, ReleaseTypeOK, DeployerStates
  <2>4. Shaped' /\ Standing' /\ Fenced' /\ Resting'
    BY <1>1, <2>1, <2>2 DEF ReleaseInv, Shaped, Standing, Fenced, Resting, NotCandidates, Retained, Candidate
  <2>5. InMode' /\ Authorized' /\ Placed' /\ Seen'
    BY <1>1, <1>5, <2>1, <2>2 DEF InMode, Authorized, Placed, Seen, NotCandidates
  <2> QED
    BY <2>3, <2>4, <2>5 DEF ReleaseInv
<1> QED
  BY <1>2, <1>3, <1>4, <1>5 DEF Reinstate

-----------------------------------------------------------------------------
(* Steps that go on and leave the state file and the authority.              *)

LEMMA TheSlots ==
  ASSUME ReleaseInv, release.open
  PROVE  /\ knownGood.slot \in Slots /\ release.slot \in Slots /\ activeSlot = knownGood.slot
         /\ release.slot = Other(knownGood.slot) /\ knownGood.slot = Other(release.slot)
         /\ release.slot # knownGood.slot /\ Slots = {knownGood.slot, release.slot}
BY DEF ReleaseInv, ReleaseTypeOK, Shaped, Slots, Other

LEMMA GoesOn ==
  ASSUME ReleaseInv, deployer.at # "idle", NEW step \in Steps, Go(step),
         UNCHANGED <<stateFile, authority, begun>>,
         faults' \in 0 .. MaxFaults, traffic' \in Slots,
         stack' \in [Slots -> Shas \cup {NoSha}], consumers' \in [Slots -> Groups]
  PROVE  /\ ReleaseTypeOK' /\ Shaped'
         /\ deployer'.at = step /\ deployer'.mode = deployer.mode
         /\ deployer'.seen = deployer.seen /\ deployer'.noted = deployer.noted
         /\ NotCandidates => NotCandidates'
<1>1. deployer \in DeployerStates
  BY DEF ReleaseInv, ReleaseTypeOK, DeployerStates
<1>2. /\ deployer' \in DeployerStates /\ deployer'.at = step /\ deployer'.mode = deployer.mode
      /\ deployer'.seen = deployer.seen /\ deployer'.noted = deployer.noted
  BY <1>1 DEF Go, DeployerStates
<1>3. ReleaseTypeOK'
  BY <1>2 DEF ReleaseInv, ReleaseTypeOK, DeployerStates, stateFile
<1>4. Shaped'
  BY <1>2 DEF ReleaseInv, Shaped, stateFile, Steps
<1> QED
  BY <1>2, <1>3, <1>4 DEF NotCandidates, Retained, stateFile

\* Traffic goes to the active slot, or to the candidate once it may be rolled back.
LEMMA SwitchSafe ==
  ASSUME ReleaseInv, deployer.at \notin {"idle", "revoke"}, NEW s \in Slots, NEW next \in Steps,
         Switch(s, next),
         \/ s = knownGood.slot
         \/ s = release.slot /\ release.phase = "traffic_switch" /\ stack[s] = release.sha
  PROVE  \/ ReleaseInv'
         \/ /\ UNCHANGED <<stateFile, authority, stack, consumers, begun, faults>>
            /\ traffic' = s /\ Go(next)
            /\ ReleaseTypeOK' /\ Shaped' /\ Standing' /\ Fenced' /\ Resting'
            /\ deployer'.at = next /\ deployer'.mode = deployer.mode
            /\ deployer'.seen = deployer.seen /\ deployer'.noted = deployer.noted
            /\ NotCandidates => NotCandidates'
<1>1. release.open
  BY DEF ReleaseInv, Shaped
<1>2. CASE ~MaySwitch(s)
  BY <1>2, RaiseKeeps, FaultBounded DEF Switch, Unless, Raise
<1>3. CASE MaySwitch(s)
  <2>1. UNCHANGED <<stateFile, authority, stack, consumers, begun>> /\ traffic' \in {traffic, s}
    BY <1>3 DEF Switch, Unless, stateFile
  <2>2. /\ traffic' \in Slots /\ stack' \in [Slots -> Shas \cup {NoSha}]
        /\ consumers' \in [Slots -> Groups]
    BY <2>1 DEF ReleaseInv, ReleaseTypeOK
  <2>3. Standing'
    BY <1>1, <2>1 DEF ReleaseInv, Standing, stateFile
  <2>4. Fenced' /\ Resting'
    BY <2>1 DEF ReleaseInv, Fenced, Resting, NotCandidates, Retained, Candidate, stateFile
  <2>5. CASE BreaksOff
    BY <2>1, <2>2, <2>3, <2>4, <2>5, BrokenOff, FaultBounded DEF BreaksOff, Raise
  <2>6. CASE traffic' = s /\ Go(next) /\ UNCHANGED faults
    BY <2>1, <2>2, <2>3, <2>4, <2>6, GoesOn, FaultBounded
  <2> QED
    BY <1>3, <2>5, <2>6 DEF Switch, Unless
<1> QED
  BY <1>2, <1>3

LEMMA SwitchToCandidateKeeps == ASSUME ReleaseInv, SwitchToCandidate PROVE ReleaseInv'
<1>1. /\ deployer.at = "switch" /\ deployer.mode = "deploy" /\ release.slot \in Slots
      /\ release.phase = "traffic_switch" /\ stack[release.slot] = release.sha
      /\ authority.owner = "CANDIDATE" /\ authority.candidate = Candidate
      /\ authority.generation = release.generation
  BY DEF SwitchToCandidate, Reached, ReleaseInv, ReleaseTypeOK, InMode, Authorized, Placed
<1>2. \/ ReleaseInv'
      \/ /\ UNCHANGED <<stateFile, authority, stack, consumers, begun, faults>>
         /\ traffic' = release.slot
         /\ ReleaseTypeOK' /\ Shaped' /\ Standing' /\ Fenced' /\ Resting'
         /\ deployer'.at = "observe" /\ deployer'.mode = deployer.mode
  BY <1>1, SwitchSafe DEF SwitchToCandidate, Steps
<1> QED
  BY <1>1, <1>2 DEF ReleaseInv, InMode, Authorized, Placed, Seen, Candidate, stateFile

LEMMA RouteBackKeeps == ASSUME ReleaseInv, RouteBack PROVE ReleaseInv'
<1>1. /\ deployer.at = "routeBack" /\ deployer.mode = "rollback" /\ activeSlot \in Slots
      /\ activeSlot = knownGood.slot /\ authority.owner = "OLD"
  BY DEF RouteBack, Reached, ReleaseInv, ReleaseTypeOK, Shaped, InMode, Authorized
<1>2. \/ ReleaseInv'
      \/ /\ UNCHANGED <<stateFile, authority, stack, consumers, begun, faults>>
         /\ ReleaseTypeOK' /\ Shaped' /\ Standing' /\ Fenced' /\ Resting'
         /\ deployer'.at = "clean" /\ deployer'.mode = deployer.mode
  BY <1>1, SwitchSafe DEF RouteBack, Steps
<1> QED
  BY <1>1, <1>2 DEF ReleaseInv, InMode, Authorized, Placed, Seen, NotCandidates

LEMMA RouteKeeps == ASSUME ReleaseInv, Route PROVE ReleaseInv'
<1>1. /\ deployer.at = "route" /\ deployer.mode = "recover" /\ activeSlot \in Slots
      /\ activeSlot = knownGood.slot /\ authority.generation = release.generation
  BY DEF Route, Reached, ReleaseInv, ReleaseTypeOK, Shaped, InMode, Authorized
<1>2. CASE Switch(activeSlot, "sort")
  <2>1. \/ ReleaseInv'
        \/ /\ UNCHANGED <<stateFile, authority, stack, consumers, begun, faults>>
           /\ ReleaseTypeOK' /\ Shaped' /\ Standing' /\ Fenced' /\ Resting'
           /\ deployer'.at = "sort" /\ deployer'.mode = deployer.mode
           /\ deployer'.seen = deployer.seen /\ deployer'.noted = deployer.noted
    BY <1>1, <1>2, SwitchSafe DEF Steps
  <2> QED
    BY <1>1, <2>1 DEF ReleaseInv, InMode, Authorized, Placed, Seen, stateFile
<1>3. CASE Raise /\ UNCHANGED <<stateFile, authority, host, begun, faults>>
  BY <1>1, <1>3, RaiseKeeps, FaultBounded DEF Raise
<1>4. CASE Go("sort") /\ UNCHANGED <<stateFile, authority, host, begun, faults>>
  <2>1. /\ ReleaseTypeOK' /\ Shaped'
        /\ deployer'.at = "sort" /\ deployer'.mode = deployer.mode
        /\ deployer'.seen = deployer.seen /\ deployer'.noted = deployer.noted
    BY <1>1, <1>4, GoesOn DEF ReleaseInv, ReleaseTypeOK, host, Steps
  <2>2. Standing' /\ Fenced' /\ Resting'
    BY <1>4 DEF ReleaseInv, Standing, Fenced, Resting, NotCandidates, Retained, Candidate, host, stateFile
  <2> QED
    BY <1>1, <1>4, <2>1, <2>2 DEF ReleaseInv, InMode, Authorized, Placed, Seen, stateFile, host
<1> QED
  BY <1>2, <1>3, <1>4 DEF Route, Unless

-----------------------------------------------------------------------------
(* Steps that stop and start workers.                                        *)

\* When nobody's workers are seen afterwards, all are off; the retained workers that are stopped
\* are not seen to run.
LEMMA SeenOwnershipNext ==
  ASSUME ReleaseInv, release.open, UNCHANGED <<stateFile>>, consumers' \in [Slots -> Groups]
  PROVE  /\ Ownership' \in [side : {"none", "old", "candidate", "overlap"}, group : Groups]
         /\ Ownership' = Nobody => \A s \in Slots : consumers'[s] = "inactive"
         /\ consumers'[knownGood.slot] = "inactive" => ~RetainedActive(Ownership')
         /\ Ownership'.side = "none" =>
              consumers'[knownGood.slot] = "inactive" /\ consumers'[release.slot] = "inactive"
         /\ Ownership'.side = "candidate" => consumers'[knownGood.slot] = "inactive"
         /\ Ownership'.side = "old" => consumers'[release.slot] = "inactive"
<1>1. Slots = {knownGood.slot, release.slot} /\ knownGood' = knownGood /\ release' = release
  BY TheSlots DEF stateFile
<1> QED
  BY <1>1 DEF Ownership, Nobody, RetainedActive, Groups

\* Workers are stopped: the step goes on, recovery with what it sees now, or breaks off.
LEMMA DeactivateSafe ==
  ASSUME ReleaseInv, deployer.at \notin {"idle", "revoke"}, NEW s \in Slots, NEW next \in Steps,
         Deactivate(s, next)
  PROVE  \/ ReleaseInv'
         \/ /\ UNCHANGED <<stateFile, authority, stack, traffic, begun, faults>>
            /\ consumers' = [consumers EXCEPT ![s] = "inactive"]
            /\ ReleaseTypeOK' /\ Shaped' /\ Standing' /\ Fenced' /\ Resting'
            /\ deployer'.at = next /\ deployer'.mode = deployer.mode
            /\ deployer'.noted = deployer.noted
            /\ IF In("recover") THEN deployer'.seen = Ownership' ELSE Ownership' = Nobody
<1>1. UNCHANGED <<stateFile, authority, stack, traffic, begun>> /\ release.open
  BY DEF Deactivate, ReleaseInv, Shaped
<1>2. /\ traffic' \in Slots /\ stack' \in [Slots -> Shas \cup {NoSha}]
      /\ consumers \in [Slots -> Groups] /\ deployer \in DeployerStates
  BY <1>1 DEF ReleaseInv, ReleaseTypeOK, DeployerStates
<1>3. ASSUME NEW g \in {consumers[s], "halted", "inactive"},
             consumers[s] = "inactive" => g = "inactive",
             consumers' = [consumers EXCEPT ![s] = g]
      PROVE  Standing' /\ Fenced' /\ Resting' /\ consumers' \in [Slots -> Groups]
  <2>1. consumers' \in [Slots -> Groups]
    BY <1>2, <1>3 DEF Groups
  <2>2. \A t \in Slots : consumers[t] = "inactive" => consumers'[t] = "inactive"
    BY <1>2, <1>3
  <2> QED
    BY <1>1, <2>1, <2>2, Quieter
<1>4. CASE BreaksOff /\ \E g \in {consumers[s], "halted", "inactive"} :
                          /\ consumers[s] = "inactive" => g = "inactive"
                          /\ consumers' = [consumers EXCEPT ![s] = g]
  <2>1. Standing' /\ Fenced' /\ Resting' /\ consumers' \in [Slots -> Groups]
    BY <1>3, <1>4
  <2> QED
    BY <1>1, <1>2, <1>4, <2>1, BrokenOff, FaultBounded DEF BreaksOff, Raise
<1>5. CASE consumers' = [consumers EXCEPT ![s] = "inactive"] /\ UNCHANGED faults
  <2>1. Standing' /\ Fenced' /\ Resting' /\ consumers' \in [Slots -> Groups]
    BY <1>3, <1>5
  <2>2. Ownership' \in [side : {"none", "old", "candidate", "overlap"}, group : Groups]
    BY <1>1, <2>1, SeenOwnershipNext
  <2>3. CASE In("recover") /\ deployer' = [deployer EXCEPT !.at = next, !.seen = Ownership']
    <3>1. /\ deployer' \in DeployerStates /\ deployer'.at = next /\ deployer'.mode = deployer.mode
          /\ deployer'.noted = deployer.noted /\ deployer'.seen = Ownership'
      BY <1>2, <2>2, <2>3 DEF DeployerStates
    <3>2. ReleaseTypeOK'
      BY <1>1, <1>2, <1>5, <2>1, <3>1 DEF ReleaseInv, ReleaseTypeOK, DeployerStates, stateFile
    <3>3. Shaped'
      BY <1>1, <3>1 DEF ReleaseInv, Shaped, Steps, stateFile
    <3> QED
      BY <1>1, <1>5, <2>1, <2>3, <3>1, <3>2, <3>3
  <2>4. CASE ~In("recover") /\ Ownership' = Nobody /\ Go(next)
    BY <1>1, <1>2, <1>5, <2>1, <2>4, GoesOn, FaultBounded
  <2>5. CASE Raise
    BY <1>1, <1>2, <1>5, <2>1, <2>5, BrokenOff, FaultBounded DEF Raise
  <2> QED
    BY <1>5, <2>3, <2>4, <2>5, <1>4 DEF Deactivate
<1> QED
  BY <1>4, <1>5 DEF Deactivate

LEMMA QuiesceKeeps == ASSUME ReleaseInv, Quiesce PROVE ReleaseInv'
<1>1. /\ deployer.at = "quiesce" /\ deployer.noted /\ deployer.mode \in {"deploy", "recover"}
      /\ authority.owner = "NONE" /\ authority.generation = release.generation
      /\ release.open
      /\ deployer.mode = "recover" => release.owner = authority.owner
      /\ deployer.mode = "deploy" => stack[release.slot] = release.sha
  BY DEF Quiesce, Reached, ReleaseInv, InMode, Authorized, Seen, Shaped, Placed
<1> DEFINE next == IF In("recover") THEN "reinstate" ELSE "authorize"
<1>2. \/ ReleaseInv'
      \/ /\ UNCHANGED <<stateFile, authority, stack, traffic, begun, faults>>
         /\ consumers' = [consumers EXCEPT ![knownGood.slot] = "inactive"]
         /\ ReleaseTypeOK' /\ Shaped' /\ Standing' /\ Fenced' /\ Resting'
         /\ deployer'.at = next /\ deployer'.mode = deployer.mode
         /\ deployer'.noted = deployer.noted
         /\ IF In("recover") THEN deployer'.seen = Ownership' ELSE Ownership' = Nobody
  BY <1>1, TheSlots, DeactivateSafe DEF Quiesce, Steps
<1> SUFFICES ASSUME
       /\ UNCHANGED <<stateFile, authority, stack, traffic, begun, faults>>
       /\ consumers' = [consumers EXCEPT ![knownGood.slot] = "inactive"]
       /\ ReleaseTypeOK' /\ Shaped' /\ Standing' /\ Fenced' /\ Resting'
       /\ deployer'.at = next /\ deployer'.mode = deployer.mode
       /\ deployer'.noted = deployer.noted
       /\ IF In("recover") THEN deployer'.seen = Ownership' ELSE Ownership' = Nobody
             PROVE ReleaseInv'
  BY <1>2
<1>3. consumers'[knownGood.slot] = "inactive" /\ consumers' \in [Slots -> Groups]
  BY <1>1, TheSlots DEF ReleaseInv, ReleaseTypeOK, Groups
<1>4. CASE deployer.mode = "recover"
  <2>1. /\ Ownership'.side = "none" => consumers'[release.slot] = "inactive"
        /\ Ownership'.side = "old" => consumers'[release.slot] = "inactive"
        /\ ~RetainedActive(Ownership')
    BY <1>1, <1>3, SeenOwnershipNext
  <2>2. deployer'.at = "reinstate" /\ deployer'.seen = Ownership'
    BY <1>4 DEF In
  <2>3. Seen'
    BY <1>1, <1>3, <1>4, <2>1, <2>2 DEF Seen, stateFile
  <2> QED
    BY <1>1, <1>4, <2>2, <2>3 DEF ReleaseInv, InMode, Authorized, Placed, stateFile
<1>5. CASE deployer.mode = "deploy"
  <2>1. \A s \in Slots : consumers'[s] = "inactive"
    BY <1>1, <1>3, <1>5, SeenOwnershipNext DEF In
  <2>2. deployer'.at = "authorize"
    BY <1>5 DEF In
  <2> QED
    BY <1>1, <1>5, <2>1, <2>2 DEF ReleaseInv, InMode, Authorized, Placed, Seen, stateFile
<1> QED
  BY <1>1, <1>4, <1>5

LEMMA DismissKeeps == ASSUME ReleaseInv, Dismiss PROVE ReleaseInv'
<1>1. /\ deployer.at = "dismiss" /\ deployer.noted /\ deployer.mode # "deploy"
      /\ authority.owner = "NONE" /\ authority.generation = release.generation
      /\ release.open
      /\ deployer.mode = "recover" =>
           release.owner = authority.owner /\ consumers[knownGood.slot] = "inactive"
  BY DEF Dismiss, Reached, ReleaseInv, InMode, Authorized, Seen, Shaped
<1> DEFINE next == IF In("recover") THEN "reinstate" ELSE "entrust"
<1>2. \/ ReleaseInv'
      \/ /\ UNCHANGED <<stateFile, authority, stack, traffic, begun, faults>>
         /\ consumers' = [consumers EXCEPT ![release.slot] = "inactive"]
         /\ ReleaseTypeOK' /\ Shaped' /\ Standing' /\ Fenced' /\ Resting'
         /\ deployer'.at = next /\ deployer'.mode = deployer.mode
         /\ deployer'.noted = deployer.noted
         /\ IF In("recover") THEN deployer'.seen = Ownership' ELSE Ownership' = Nobody
  BY <1>1, TheSlots, DeactivateSafe DEF Dismiss, Steps
<1> SUFFICES ASSUME
       /\ UNCHANGED <<stateFile, authority, stack, traffic, begun, faults>>
       /\ consumers' = [consumers EXCEPT ![release.slot] = "inactive"]
       /\ ReleaseTypeOK' /\ Shaped' /\ Standing' /\ Fenced' /\ Resting'
       /\ deployer'.at = next /\ deployer'.mode = deployer.mode
       /\ deployer'.noted = deployer.noted
       /\ IF In("recover") THEN deployer'.seen = Ownership' ELSE Ownership' = Nobody
             PROVE ReleaseInv'
  BY <1>2
<1>3. consumers'[release.slot] = "inactive" /\ consumers' \in [Slots -> Groups]
      /\ consumers'[knownGood.slot] = consumers[knownGood.slot]
  BY <1>1, TheSlots DEF ReleaseInv, ReleaseTypeOK, Groups
<1>4. CASE deployer.mode = "recover"
  <2>1. ~RetainedActive(Ownership') /\ consumers'[knownGood.slot] = "inactive"
    BY <1>1, <1>3, <1>4, SeenOwnershipNext
  <2>2. deployer'.at = "reinstate" /\ deployer'.seen = Ownership'
    BY <1>4 DEF In
  <2>3. Seen'
    BY <1>1, <1>3, <1>4, <2>1, <2>2 DEF Seen, stateFile
  <2> QED
    BY <1>1, <1>4, <2>2, <2>3 DEF ReleaseInv, InMode, Authorized, Placed, stateFile
<1>5. CASE deployer.mode # "recover"
  <2>1. \A s \in Slots : consumers'[s] = "inactive"
    BY <1>1, <1>3, <1>5, SeenOwnershipNext DEF In
  <2>2. deployer'.at = "entrust"
    BY <1>5 DEF In
  <2> QED
    BY <1>1, <1>5, <2>1, <2>2 DEF ReleaseInv, InMode, Authorized, Placed, Seen, stateFile
<1> QED
  BY <1>4, <1>5

\* Workers are started in a slot that the authority gives, while the other slot's are off.
LEMMA ActivateSafe ==
  ASSUME ReleaseInv, deployer.at \notin {"idle", "revoke"}, NEW next \in Steps,
         NEW identity, Activate(identity, next),
         \/ identity = Retained /\ authority.owner = "OLD"
         \/ identity = Candidate /\ authority.owner = "CANDIDATE" /\ authority.candidate = Candidate
  PROVE  \/ ReleaseInv'
         \/ /\ UNCHANGED <<stateFile, authority, stack, traffic, begun, faults>>
            /\ ReleaseTypeOK' /\ Shaped' /\ Standing' /\ Fenced' /\ Resting'
            /\ deployer'.at = next /\ deployer'.mode = deployer.mode
<1>1. release.open
  BY DEF ReleaseInv, Shaped
<1>2. CASE ~(MayActivate(identity, release.generation) /\ OtherInactive(identity.slot))
  BY <1>2, RaiseKeeps, FaultBounded DEF Activate, Unless, Raise
<1>3. CASE MayActivate(identity, release.generation) /\ OtherInactive(identity.slot)
  <2>1. /\ UNCHANGED <<stateFile, authority, stack, traffic, begun>>
        /\ OtherInactive(identity.slot) /\ identity.slot \in {knownGood.slot, release.slot}
    BY <1>3 DEF Activate, Unless, Retained, Candidate
  <2>2. /\ traffic' \in Slots /\ stack' \in [Slots -> Shas \cup {NoSha}]
        /\ consumers \in [Slots -> Groups]
    BY <2>1 DEF ReleaseInv, ReleaseTypeOK
  <2>3. ASSUME NEW g \in Groups, consumers' = [consumers EXCEPT ![identity.slot] = g]
        PROVE  Standing' /\ Fenced' /\ Resting' /\ consumers' \in [Slots -> Groups]
    <3>1. consumers' \in [Slots -> Groups]
      BY <2>2, <2>3
    <3>2. Standing' /\ Resting'
      BY <1>1, <2>1 DEF ReleaseInv, Standing, Resting, stateFile
    <3>3. CASE identity = Retained /\ authority.owner = "OLD"
      <4>1. consumers'[Other(knownGood.slot)] = "inactive" /\ Other(knownGood.slot) \in Slots
        BY <1>1, <2>1, <2>2, <2>3, <3>3, TheSlots DEF OtherInactive, Retained
      <4>2. authority.old = Retained
        BY <3>3 DEF ReleaseInv, Fenced
      <4> QED
        BY <2>1, <3>1, <3>2, <3>3, <4>1, <4>2 DEF Fenced, Retained, stateFile
    <3>4. CASE identity = Candidate /\ authority.owner = "CANDIDATE" /\ authority.candidate = Candidate
      <4>1. consumers'[knownGood.slot] = "inactive" /\ knownGood.slot \in Slots
        BY <1>1, <2>1, <2>2, <2>3, <3>4, TheSlots DEF OtherInactive, Candidate
      <4> QED
        BY <1>1, <2>1, <3>1, <3>2, <3>4, <4>1 DEF Fenced, Candidate, stateFile
    <3> QED
      BY <3>3, <3>4
  <2>4. CASE BreaksOff /\ \E g \in Groups : consumers' = [consumers EXCEPT ![identity.slot] = g]
    <3>1. Standing' /\ Fenced' /\ Resting' /\ consumers' \in [Slots -> Groups]
      BY <2>3, <2>4
    <3> QED
      BY <2>1, <2>2, <2>4, <3>1, BrokenOff, FaultBounded DEF BreaksOff, Raise
  <2>5. CASE /\ consumers' = [consumers EXCEPT ![identity.slot] = "active"]
             /\ Go(next) /\ UNCHANGED faults
    <3>1. Standing' /\ Fenced' /\ Resting' /\ consumers' \in [Slots -> Groups]
      BY <2>3, <2>5 DEF Groups
    <3> QED
      BY <2>1, <2>2, <2>5, <3>1, GoesOn, FaultBounded
  <2> QED
    BY <1>3, <2>4, <2>5 DEF Activate, Unless
<1> QED
  BY <1>2, <1>3

LEMMA ActivateCandidateKeeps == ASSUME ReleaseInv, ActivateCandidate PROVE ReleaseInv'
<1>1. /\ deployer.at = "activate" /\ deployer.mode = "deploy"
      /\ authority.owner = "CANDIDATE" /\ authority.candidate = Candidate
      /\ authority.generation = release.generation /\ stack[release.slot] = release.sha
  BY DEF ActivateCandidate, Reached, ReleaseInv, InMode, Authorized, Placed
<1>2. \/ ReleaseInv'
      \/ /\ UNCHANGED <<stateFile, authority, stack, traffic, begun, faults>>
         /\ ReleaseTypeOK' /\ Shaped' /\ Standing' /\ Fenced' /\ Resting'
         /\ deployer'.at = "confirm" /\ deployer'.mode = deployer.mode
  BY <1>1, ActivateSafe DEF ActivateCandidate, Steps
<1> QED
  BY <1>1, <1>2 DEF ReleaseInv, InMode, Authorized, Placed, Seen, Candidate, stateFile

LEMMA RestoreKeeps == ASSUME ReleaseInv, Restore PROVE ReleaseInv'
<1>1. /\ deployer.at = "restore" /\ deployer.mode # "deploy" /\ authority.owner = "OLD"
      /\ authority.generation = release.generation
  BY DEF Restore, Reached, ReleaseInv, InMode, Authorized
<1>2. \/ ReleaseInv'
      \/ /\ UNCHANGED <<stateFile, authority, stack, traffic, begun, faults>>
         /\ ReleaseTypeOK' /\ Shaped' /\ Standing' /\ Fenced' /\ Resting'
         /\ deployer'.at = "settle" /\ deployer'.mode = deployer.mode
  BY <1>1, ActivateSafe DEF Restore, Steps
<1> QED
  BY <1>1, <1>2 DEF ReleaseInv, InMode, Authorized, Placed, Seen, stateFile

-----------------------------------------------------------------------------
(* Steps that write the state file or remove containers.                     *)

LEMMA StartCandidateKeeps == ASSUME ReleaseInv, StartCandidate PROVE ReleaseInv'
<1>1. /\ deployer.at = "start" /\ deployer.mode = "deploy" /\ NotCandidates /\ release.open
      /\ deployer \in DeployerStates
  BY DEF StartCandidate, Reached, ReleaseInv, ReleaseTypeOK, DeployerStates, InMode, Authorized, Shaped
<1>2. CASE traffic = release.slot
  BY <1>1, <1>2, RaiseKeeps, FaultBounded DEF StartCandidate, Unless, Raise
<1>3. CASE traffic # release.slot
  <2>1. /\ consumers' = [consumers EXCEPT ![release.slot] = "inactive"]
        /\ UNCHANGED <<activeSlot, knownGood, authority, traffic, begun>>
    BY <1>3 DEF StartCandidate, Unless
  <2>2. /\ consumers \in [Slots -> Groups] /\ stack \in [Slots -> Shas \cup {NoSha}]
        /\ release.sha \in Shas /\ traffic \in Slots /\ knownGood \in [sha : Shas, slot : Slots, generation : Generations]
    BY DEF ReleaseInv, ReleaseTypeOK
  <2>3. traffic = knownGood.slot
    BY <1>1, <1>3, <2>2, TheSlots
  <2>4. /\ consumers' \in [Slots -> Groups]
        /\ \A s \in Slots : consumers[s] = "inactive" => consumers'[s] = "inactive"
    BY <2>1, <2>2 DEF Groups
  <2>5. \E s \in Shas \cup {NoSha} : stack' = [stack EXCEPT ![release.slot] = s]
    BY <1>3, <2>2, TheSlots, <1>1 DEF StartCandidate, Unless
  <2>6. /\ stack' \in [Slots -> Shas \cup {NoSha}]
        /\ stack'[knownGood.slot] = stack[knownGood.slot]
    BY <1>1, <2>2, <2>5, TheSlots
  <2>7. Standing'
    BY <2>1, <2>3, <2>6 DEF ReleaseInv, Standing
  <2>8. CASE BreaksOff /\ UNCHANGED release
    <3>1. Fenced' /\ Resting'
      BY <1>1, <2>1, <2>4, <2>8, TheSlots DEF ReleaseInv, Fenced, Resting, Retained, Candidate
    <3> QED
      BY <1>1, <2>1, <2>2, <2>4, <2>6, <2>7, <2>8, <3>1, BrokenOff, FaultBounded DEF BreaksOff, Raise, stateFile
  <2>9. CASE /\ stack' = [stack EXCEPT ![release.slot] = release.sha]
             /\ release' = [release EXCEPT !.phase = "worker_cutover"]
             /\ Go("cutover") /\ UNCHANGED faults
    <3>1. /\ release' \in [open : BOOLEAN, sha : Shas, slot : Slots, generation : Generations,
                       owner : Owners \cup {"unset"},
                       phase : {"candidate_start", "worker_cutover", "traffic_switch"}]
          /\ release'.open = release.open /\ release'.sha = release.sha
          /\ release'.slot = release.slot /\ release'.generation = release.generation
      BY <2>9 DEF ReleaseInv, ReleaseTypeOK
    <3>2. /\ deployer' \in DeployerStates /\ deployer'.at = "cutover"
          /\ deployer'.mode = "deploy"
      BY <1>1, <2>9 DEF Go, DeployerStates, Steps
    <3>3. ReleaseTypeOK'
      BY <2>1, <2>4, <2>6, <2>9, <3>1, <3>2 DEF ReleaseInv, ReleaseTypeOK, DeployerStates
    <3>4. Shaped'
      BY <2>1, <3>1, <3>2, <1>1 DEF ReleaseInv, Shaped
    <3>5. Fenced' /\ Resting'
      BY <1>1, <2>1, <2>4, <3>1, TheSlots DEF ReleaseInv, Fenced, Resting, Retained, Candidate
    <3>6. NotCandidates' /\ stack'[release'.slot] = release'.sha
      BY <1>1, <2>1, <2>2, <2>9, <3>1, TheSlots DEF NotCandidates, Retained
    <3> QED
      BY <2>7, <3>2, <3>3, <3>4, <3>5, <3>6 DEF ReleaseInv, InMode, Authorized, Placed, Seen
  <2> QED
    BY <1>3, <2>8, <2>9 DEF StartCandidate, Unless
<1> QED
  BY <1>2, <1>3

LEMMA ConfirmKeeps == ASSUME ReleaseInv, Confirm PROVE ReleaseInv'
<1>1. /\ deployer.at = "confirm" /\ deployer.mode = "deploy" /\ release.open
      /\ deployer \in DeployerStates
      /\ authority.owner = "CANDIDATE" /\ authority.candidate = Candidate
      /\ authority.generation = release.generation /\ stack[release.slot] = release.sha
  BY DEF Confirm, Reached, ReleaseInv, ReleaseTypeOK, DeployerStates, InMode, Authorized, Placed, Shaped
<1>2. CASE ~Ready(release.slot)
  BY <1>1, <1>2, RaiseKeeps, FaultBounded DEF Confirm, Unless, Raise
<1>3. CASE Ready(release.slot)
  <2>1. /\ release' = [release EXCEPT !.phase = "traffic_switch"] /\ Go("switch")
        /\ UNCHANGED <<activeSlot, knownGood, authority, stack, consumers, traffic, begun, faults>>
    BY <1>3 DEF Confirm, Unless, host
  <2>2. /\ release' \in [open : BOOLEAN, sha : Shas, slot : Slots, generation : Generations,
                     owner : Owners \cup {"unset"},
                     phase : {"candidate_start", "worker_cutover", "traffic_switch"}]
        /\ release'.open = release.open /\ release'.sha = release.sha
        /\ release'.slot = release.slot /\ release'.generation = release.generation
        /\ release'.phase = "traffic_switch"
    BY <2>1 DEF ReleaseInv, ReleaseTypeOK
  <2>3. /\ deployer' \in DeployerStates /\ deployer'.at = "switch" /\ deployer'.mode = "deploy"
    BY <1>1, <2>1 DEF Go, DeployerStates, Steps
  <2>4. ReleaseTypeOK'
    BY <2>1, <2>2, <2>3 DEF ReleaseInv, ReleaseTypeOK, DeployerStates
  <2>5. Shaped' /\ Standing' /\ Fenced' /\ Resting'
    BY <1>1, <2>1, <2>2, <2>3 DEF ReleaseInv, Shaped, Standing, Fenced, Resting, NotCandidates, Retained, Candidate
  <2> QED
    BY <1>1, <2>1, <2>2, <2>3, <2>4, <2>5 DEF ReleaseInv, InMode, Authorized, Placed, Seen, Candidate
<1> QED
  BY <1>2, <1>3

LEMMA ObserveKeeps == ASSUME ReleaseInv, Observe PROVE ReleaseInv'
<1>1. /\ deployer.at = "observe" /\ release.open /\ traffic = release.slot
      /\ authority.owner = "CANDIDATE" /\ authority.candidate = Candidate
  BY DEF Observe, Reached, ReleaseInv, Authorized, Placed, Shaped
<1>2. CASE ~Ready(release.slot)
  BY <1>1, <1>2, RaiseKeeps, FaultBounded DEF Observe, Unless, Raise
<1>3. CASE Ready(release.slot)
  <2>1. /\ activeSlot' = release.slot /\ deployer' = NoDeployer
        /\ knownGood' = [sha |-> release.sha, slot |-> release.slot,
                         generation |-> release.generation]
        /\ release' = [release EXCEPT !.open = FALSE]
        /\ UNCHANGED <<authority, stack, consumers, traffic, begun, faults>>
    BY <1>3 DEF Observe, Unless, host
  <2>2. /\ release' \in [open : BOOLEAN, sha : Shas, slot : Slots, generation : Generations,
                     owner : Owners \cup {"unset"},
                     phase : {"candidate_start", "worker_cutover", "traffic_switch"}]
        /\ ~release'.open /\ release'.generation = release.generation
        /\ knownGood' \in [sha : Shas, slot : Slots, generation : Generations]
        /\ activeSlot' \in Slots
    BY <2>1 DEF ReleaseInv, ReleaseTypeOK
  <2>3. /\ deployer' \in DeployerStates /\ deployer'.at = "idle" /\ deployer'.mode = "deploy"
        /\ deployer' = NoDeployer'
    BY <2>1 DEF NoDeployer, Nobody, DeployerStates, Modes, Groups
  <2>4. ReleaseTypeOK'
    BY <2>1, <2>2, <2>3 DEF ReleaseInv, ReleaseTypeOK, DeployerStates
  <2>5. consumers[knownGood.slot] = "inactive"
    BY <1>1, TheSlots DEF ReleaseInv, Fenced, Retained, Candidate
  <2>6. authority.candidate = Retained' /\ knownGood'.slot = release.slot
        /\ Other(knownGood'.slot) = knownGood.slot
    BY <1>1, <2>1, TheSlots DEF Retained, Candidate
  <2>7. Fenced' /\ Resting'
    BY <1>1, <2>1, <2>2, <2>5, <2>6, TheSlots DEF Fenced, Resting, NotCandidates
  <2>8. Shaped' /\ Standing'
    BY <1>1, <2>1, <2>2, <2>3, TheSlots DEF ReleaseInv, Shaped, Standing
  <2> QED
    BY <2>3, <2>4, <2>7, <2>8 DEF ReleaseInv, InMode, Authorized, Placed, Seen
<1> QED
  BY <1>2, <1>3

LEMMA SettleKeeps == ASSUME ReleaseInv, Settle PROVE ReleaseInv'
<1>1. /\ deployer.at = "settle" /\ deployer.mode # "deploy" /\ release.open
      /\ deployer \in DeployerStates /\ authority.owner = "OLD"
      /\ authority.generation = release.generation
  BY DEF Settle, Reached, ReleaseInv, ReleaseTypeOK, DeployerStates, InMode, Authorized, Shaped
<1>2. /\ knownGood' = [knownGood EXCEPT !.generation = release.generation]
      /\ UNCHANGED <<activeSlot, release, authority, stack, consumers, traffic, begun, faults>>
  BY DEF Settle, host
<1>3. /\ knownGood' \in [sha : Shas, slot : Slots, generation : Generations]
      /\ knownGood'.sha = knownGood.sha /\ knownGood'.slot = knownGood.slot
  BY <1>2 DEF ReleaseInv, ReleaseTypeOK
<1>4. Standing' /\ Fenced' /\ Resting' /\ NotCandidates'
  BY <1>1, <1>2, <1>3 DEF ReleaseInv, Standing, Fenced, Resting, NotCandidates, Retained, Candidate
<1>5. \/ deployer' = [deployer EXCEPT !.at = "routeBack"] /\ deployer.mode = "rollback"
      \/ deployer' = [deployer EXCEPT !.at = "clean"]
      \/ deployer' = NoDeployer
  BY <1>1 DEF Settle, Go, Raise, Handler, In
<1>6. /\ deployer' \in DeployerStates
      /\ \/ deployer'.at = "routeBack" /\ deployer'.mode = "rollback"
         \/ deployer'.at = "clean"
         \/ deployer' = NoDeployer /\ deployer'.at = "idle"
  <2>1. CASE deployer' = [deployer EXCEPT !.at = "routeBack"] /\ deployer.mode = "rollback"
    BY <1>1, <2>1 DEF DeployerStates, Steps
  <2>2. CASE deployer' = [deployer EXCEPT !.at = "clean"]
    BY <1>1, <2>2 DEF DeployerStates, Steps
  <2>3. CASE deployer' = NoDeployer
    BY <2>3 DEF DeployerStates, Modes, NoDeployer, Nobody, Groups
  <2> QED
    BY <1>5, <2>1, <2>2, <2>3
<1>7. ReleaseTypeOK'
  BY <1>2, <1>3, <1>6 DEF ReleaseInv, ReleaseTypeOK, DeployerStates
<1>8. Shaped'
  BY <1>1, <1>2, <1>3, <1>6 DEF ReleaseInv, Shaped, NoDeployer
<1>9. InMode' /\ Authorized' /\ Placed' /\ Seen'
  BY <1>1, <1>2, <1>4, <1>6 DEF InMode, Authorized, Placed, Seen
<1> QED
  BY <1>4, <1>7, <1>8, <1>9 DEF ReleaseInv

LEMMA StopCandidateKeeps == ASSUME ReleaseInv, StopCandidate PROVE ReleaseInv'
<1>1. /\ deployer.at = "clean" /\ release.open /\ NotCandidates
  BY DEF StopCandidate, Reached, ReleaseInv, Authorized, Shaped
<1>2. CASE Serving \ {release.slot} = {}
  BY <1>1, <1>2, RaiseKeeps, FaultBounded DEF StopCandidate, Unless, Raise
<1>3. CASE Serving \ {release.slot} # {}
  <2>1. traffic = knownGood.slot
    <3>1. traffic \in Slots /\ traffic # release.slot
      BY <1>3 DEF Serving, ReleaseInv, ReleaseTypeOK
    <3> QED
      BY <1>1, <3>1, TheSlots
  <2>2. /\ UNCHANGED <<stateFile, authority, traffic, begun>>
        /\ stack' \in {stack, [stack EXCEPT ![release.slot] = NoSha]}
        /\ consumers' \in {consumers, [consumers EXCEPT ![release.slot] = "inactive"]}
    BY <1>3 DEF StopCandidate, Unless
  <2>3. /\ consumers \in [Slots -> Groups] /\ stack \in [Slots -> Shas \cup {NoSha}]
        /\ traffic' \in Slots
    BY <2>2 DEF ReleaseInv, ReleaseTypeOK
  <2>4. /\ consumers' \in [Slots -> Groups]
        /\ \A s \in Slots : consumers[s] = "inactive" => consumers'[s] = "inactive"
    BY <2>2, <2>3 DEF Groups
  <2>5. /\ stack' \in [Slots -> Shas \cup {NoSha}]
        /\ stack'[knownGood.slot] = stack[knownGood.slot]
    BY <1>1, <2>2, <2>3, TheSlots
  <2>6. Standing'
    BY <2>1, <2>2, <2>5 DEF ReleaseInv, Standing, stateFile
  <2>7. Fenced' /\ Resting'
    BY <1>1, <2>2, <2>4, TheSlots DEF ReleaseInv, Fenced, Resting, Retained, Candidate, stateFile
  <2>8. CASE BreaksOff
    BY <1>1, <2>2, <2>3, <2>4, <2>5, <2>6, <2>7, <2>8, BrokenOff, FaultBounded DEF BreaksOff, Raise
  <2>9. CASE /\ consumers' = [consumers EXCEPT ![release.slot] = "inactive"]
             /\ Go("archive") /\ UNCHANGED faults
    <3>1. /\ ReleaseTypeOK' /\ Shaped' /\ NotCandidates'
          /\ deployer'.at = "archive" /\ deployer'.mode = deployer.mode
      BY <1>1, <2>2, <2>3, <2>4, <2>5, <2>9, GoesOn, FaultBounded DEF Steps
    <3>2. traffic' = knownGood'.slot /\ consumers'[release'.slot] = "inactive"
      BY <1>1, <2>1, <2>2, <2>3, <2>9, TheSlots DEF stateFile
    <3> QED
      BY <2>6, <2>7, <3>1, <3>2 DEF ReleaseInv, InMode, Authorized, Placed, Seen
  <2> QED
    BY <1>3, <2>8, <2>9 DEF StopCandidate, Unless
<1> QED
  BY <1>2, <1>3

LEMMA CloseReleaseKeeps == ASSUME ReleaseInv, CloseRelease PROVE ReleaseInv'
<1>1. /\ deployer.at = "archive" /\ release.open /\ NotCandidates
      /\ traffic = knownGood.slot /\ consumers[release.slot] = "inactive"
  BY DEF CloseRelease, Reached, ReleaseInv, Authorized, Placed, Shaped
<1>2. /\ release' = [release EXCEPT !.open = FALSE] /\ deployer' = NoDeployer
      /\ UNCHANGED <<activeSlot, knownGood, authority, stack, consumers, traffic, begun, faults>>
  BY DEF CloseRelease, host
<1>3. /\ release' \in [open : BOOLEAN, sha : Shas, slot : Slots, generation : Generations,
                   owner : Owners \cup {"unset"},
                   phase : {"candidate_start", "worker_cutover", "traffic_switch"}]
      /\ ~release'.open /\ release'.generation = release.generation
  BY <1>2 DEF ReleaseInv, ReleaseTypeOK
<1>4. /\ deployer' \in DeployerStates /\ deployer'.at = "idle" /\ deployer'.mode = "deploy"
      /\ deployer' = NoDeployer'
  BY <1>2 DEF NoDeployer, Nobody, DeployerStates, Modes, Groups
<1>5. ReleaseTypeOK'
  BY <1>2, <1>3, <1>4 DEF ReleaseInv, ReleaseTypeOK, DeployerStates
<1>6. Shaped' /\ Standing'
  BY <1>1, <1>2, <1>3, <1>4 DEF ReleaseInv, Shaped, Standing
<1>7. Fenced' /\ Resting'
  BY <1>1, <1>2, <1>3, TheSlots DEF ReleaseInv, Fenced, Resting, NotCandidates, Retained
<1> QED
  BY <1>4, <1>5, <1>6, <1>7 DEF ReleaseInv, InMode, Authorized, Placed, Seen

LEMMA BeginKeeps == ASSUME ReleaseInv, NEW sha \in Shas, Begin(sha) PROVE ReleaseInv'
<1>1. /\ ~release.open /\ NotCandidates /\ activeSlot = knownGood.slot /\ activeSlot \in Slots
      /\ begun \in Nat /\ begun < MaxDeploys /\ MaxDeploys \in Nat
  BY ReleaseAssumption DEF Begin, ReleaseInv, Shaped, Resting, ReleaseTypeOK, Generations
<1>2. /\ begun' = begun + 1
      /\ release' = [open |-> TRUE, sha |-> sha, slot |-> Other(activeSlot),
                     generation |-> begun + 1, owner |-> "unset", phase |-> "candidate_start"]
      /\ deployer' = [NoDeployer EXCEPT !.at = "start"]
      /\ UNCHANGED <<activeSlot, knownGood, authority, stack, consumers, traffic, faults>>
  BY DEF Begin, host
<1>3. begun + 1 \in Generations /\ Other(activeSlot) \in Slots
  BY <1>1, TwoSlots DEF Generations
<1>4. /\ release' \in [open : BOOLEAN, sha : Shas, slot : Slots, generation : Generations,
                   owner : Owners \cup {"unset"},
                   phase : {"candidate_start", "worker_cutover", "traffic_switch"}]
      /\ release'.open /\ release'.generation = begun' /\ release'.slot = Other(activeSlot)
  BY <1>2, <1>3
<1>5. deployer' \in DeployerStates /\ deployer'.at = "start" /\ deployer'.mode = "deploy"
  BY <1>2 DEF NoDeployer, Nobody, DeployerStates, Modes, Groups, Steps
<1>6. ReleaseTypeOK'
  BY <1>2, <1>3, <1>4, <1>5 DEF ReleaseInv, ReleaseTypeOK, DeployerStates
<1>7. Shaped' /\ Standing'
  BY <1>1, <1>2, <1>4, <1>5 DEF ReleaseInv, Shaped, Standing
<1>8. Fenced' /\ Resting' /\ NotCandidates'
  BY <1>1, <1>2, <1>4 DEF ReleaseInv, Fenced, Resting, NotCandidates, Retained
<1> QED
  BY <1>5, <1>6, <1>7, <1>8 DEF ReleaseInv, InMode, Authorized, Placed, Seen

-----------------------------------------------------------------------------
(* Everything else.                                                          *)

LEMMA RefreshWorkersKeeps == ASSUME ReleaseInv, RefreshWorkers PROVE ReleaseInv'
<1>1. /\ deployer.at = "idle" /\ ~release.open /\ OtherInactive(knownGood.slot)
      /\ deployer.mode = "deploy"
      /\ UNCHANGED <<activeSlot, knownGood, release, authority, stack, traffic, deployer, begun>>
  BY DEF RefreshWorkers, stateFile, ReleaseInv, Shaped, NoDeployer
<1>2. /\ \E g \in Groups : consumers' = [consumers EXCEPT ![knownGood.slot] = g]
      /\ faults' \in 0 .. MaxFaults
  BY FaultBounded DEF RefreshWorkers, Groups
<1>3. /\ consumers \in [Slots -> Groups] /\ knownGood.slot \in Slots
      /\ Other(knownGood.slot) \in Slots /\ Other(knownGood.slot) # knownGood.slot
  BY TwoSlots DEF ReleaseInv, ReleaseTypeOK
<1>4. /\ consumers' \in [Slots -> Groups]
      /\ consumers'[Other(knownGood.slot)] = "inactive"
  BY <1>1, <1>2, <1>3 DEF OtherInactive
<1>5. ReleaseTypeOK'
  BY <1>1, <1>2, <1>4 DEF ReleaseInv, ReleaseTypeOK
<1>6. Shaped' /\ Standing'
  BY <1>1 DEF ReleaseInv, Shaped, Standing, NoDeployer
<1>7. Fenced' /\ Resting'
  BY <1>1, <1>3, <1>4 DEF ReleaseInv, Fenced, Resting, NotCandidates, Retained
<1> QED
  BY <1>1, <1>5, <1>6, <1>7 DEF ReleaseInv, InMode, Authorized, Placed, Seen

\* Workers that fail or recover stay on or off.
LEMMA FlickerKeeps ==
  ASSUME ReleaseInv, NEW s \in Slots, consumers[s] # "inactive", NEW g \in Groups \ {"inactive"},
         consumers' = [consumers EXCEPT ![s] = g], faults' \in 0 .. MaxFaults,
         UNCHANGED <<stateFile, authority, stack, traffic, deployer, begun>>
  PROVE  ReleaseInv'
<1>1. consumers' \in [Slots -> Groups] /\ consumers \in [Slots -> Groups]
  BY DEF ReleaseInv, ReleaseTypeOK
<1>2. \A t \in Slots : consumers[t] = "inactive" => consumers'[t] = "inactive"
  BY <1>1
<1>3. Standing' /\ Fenced' /\ Resting'
  BY <1>1, <1>2, Quieter
<1>4. ReleaseTypeOK' /\ Shaped'
  BY <1>1 DEF ReleaseInv, ReleaseTypeOK, Shaped, stateFile, NoDeployer
<1>5. InMode' /\ Authorized'
  BY DEF ReleaseInv, InMode, Authorized, NotCandidates, Retained, Candidate, stateFile
<1>6. knownGood.slot \in Slots /\ release.slot \in Slots
  BY DEF ReleaseInv, ReleaseTypeOK
<1>7. Placed' /\ Seen'
  BY <1>2, <1>6 DEF ReleaseInv, Placed, Seen, RetainedActive, stateFile
<1> QED
  BY <1>3, <1>4, <1>5, <1>7 DEF ReleaseInv

LEMMA StopKeeps == ASSUME ReleaseInv, Die \/ \E step \in {"cutover", "confirm", "observe", "route"} :
                                             LookFails(step)
                   PROVE  ReleaseInv'
<1>1. CASE Die
  BY <1>1, RaiseKeeps, FaultBounded DEF Die
<1>2. ASSUME NEW step \in {"cutover", "confirm", "observe", "route"}, LookFails(step)
      PROVE  ReleaseInv'
  BY <1>2, RaiseKeeps, FaultBounded DEF LookFails, Reached, Raise
<1> QED
  BY <1>1, <1>2

LEMMA NextInv == ReleaseInv /\ [ReleaseNext]_releaseVars => ReleaseInv'
<1> SUFFICES ASSUME ReleaseInv, [ReleaseNext]_releaseVars PROVE ReleaseInv'
  OBVIOUS
<1>1. CASE ForwardStep
  BY <1>1, StartCandidateKeeps, CutOverKeeps, InhibitKeeps, QuiesceKeeps, AuthorizeCandidateKeeps,
     ActivateCandidateKeeps, ConfirmKeeps, SwitchToCandidateKeeps, ObserveKeeps DEF ForwardStep
<1>2. CASE BackStep
  BY <1>2, RevokeKeeps, DismissKeeps, EntrustKeeps, RestoreKeeps, SettleKeeps, RouteBackKeeps,
     StopCandidateKeeps, CloseReleaseKeeps DEF BackStep
<1>3. CASE RecoveryStep
  BY <1>3, ExamineKeeps, RouteKeeps, SortKeeps, ReinstateKeeps DEF RecoveryStep
<1>4. CASE NoteOwner \/ Die \/ RefreshWorkers
           \/ \E step \in {"cutover", "confirm", "observe", "route"} : LookFails(step)
  BY <1>4, NoteOwnerKeeps, StopKeeps, RefreshWorkersKeeps
<1>5. ASSUME NEW sha \in Shas, Begin(sha) PROVE ReleaseInv'
  BY <1>5, BeginKeeps
<1>6. ASSUME NEW s \in Slots, Falter(s) PROVE ReleaseInv'
  BY <1>6, FlickerKeeps, FaultBounded DEF Falter, Groups
<1>7. ASSUME NEW s \in Slots, Warm(s) PROVE ReleaseInv'
  BY <1>7, FlickerKeeps, FaultBounded DEF Warm, Groups
<1>8. CASE UNCHANGED releaseVars
  BY <1>8 DEF releaseVars, stateFile, host, ReleaseInv, ReleaseTypeOK, Shaped, Standing, Fenced,
     Resting, NotCandidates, InMode, Authorized, Placed, Seen, Retained, Candidate, RetainedActive,
     NoDeployer
<1> QED
  BY <1>1, <1>2, <1>3, <1>4, <1>5, <1>6, <1>7, <1>8 DEF ReleaseNext, DeployerStep

-----------------------------------------------------------------------------
(* The theorems.                                                             *)

THEOREM ReleaseInvariant == ReleaseSpec => []ReleaseInv
BY InitInv, NextInv, PTL DEF ReleaseSpec

\* Every file written, container group and slot keeps its type (release_deployer.py).
THEOREM ReleaseTypes == ReleaseSpec => []ReleaseTypeOK
<1>1. ReleaseInv => ReleaseTypeOK
  BY DEF ReleaseInv
<1> QED
  BY <1>1, ReleaseInvariant, PTL

\* Two releases never consume the same queues, whatever operation fails and wherever the
\* deployer dies: workers are started only for the owner that worker-ownership.json names
\* and while the other slot's are off (activate_workers, restore_workers).
THEOREM SingleConsumer == ReleaseSpec => []WorkersFollowAuthority
<1>1. ReleaseInv => WorkersFollowAuthority
  <2> SUFFICES ASSUME ReleaseInv PROVE WorkersFollowAuthority
    OBVIOUS
  <2>1. CASE authority.owner = "CANDIDATE" /\ authority.candidate = Candidate /\ release.open
             /\ consumers[knownGood.slot] = "inactive"
    BY <2>1, TheSlots DEF ReleaseInv, Fenced, WorkersFollowAuthority, AuthorityOwner, Candidate
  <2>2. CASE ~(authority.owner = "CANDIDATE" /\ authority.candidate = Candidate /\ release.open
               /\ consumers[knownGood.slot] = "inactive")
    BY <2>2 DEF ReleaseInv, ReleaseTypeOK, Owners, Fenced, WorkersFollowAuthority, AuthorityOwner,
       Retained
  <2> QED
    BY <2>1, <2>2
<1> QED
  BY <1>1, ReleaseInvariant, PTL

\* The containers that serve are not removed before another release is accepted, and traffic
\* leaves them only for containers of a release that recovery may roll back (switch_traffic,
\* stop_candidate).
THEOREM TargetUntouched == ReleaseSpec => []ActiveTargetUntouched
<1>1. ReleaseInv => ActiveTargetUntouched
  BY ReleaseAssumption DEF ReleaseInv, ReleaseTypeOK, Shaped, Standing, ActiveTargetUntouched,
     RollbackRequired
<1> QED
  BY <1>1, ReleaseInvariant, PTL

\* When a release was accepted or archived, the state file tells where traffic and workers are
\* (the completed deployment, and the archive of a failed or recovered one).
THEOREM Rest == ReleaseSpec => []RestIsConsistent
<1>1. ReleaseInv => RestIsConsistent
  BY DEF ReleaseInv, ReleaseTypeOK, Owners, Shaped, Standing, Resting, NotCandidates, Fenced,
     RestIsConsistent, AuthorityOwner
<1> QED
  BY <1>1, ReleaseInvariant, PTL
=============================================================================
