-------------------------- MODULE ReleaseDeployment --------------------------
(* The blue/green release state machine: ReleaseDeployer.deploy and its recovery of  *)
(* an interrupted release (deployment/lib/release_deployer.py), on the operations of *)
(* deployment/bin/madar-release-deploy and madar-switch-traffic.                     *)
(*                                                                                   *)
(* One action is one operation on the host or one file written.  The deployer may    *)
(* die between any two: what it leaves is state.json (activeSlot, knownGood,         *)
(* release), worker-ownership.json (authority) and the containers of the host.       *)
EXTENDS Naturals

CONSTANTS
  Shas,        \* commits that may be released
  NoSha,       \* no containers stand in a slot
  FirstSha,    \* the release adopted when the host was set up
  MaxDeploys,  \* bound: releases begun
  MaxFaults    \* bound: deaths of the deployer, failed operations, failing workers

ASSUME ReleaseAssumption ==
  /\ FirstSha \in Shas /\ NoSha \notin Shas
  /\ MaxDeploys \in Nat /\ MaxFaults \in Nat

VARIABLES
  activeSlot,  \* state.json: active_slot
  knownGood,   \* state.json: known_good_release
  release,     \* state.json: in_progress_release; when not open, the last one archived
  authority,   \* worker-ownership.json
  stack,       \* the release whose containers stand in each slot
  consumers,   \* what the queue workers of each slot do
  traffic,     \* the slot the loaded proxy route leads to
  deployer,    \* the process that holds deploy.lock, between two operations
  begun, faults

stateFile == <<activeSlot, knownGood, release>>
host == <<stack, consumers, traffic>>
releaseVars == <<stateFile, authority, host, deployer, begun, faults>>

Slots == {"blue", "green"}
Other(s) == IF s = "blue" THEN "green" ELSE "blue"

\* "halted": some of the containers are stopped and some are not.  "failing": all run, or
\* are restarted by docker, and not all are healthy.
Groups == {"inactive", "halted", "failing", "starting", "active"}
Owners == {"OLD", "NONE", "CANDIDATE"}

Steps == {"start", "cutover", "inhibit", "quiesce", "authorize", "activate", "confirm", "switch",
          "observe", "revoke", "dismiss", "entrust", "restore", "settle", "routeBack", "clean",
          "archive", "route", "sort", "reinstate"}
\* "undo": the candidate's workers did not start.  "withdraw": traffic did not switch.
\* "rollback": the observation failed.  "recover": an earlier deployer was interrupted.
Modes == {"deploy", "undo", "withdraw", "rollback", "recover"}

Nobody == [side |-> "none", group |-> "inactive"]
NoDeployer == [at |-> "idle", mode |-> "deploy", seen |-> Nobody, noted |-> TRUE]

ReleaseInit ==
  /\ activeSlot = "blue"
  /\ knownGood = [sha |-> FirstSha, slot |-> "blue", generation |-> 0]
  /\ release = [open |-> FALSE, sha |-> FirstSha, slot |-> "green", generation |-> 0,
                owner |-> "unset", phase |-> "candidate_start"]
  /\ authority = [owner |-> "CANDIDATE", generation |-> 0,
                  old |-> [sha |-> FirstSha, slot |-> "green"],
                  candidate |-> [sha |-> FirstSha, slot |-> "blue"]]
  /\ stack = [s \in Slots |-> IF s = "blue" THEN FirstSha ELSE NoSha]
  /\ consumers = [s \in Slots |-> IF s = "blue" THEN "active" ELSE "inactive"]
  /\ traffic = "blue"
  /\ deployer = NoDeployer /\ begun = 0 /\ faults = 0

-----------------------------------------------------------------------------
(* What the deployer reads.                                                  *)

Retained == [sha |-> knownGood.sha, slot |-> knownGood.slot]
Candidate == [sha |-> release.sha, slot |-> release.slot]

\* The last phase that was checkpointed: rollback_required is written with "traffic_switch".
RollbackRequired == release.phase = "traffic_switch"

\* Mutant of Ownership: workers that are still starting count as stopped.
OwnershipOfHealthy ==
  LET group(s) == IF consumers[s] = "starting" THEN "inactive" ELSE consumers[s]
      seenAs(side, s) == [side |-> side, group |-> group(s)]
  IN  CASE group(knownGood.slot) = "inactive" /\ group(release.slot) = "inactive" -> Nobody
        [] group(release.slot) = "inactive" -> seenAs("old", knownGood.slot)
        [] OTHER -> seenAs("candidate", release.slot)

\* worker_ownership: whose workers run, if only one side's do, and how they are.
Ownership ==
  LET old == consumers[knownGood.slot]
      new == consumers[release.slot]
      seenAs(side, group) == [side |-> side, group |-> group]
  IN  CASE old = "inactive" /\ new = "inactive" -> Nobody
        [] old # "inactive" /\ new = "inactive" -> seenAs("old", old)
        [] old = "inactive" /\ new # "inactive" -> seenAs("candidate", new)
        [] OTHER -> seenAs("overlap", "inactive")

RetainedActive(side) == side = [side |-> "old", group |-> "active"]

\* Mutant of Serving: the state file is believed, not the loaded route.
ServingRecorded == {activeSlot}

\* resolve_serving_slot: the slot that answers on the stable route with the commit that is
\* expected of it; no slot if neither does.
Serving ==
  LET expected == [s \in Slots |-> IF s = release.slot THEN release.sha ELSE knownGood.sha]
  IN  {s \in {traffic} : stack[s] = expected[s]}

\* _require_worker_authority of the operations: who may start the workers of a slot.
MayActivate(identity, generation) ==
  /\ \/ authority.owner = "OLD" /\ authority.old = identity
     \/ authority.owner = "CANDIDATE" /\ authority.candidate = identity
  /\ authority.generation = generation

OtherInactive(s) == consumers[Other(s)] = "inactive"

\* The slot's backend, which asks the slot's own workers, is ready.
Ready(s) == stack[s] # NoSha /\ consumers[s] \in {"starting", "active"}

\* Mutant of MaySwitch: a ready target too must be the one the authority hands it to.
MaySwitchHanded(s) ==
  Ready(s) /\ authority.candidate = [sha |-> stack[s], slot |-> s]

\* madar-switch-traffic: the target is ready, or nobody has the workers and they are to be
\* handed to it.
MaySwitch(s) ==
  /\ stack[s] # NoSha
  /\ \/ Ready(s)
     \/ authority.owner = "NONE" /\ authority.candidate = [sha |-> stack[s], slot |-> s]

\* _require_worker_authority of the deployer: the authority is the one last recorded.
AuthorityRecorded ==
  authority = [owner |-> release.owner, generation |-> release.generation,
               old |-> Retained, candidate |-> Candidate]

\* _set_worker_authority: the epoch is this release's, or the known good release's last one
\* becomes its OLD.
AuthorityAllows(owner, expected) ==
  /\ authority.owner \in expected
  /\ \/ authority.generation = release.generation
     \/ /\ owner = "OLD"
        /\ \/ authority.owner = "OLD" /\ authority.old = Retained
           \/ authority.owner = "CANDIDATE" /\ authority.candidate = Retained

-----------------------------------------------------------------------------
(* How a step ends.                                                          *)

Reached(step) == deployer.at = step /\ deployer.noted
In(mode) == deployer.mode = mode
Go(step) == deployer' = [deployer EXCEPT !.at = step]
Fault == faults < MaxFaults /\ faults' = faults + 1

\* Where an exception is caught: the workers are handed back, the candidate is removed, or
\* the process ends and leaves the release in progress.
Handler ==
  LET to(step, mode) == [deployer EXCEPT !.at = step, !.mode = mode]
  IN  CASE In("deploy") /\ deployer.at \in {"authorize", "activate", "confirm"} -> to("revoke", "undo")
        [] In("deploy") /\ deployer.at = "switch" -> to("revoke", "withdraw")
        [] In("deploy") /\ deployer.at = "observe" -> to("revoke", "rollback")
        [] \/ In("deploy") /\ deployer.at \in {"start", "cutover", "inhibit", "quiesce"}
           \/ In("undo") /\ deployer.at # "clean" -> to("clean", "deploy")
        [] OTHER -> NoDeployer
Raise == deployer' = Handler

\* The operation raises, or the deployer dies in it, with the operation half done.
BreaksOff == Fault /\ (Raise \/ deployer' = NoDeployer)

\* A step whose condition fails raises and changes nothing else.
Unless(allowed, Effect) ==
  IF allowed THEN Effect ELSE Raise /\ UNCHANGED <<stateFile, authority, host, begun, faults>>

\* _set_worker_authority writes the authority and then, in NoteOwner, the state file.
Authorize(owner, expected, next) ==
  Unless(AuthorityAllows(owner, expected),
    /\ authority' = [owner |-> owner, generation |-> release.generation,
                     old |-> Retained, candidate |-> Candidate]
    /\ deployer' = [deployer EXCEPT !.at = next, !.noted = FALSE]
    /\ UNCHANGED <<stateFile, host, begun, faults>>)

NoteOwner ==
  /\ ~deployer.noted
  /\ release' = [release EXCEPT !.owner = authority.owner]
  /\ deployer' = [deployer EXCEPT !.noted = TRUE]
  /\ UNCHANGED <<activeSlot, knownGood, authority, host, begun, faults>>

\* deactivate_workers and the look that follows it: all stop, or it breaks off with some
\* stopped.
Deactivate(s, next) ==
  /\ UNCHANGED <<stateFile, authority, stack, traffic, begun>>
  /\ \/ /\ consumers' = [consumers EXCEPT ![s] = "inactive"]
        /\ IF In("recover") THEN deployer' = [deployer EXCEPT !.at = next, !.seen = Ownership']
           ELSE IF Ownership' = Nobody THEN Go(next) ELSE Raise
        /\ UNCHANGED faults
     \/ /\ BreaksOff
        /\ \E g \in {consumers[s], "halted", "inactive"} :
             /\ consumers[s] = "inactive" => g = "inactive"
             /\ consumers' = [consumers EXCEPT ![s] = g]

\* Workers that are started are waited for; if they do not come up they stay as they are.
Activate(identity, next) ==
  Unless(MayActivate(identity, release.generation) /\ OtherInactive(identity.slot),
    /\ UNCHANGED <<stateFile, authority, stack, traffic, begun>>
    /\ \/ /\ consumers' = [consumers EXCEPT ![identity.slot] = "active"]
          /\ Go(next) /\ UNCHANGED faults
       \/ /\ BreaksOff
          /\ \E g \in Groups : consumers' = [consumers EXCEPT ![identity.slot] = g])

\* switch_traffic: when the new route is not proven the old one is written back, but what
\* is loaded is either.
Switch(s, next) ==
  Unless(MaySwitch(s),
    /\ UNCHANGED <<activeSlot, knownGood, release, authority, stack, consumers, begun>>
    /\ \/ traffic' = s /\ Go(next) /\ UNCHANGED faults
       \/ traffic' \in {traffic, s} /\ BreaksOff)

\* A step that only looks may fail.
LookFails(step) ==
  Reached(step) /\ Fault /\ Raise /\ UNCHANGED <<stateFile, authority, host, begun>>

-----------------------------------------------------------------------------
(* deploy: the candidate is started beside the active slot, takes over the   *)
(* workers, then the traffic.                                                *)

Begin(sha) ==
  /\ deployer.at = "idle" /\ ~release.open /\ begun < MaxDeploys
  /\ begun' = begun + 1
  /\ release' = [open |-> TRUE, sha |-> sha, slot |-> Other(activeSlot), generation |-> begun + 1,
                 owner |-> "unset", phase |-> "candidate_start"]
  /\ deployer' = [NoDeployer EXCEPT !.at = "start"]
  /\ UNCHANGED <<activeSlot, knownGood, authority, host, faults>>

\* verify_source up to validate_candidate_core; the workers of the slot stay off.
StartCandidate ==
  /\ Reached("start")
  /\ Unless(traffic # release.slot,
       /\ consumers' = [consumers EXCEPT ![release.slot] = "inactive"]
       /\ UNCHANGED <<activeSlot, knownGood, authority, traffic, begun>>
       /\ \/ /\ stack' = [stack EXCEPT ![release.slot] = release.sha]
             /\ release' = [release EXCEPT !.phase = "worker_cutover"]
             /\ Go("cutover") /\ UNCHANGED faults
          \/ /\ \E s \in {stack[release.slot], NoSha, release.sha} :
                  stack' = [stack EXCEPT ![release.slot] = s]
             /\ BreaksOff /\ UNCHANGED release)

CutOver ==
  /\ Reached("cutover")
  /\ IF RetainedActive(Ownership) THEN Authorize("OLD", {"OLD", "CANDIDATE"}, "inhibit")
     ELSE Raise /\ UNCHANGED <<stateFile, authority, host, begun, faults>>

Inhibit == Reached("inhibit") /\ Authorize("NONE", {"OLD"}, "quiesce")
Quiesce ==
  Reached("quiesce") /\ Deactivate(knownGood.slot, IF In("recover") THEN "reinstate" ELSE "authorize")
AuthorizeCandidate == Reached("authorize") /\ Authorize("CANDIDATE", {"NONE"}, "activate")
ActivateCandidate == Reached("activate") /\ Activate(Candidate, "confirm")

\* validate_candidate; then the checkpoints that allow the switch.
Confirm ==
  /\ Reached("confirm")
  /\ Unless(Ready(release.slot),
       /\ release' = [release EXCEPT !.phase = "traffic_switch"]
       /\ Go("switch")
       /\ UNCHANGED <<activeSlot, knownGood, authority, host, begun, faults>>)

SwitchToCandidate == Reached("switch") /\ Switch(release.slot, "observe")

\* observe, and the record of the new known good release in one write.
Observe ==
  /\ Reached("observe")
  /\ Unless(Ready(release.slot),
       /\ activeSlot' = release.slot
       /\ knownGood' = [sha |-> release.sha, slot |-> release.slot, generation |-> release.generation]
       /\ release' = [release EXCEPT !.open = FALSE]
       /\ deployer' = NoDeployer
       /\ UNCHANGED <<authority, host, begun, faults>>)

-----------------------------------------------------------------------------
(* The way back: the candidate's workers stop, the retained ones start.      *)

Revoke ==
  Reached("revoke") /\ Authorize("NONE", {"CANDIDATE", "NONE"}, "dismiss")
Dismiss ==
  Reached("dismiss") /\ Deactivate(release.slot, IF In("recover") THEN "reinstate" ELSE "entrust")
Entrust == Reached("entrust") /\ Authorize("OLD", {"NONE"}, "restore")
Restore == Reached("restore") /\ Activate(Retained, "settle")

\* _restore_retained_workers publishes the epoch under which they run now.
Settle ==
  /\ Reached("settle")
  /\ knownGood' = [knownGood EXCEPT !.generation = release.generation]
  /\ IF In("rollback") THEN Go("routeBack")
     ELSE IF In("recover") /\ ~RetainedActive(Ownership) THEN Raise
     ELSE Go("clean")
  /\ UNCHANGED <<activeSlot, release, authority, host, begun, faults>>

RouteBack == Reached("routeBack") /\ Switch(activeSlot, "clean")

\* stop_candidate removes the containers of a slot that provably does not serve.
StopCandidate ==
  /\ Reached("clean")
  /\ Unless(Serving \ {release.slot} # {},
       /\ UNCHANGED <<stateFile, authority, traffic, begun>>
       /\ \/ /\ stack' = [stack EXCEPT ![release.slot] = NoSha]
             /\ consumers' = [consumers EXCEPT ![release.slot] = "inactive"]
             /\ Go("archive") /\ UNCHANGED faults
          \/ /\ stack' \in {stack, [stack EXCEPT ![release.slot] = NoSha]}
             /\ consumers' \in {consumers, [consumers EXCEPT ![release.slot] = "inactive"]}
             /\ BreaksOff)

CloseRelease ==
  /\ Reached("archive")
  /\ release' = [release EXCEPT !.open = FALSE]
  /\ deployer' = NoDeployer
  /\ UNCHANGED <<activeSlot, knownGood, authority, host, begun, faults>>

-----------------------------------------------------------------------------
(* _recover_interrupted: the next deployment that takes the lock.            *)

\* Only known traffic, one owner of the workers and a matching authority are gone on with.
Examine ==
  /\ deployer.at = "idle" /\ release.open
  /\ Serving # {} /\ Ownership.side # "overlap"
  /\ LET recovering(noted) == [at |-> "route", mode |-> "recover", seen |-> Ownership, noted |-> noted]
     IN  \/ /\ release.owner # "unset" /\ AuthorityRecorded
            /\ deployer' = recovering(TRUE) /\ UNCHANGED authority
         \/ /\ release.owner = "unset"
            /\ authority.owner = "CANDIDATE" /\ authority.candidate = Retained
            /\ RetainedActive(Ownership)
            /\ authority' = [owner |-> "OLD", generation |-> release.generation,
                             old |-> Retained, candidate |-> Candidate]
            /\ deployer' = recovering(FALSE)
  /\ UNCHANGED <<stateFile, host, begun, faults>>

\* verify_source; traffic that reached the candidate is led back.
Route ==
  /\ Reached("route")
  /\ IF Serving = {release.slot}
     THEN Unless(RollbackRequired, Switch(activeSlot, "sort"))
     ELSE Go("sort") /\ UNCHANGED <<stateFile, authority, host, begun, faults>>

\* What was seen of the workers before the traffic was led back decides.
Sort ==
  LET seen == deployer.seen
      stay == UNCHANGED <<stateFile, authority, host, begun, faults>>
      warming == seen = [side |-> "old", group |-> "starting"]
  IN  /\ Reached("sort")
      /\ CASE seen.side = "candidate" ->
                IF release.owner = "CANDIDATE" THEN Authorize("NONE", {"CANDIDATE"}, "dismiss")
                ELSE Raise /\ stay
           [] warming /\ release.owner = "OLD" -> Authorize("NONE", {"OLD"}, "quiesce")
           [] warming /\ release.owner # "OLD" ->
                (IF release.owner = "NONE" THEN Go("quiesce") ELSE Raise) /\ stay
           [] RetainedActive(seen) /\ release.owner # "OLD" ->
                (IF release.owner = "NONE" /\ release.phase = "worker_cutover"
                 THEN Go("quiesce") ELSE Raise) /\ stay
           [] OTHER -> Go("reinstate") /\ stay

Reinstate ==
  LET seen == deployer.seen
      stay == UNCHANGED <<stateFile, authority, host, begun, faults>>
  IN  /\ Reached("reinstate")
      /\ CASE seen = Nobody /\ release.owner # "NONE" ->
                Authorize("NONE", {release.owner}, "entrust")
           [] seen = Nobody /\ release.owner = "NONE" -> Authorize("OLD", {"NONE"}, "restore")
           [] RetainedActive(seen) -> Go("clean") /\ stay
           [] OTHER -> Raise /\ stay

-----------------------------------------------------------------------------
(* Everything else.                                                          *)

\* refresh_active_workers: the workers of the known good release are started anew.
RefreshWorkers ==
  /\ deployer.at = "idle" /\ ~release.open
  /\ MayActivate(Retained, knownGood.generation) /\ OtherInactive(knownGood.slot)
  /\ \/ consumers' = [consumers EXCEPT ![knownGood.slot] = "active"] /\ UNCHANGED faults
     \/ Fault /\ \E g \in Groups : consumers' = [consumers EXCEPT ![knownGood.slot] = g]
  /\ UNCHANGED <<stateFile, authority, stack, traffic, deployer, begun>>

Die ==
  /\ deployer.at # "idle" /\ Fault /\ deployer' = NoDeployer
  /\ UNCHANGED <<stateFile, authority, host, begun>>

Falter(s) ==
  /\ consumers[s] = "active" /\ Fault
  /\ consumers' = [consumers EXCEPT ![s] = "failing"]
  /\ UNCHANGED <<stateFile, authority, stack, traffic, deployer, begun>>

\* Started workers become healthy, and docker restarts those that fail.
Warm(s) ==
  /\ consumers[s] \in {"starting", "failing"}
  /\ consumers' = [consumers EXCEPT ![s] = "active"]
  /\ UNCHANGED <<stateFile, authority, stack, traffic, deployer, begun, faults>>

ForwardStep ==
  \/ StartCandidate \/ CutOver \/ Inhibit \/ Quiesce \/ AuthorizeCandidate \/ ActivateCandidate
  \/ Confirm \/ SwitchToCandidate \/ Observe
BackStep ==
  \/ Revoke \/ Dismiss \/ Entrust \/ Restore \/ Settle \/ RouteBack \/ StopCandidate \/ CloseRelease
RecoveryStep == Examine \/ Route \/ Sort \/ Reinstate
DeployerStep ==
  \/ ForwardStep \/ BackStep \/ RecoveryStep \/ NoteOwner
  \/ \E step \in {"cutover", "confirm", "observe", "route"} : LookFails(step)

ReleaseNext ==
  \/ DeployerStep
  \/ \E sha \in Shas : Begin(sha)
  \/ RefreshWorkers \/ Die
  \/ \E s \in Slots : Falter(s) \/ Warm(s)

\* The process that holds the lock goes on; while main is ahead of the known good release the
\* timer enters deploy again; failing workers come back.
ReleaseFairness ==
  /\ WF_releaseVars(DeployerStep)
  /\ \A s \in Slots : WF_releaseVars(Warm(s))

ReleaseSpec == ReleaseInit /\ [][ReleaseNext]_releaseVars
FairReleaseSpec == ReleaseSpec /\ ReleaseFairness

-----------------------------------------------------------------------------
(* Properties.                                                               *)

Generations == 0 .. MaxDeploys
Identities == [sha : Shas, slot : Slots]

ReleaseTypeOK ==
  /\ activeSlot \in Slots /\ traffic \in Slots
  /\ knownGood \in [sha : Shas, slot : Slots, generation : Generations]
  /\ release \in [open : BOOLEAN, sha : Shas, slot : Slots, generation : Generations,
                  owner : Owners \cup {"unset"},
                  phase : {"candidate_start", "worker_cutover", "traffic_switch"}]
  /\ authority \in [owner : Owners, generation : Generations, old : Identities,
                    candidate : Identities]
  /\ stack \in [Slots -> Shas \cup {NoSha}]
  /\ consumers \in [Slots -> Groups]
  /\ deployer \in [at : Steps \cup {"idle"}, mode : Modes,
                   seen : [side : {"none", "old", "candidate", "overlap"}, group : Groups],
                   noted : BOOLEAN]
  /\ begun \in Generations /\ faults \in 0 .. MaxFaults

\* The queue workers of at most one slot run, and while the authority has an owner they are
\* the owner's: whatever fails, two releases never consume the same queues.
AuthorityOwner == IF authority.owner = "OLD" THEN authority.old ELSE authority.candidate
WorkersFollowAuthority ==
  /\ \E s \in Slots : consumers[s] = "inactive"
  /\ authority.owner # "NONE" =>
       consumers[Other(AuthorityOwner.slot)] = "inactive"

\* The known good release's containers stand until another release is accepted, and the
\* stable route never leads to an empty slot.
ActiveTargetUntouched ==
  /\ stack[knownGood.slot] = knownGood.sha
  /\ stack[traffic] # NoSha
  /\ traffic # activeSlot => release.open /\ RollbackRequired

\* When no release is in progress, the state file tells where the traffic and the workers
\* are: on the known good release, or the workers are off and nobody may start them.
RestIsConsistent ==
  ~release.open =>
    /\ activeSlot = traffic /\ knownGood.slot = traffic
    /\ consumers[Other(traffic)] = "inactive"
    /\ authority.owner # "NONE" => AuthorityOwner = Retained

\* What recovery refuses for ever: a deployer died between the authority and the state file;
\* or before its first authority, while the last one is not a CANDIDATE's; retained workers
\* stand half stopped, or were stopped before; the candidate's run and the authority is gone;
\* retained workers that were still starting came up after recovery inhibited them; or the
\* traffic is on the candidate and the workers of the slot it is to be led back to are off.
Stranded ==
  /\ release.open
  /\ \/ release.owner # "unset" /\ ~AuthorityRecorded
     \/ release.owner = "unset" /\ authority.owner # "CANDIDATE"
     \/ release.owner = "unset" /\ consumers[knownGood.slot] = "inactive"
     \/ consumers[knownGood.slot] = "halted"
     \/ release.owner # "CANDIDATE" /\ consumers[release.slot] # "inactive"
     \/ /\ release.owner = "NONE" /\ release.phase # "worker_cutover"
        /\ consumers[knownGood.slot] = "active"
     \/ traffic # activeSlot /\ consumers[activeSlot] = "inactive"

\* A release that was begun is accepted, undone or recovered, or it is stranded.
InterruptionsSettle == release.open ~> (~release.open \/ []Stranded)

\* Traffic that reached the candidate stays there once it is accepted, or is led back, by the
\* deployer or by the recovery after its death.
TrafficIsRestored == traffic # activeSlot ~> traffic = activeSlot
=============================================================================
