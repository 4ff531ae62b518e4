--------------------------- MODULE AccountErasure ---------------------------
(***************************************************************************)
(* The erasure of one account: the file locks and the hold marker that     *)
(* fence all work of the account (account_work_fence.py), the actions that *)
(* deactivate, delete and reactivate it, the leased erasure with its       *)
(* database functions (migration 167), and the restore floor that keeps    *)
(* older snapshots from bringing the erased data back.                     *)
(*                                                                         *)
(* The private data are the account's files, an object at the storage      *)
(* provider and the identity at the authentication provider.  Every        *)
(* database call of an eraser is an action, guarded by its lease.          *)
(***************************************************************************)
EXTENDS Naturals, FiniteSets

CONSTANTS
  Writers,     \* requests and jobs that work for the account
  Erasers,     \* lifecycle workers
  MaxRetry,    \* a retry at this generation blocks the erasure (10 in the code)
  MaxFailures, \* bound: processes that die or outlive a lease, calls that fail
  MaxActions   \* bound: actions of the administrator

ASSUME ErasureAssumption ==
  /\ MaxRetry \in Nat /\ MaxFailures \in Nat /\ MaxActions \in Nat
  /\ IsFiniteSet(Writers) /\ IsFiniteSet(Erasers)
  /\ "admin" \notin Writers \cup Erasers /\ Writers \cap Erasers = {}

VARIABLES
  fence,    \* the lock file (its inode, 0 when there is none) and the hold marker
  actor,    \* what each process is doing and the locks it holds
  account,  \* the users row
  life,     \* the account_lifecycles167 row
  files,    \* are there private files?
  remote,   \* the provider object and the authentication identity, with their resource rows
  boundary, \* restore epochs: allocated and committed in the database, floor on disk
  snapshot, \* one archive of the data, and the boundaries it was taken between
  spent     \* failures and administrator actions so far (bounds), and has a process died?

erasureVars == <<fence, actor, account, life, files, remote, boundary, snapshot, spent>>

Actors == Writers \cup Erasers \cup {"admin"}
LifeStates == {"none", "recovery_pending", "erasure_pending", "processing", "retry_pending",
               "blocked", "reactivated", "completed"}
WriterSteps == {"idle", "enter", "open", "flock", "work"}
AdminSteps == {"idle", "enter", "open", "flock", "hold", "create", "receipt", "reactivate", "release"}
EraserSteps == {"idle", "enter", "open", "flock", "hold", "inventory", "unlink", "object",
                "objectSent", "objectGone", "scan", "subject", "auth", "authSent", "authGone",
                "finish", "reserve", "floor", "complete", "restore", "retry", "block"}

Idle == [step |-> "idle", inode |-> 0, mode |-> "none", registry |-> "none",
         request |-> 0, generation |-> 0, wish |-> "none", existed |-> FALSE]
NoLife == [no |-> 0, state |-> "none", action |-> "none", eligible |-> FALSE, lease |-> FALSE,
           generation |-> 0, released |-> FALSE, removed |-> FALSE]

ErasureTypeOK ==
  /\ fence \in [inode : Nat, held : BOOLEAN]
  /\ actor \in [Actors -> [step : WriterSteps \cup AdminSteps \cup EraserSteps, inode : Nat,
                           mode : {"none", "sh", "ex"}, registry : {"none", "sh", "ex"},
                           request : Nat, generation : Nat,
                           wish : {"none", "deactivate", "delete", "reactivate"},
                           existed : BOOLEAN]]
  /\ account \in {"active", "deletion_pending", "gone"}
  /\ life \in [no : Nat, state : LifeStates, action : {"none", "deactivate", "delete"}, eligible : BOOLEAN,
               lease : BOOLEAN, generation : Nat, released : BOOLEAN, removed : BOOLEAN]
  /\ files \in BOOLEAN
  /\ remote \in [{"object", "auth"} -> [there : BOOLEAN, state : {"pending", "intent", "verified"}]]
  /\ boundary \in [allocated : Nat, committed : Nat, floor : Nat]
  /\ snapshot \in [step : {"none", "before", "archived", "sealed"}, epoch : Nat, data : BOOLEAN]
  /\ spent \in [failures : 0 .. MaxFailures, actions : 0 .. MaxActions, died : BOOLEAN]

ErasureInit ==
  /\ fence = [inode |-> 0, held |-> FALSE]
  /\ actor = [a \in Actors |-> Idle]
  /\ account = "active"
  /\ life = NoLife
  /\ files = FALSE
  /\ remote = [r \in {"object", "auth"} |-> [there |-> TRUE, state |-> "pending"]]
  /\ boundary = [allocated |-> 0, committed |-> 0, floor |-> 0]
  /\ snapshot = [step |-> "none", epoch |-> 0, data |-> FALSE]
  /\ spent = [failures |-> 0, actions |-> 0, died |-> FALSE]

inDatabase == <<account, life, remote, boundary>>

At(a, step) == actor[a].step = step
Goes(a, step) == actor' = [actor EXCEPT ![a].step = step]
Leaves(a) == actor' = [actor EXCEPT ![a] = Idle]
Fails == spent.failures < MaxFailures /\ spent' = [spent EXCEPT !.failures = @ + 1]
\* Leaves the locks and ends the claim.
Drops(a, step) == actor' = [actor EXCEPT ![a] = [Idle EXCEPT !.step = step,
                                                  !.request = actor[a].request,
                                                  !.generation = actor[a].generation]]

----------------------------------------------------------------------------
(* account_lock: the registry shared, the lock file, then its lock.        *)

Exclusive(a) == a \notin Writers

\* Mutant of RegistryFree: the file locks of the registry are not looked at.
RegistryIgnored(a, mode) == TRUE

RegistryFree(a, mode) ==
  \A b \in Actors \ {a} : actor[b].registry # "ex" /\ (mode = "ex" => actor[b].registry = "none")

\* Mutant of RegistrationAllowed: a lock file may be made for any account.
RegistrationAnyone == TRUE

\* account_fence_registration167, asked when there is no lock file.
RegistrationAllowed == fence.inode # 0 \/ account # "gone"

LockFree(a) ==
  \A b \in Actors \ {a} :
    actor[b].inode = actor[a].inode => actor[b].mode = "none" \/ (~Exclusive(a) /\ actor[b].mode = "sh")

EnterRegistry(a) ==
  /\ At(a, "enter") /\ RegistryFree(a, "sh")
  /\ actor' = [actor EXCEPT ![a].step = "open", ![a].registry = "sh"]
  /\ UNCHANGED <<fence, inDatabase, files, snapshot, spent>>

\* The inode of a lock file that is made now: no process has it open.
NewInode ==
  CHOOSE i \in 1 .. Cardinality(Actors) + 1 : \A a \in Actors : actor[a].inode # i

OpenLock(a) ==
  /\ At(a, "open") /\ RegistrationAllowed
  /\ fence' = [fence EXCEPT !.inode = IF @ = 0 THEN NewInode ELSE @]
  /\ actor' = [actor EXCEPT ![a].step = "flock", ![a].inode = fence'.inode]
  /\ UNCHANGED <<inDatabase, files, snapshot, spent>>

Admitted(a) == LockFree(a) /\ (Exclusive(a) \/ ~fence.held)

\* Leaving the inner block closes the registry; the account lock stays.
TakeLock(a) ==
  /\ At(a, "flock") /\ Admitted(a)
  /\ actor' = [actor EXCEPT
       ![a].registry = "none", ![a].mode = IF Exclusive(a) THEN "ex" ELSE "sh",
       ![a].step = IF a \in Writers THEN "work"
                   ELSE IF actor[a].wish = "reactivate" THEN "reactivate" ELSE "hold",
       ![a].existed = fence.held]
  /\ UNCHANGED <<fence, inDatabase, files, snapshot, spent>>

\* No lock waits: AccountWorkBusy, or 409 for a held account. An eraser retries its claim.
Refused(a) ==
  /\ \/ At(a, "enter") /\ ~RegistryFree(a, "sh")
     \/ At(a, "open") /\ ~RegistrationAllowed
     \/ At(a, "flock") /\ ~Admitted(a)
  /\ IF a \in Erasers THEN Drops(a, "retry") ELSE Leaves(a)
  /\ UNCHANGED <<fence, inDatabase, files, snapshot, spent>>

----------------------------------------------------------------------------
(* Requests and jobs of the account.                                       *)

BeginWork(w) ==
  /\ At(w, "idle") /\ Goes(w, "enter")
  /\ UNCHANGED <<fence, inDatabase, files, snapshot, spent>>

\* account_file_work does not look at the account again once it is locked.
WriteFile(w) ==
  /\ At(w, "work")
  /\ files' = TRUE
  /\ UNCHANGED <<fence, actor, inDatabase, snapshot, spent>>

EndWork(w) ==
  /\ At(w, "work") /\ Leaves(w)
  /\ UNCHANGED <<fence, inDatabase, files, snapshot, spent>>

----------------------------------------------------------------------------
(* The administrator: enroll_authorized, reactivate, resume.               *)

ActiveLife == life.state \notin {"none", "reactivated", "completed"}

BeginAction(wish) ==
  /\ At("admin", "idle") /\ spent.actions < MaxActions
  /\ IF wish = "reactivate" THEN life.state # "none" /\ account # "gone" ELSE account # "gone"
  /\ spent' = [spent EXCEPT !.actions = @ + 1]
  /\ actor' = [actor EXCEPT !["admin"].step = "enter", !["admin"].wish = wish]
  /\ UNCHANGED <<fence, inDatabase, files, snapshot>>

PublishEnrolling ==
  /\ At("admin", "hold")
  /\ fence' = [fence EXCEPT !.held = TRUE]
  /\ Goes("admin", "create")
  /\ UNCHANGED <<inDatabase, files, snapshot, spent>>

\* create_account_action167: a new lifecycle, or the escalation of a deactivation.
CreatedLife(wish) ==
  IF ~ActiveLife
  THEN [NoLife EXCEPT !.no = life.no + 1,
                      !.state = IF wish = "delete" THEN "erasure_pending" ELSE "recovery_pending",
                      !.action = wish, !.eligible = wish = "delete"]
  ELSE IF wish = "delete" /\ life.action = "deactivate"
  THEN [life EXCEPT !.action = "delete", !.eligible = TRUE,
                    !.state = IF @ = "processing" THEN @ ELSE "erasure_pending",
                    !.lease = @ /\ life.state = "processing"]
  ELSE life

\* The call succeeds; or it fails, and the marker that was published for it is removed,
\* also when the transaction was committed and only its answer was lost.
CreateAction ==
  LET wish == actor["admin"].wish
      refused == account = "gone" \/ (ActiveLife /\ life.action = "delete" /\ wish = "deactivate")
      unheld == [fence EXCEPT !.held = actor["admin"].existed]
  IN
  /\ At("admin", "create")
  /\ \/ /\ ~refused
        /\ life' = CreatedLife(wish)
        /\ account' = "deletion_pending"
        /\ \/ Goes("admin", "receipt") /\ UNCHANGED fence
           \/ Leaves("admin") /\ fence' = unheld
     \/ /\ Leaves("admin") /\ fence' = unheld
        /\ UNCHANGED <<life, account>>
  /\ UNCHANGED <<remote, boundary, files, snapshot, spent>>

PublishReceipt ==
  /\ At("admin", "receipt")
  /\ fence' = [fence EXCEPT !.held = TRUE]
  /\ Leaves("admin")
  /\ UNCHANGED <<inDatabase, files, snapshot, spent>>

\* reactivate_account167; the row, once reactivated, is answered again.
ReactivateAccount ==
  /\ At("admin", "reactivate")
  /\ IF life.action = "deactivate" /\ ~life.eligible /\ ~life.released
        /\ life.state \in {"recovery_pending", "blocked", "retry_pending", "reactivated"}
     THEN /\ life' = [life EXCEPT !.state = "reactivated", !.lease = FALSE]
          /\ account' = "active"
          /\ Goes("admin", "release")
     ELSE Leaves("admin") /\ UNCHANGED <<life, account>>
  /\ UNCHANGED <<fence, remote, boundary, files, snapshot, spent>>

ReleaseHold ==
  /\ At("admin", "release")
  /\ fence' = [fence EXCEPT !.held = FALSE]
  /\ Leaves("admin")
  /\ UNCHANGED <<inDatabase, files, snapshot, spent>>

\* resume_account_erasure167, and the operator who removed what was uncertain.
Resume ==
  /\ life.state = "blocked" /\ spent.actions < MaxActions
  /\ life' = [life EXCEPT !.state = "erasure_pending"]
  /\ \E clear \in BOOLEAN :
       remote' = [r \in DOMAIN remote |-> IF clear /\ remote[r].state = "intent"
                                          THEN [remote[r] EXCEPT !.there = FALSE] ELSE remote[r]]
  /\ spent' = [spent EXCEPT !.actions = @ + 1]
  /\ UNCHANGED <<fence, actor, account, boundary, files, snapshot>>

DeadlinePasses ==
  /\ ActiveLife /\ ~life.eligible
  /\ life' = [life EXCEPT !.eligible = TRUE]
  /\ UNCHANGED <<fence, actor, account, remote, boundary, files, snapshot, spent>>

----------------------------------------------------------------------------
(* process_claim.                                                          *)

\* Mutant of ClaimableErasure: what another worker left behind is not taken up again.
ClaimableUnbegun ==
  life.eligible /\ life.state \in {"recovery_pending", "erasure_pending", "retry_pending"}

ClaimableErasure ==
  /\ life.eligible
  /\ \/ life.state \in {"recovery_pending", "erasure_pending", "retry_pending"}
     \/ life.state = "processing" /\ ~life.lease

ClaimErasure(e) ==
  /\ At(e, "idle") /\ ClaimableErasure
  /\ life' = [life EXCEPT !.state = "processing", !.lease = TRUE, !.generation = @ + 1]
  /\ actor' = [actor EXCEPT ![e].step = "enter", ![e].request = life.no,
                              ![e].generation = life.generation + 1]
  /\ UNCHANGED <<fence, account, remote, boundary, files, snapshot, spent>>

\* owned_account_erasure167: otherwise account_erasure_claim_lost is raised.
Owned(e) ==
  /\ life.state = "processing" /\ life.lease
  /\ life.no = actor[e].request /\ life.generation = actor[e].generation

\* A database call that is refused, or fails otherwise, ends the worker's pass; its
\* locks are closed. Within the finish the hold is restored before.
CallLost(e) ==
  /\ actor[e].step \in {"inventory", "object", "objectGone", "subject", "auth", "authGone",
                         "retry", "block"}
  /\ Leaves(e)
  /\ IF Owned(e) THEN Fails ELSE UNCHANGED spent
  /\ UNCHANGED <<fence, inDatabase, files, snapshot>>

\* LifecycleRetry: the provider cannot be asked what is there.
ProviderUnavailable(e) ==
  /\ actor[e].step \in {"object", "scan", "auth"}
  /\ Drops(e, "retry") /\ Fails
  /\ UNCHANGED <<fence, inDatabase, files, snapshot>>

PublishHold(e) ==
  /\ At(e, "hold")
  /\ fence' = [fence EXCEPT !.held = TRUE]
  /\ Goes(e, "inventory")
  /\ UNCHANGED <<inDatabase, files, snapshot, spent>>

\* inventory_account_erasure167, the scan, register_account_file167 and
\* release_account_database167; shared ownership and unknown resources block before.
Inventory(e) ==
  /\ At(e, "inventory") /\ Owned(e)
  /\ \/ life.released /\ Goes(e, "unlink") /\ UNCHANGED life
     \/ /\ ~life.released
        /\ \/ life' = [life EXCEPT !.released = TRUE] /\ Goes(e, "unlink")
           \/ Drops(e, "block") /\ UNCHANGED life
  /\ UNCHANGED <<fence, account, remote, boundary, files, snapshot, spent>>

UnlinkFiles(e) ==
  /\ At(e, "unlink")
  /\ files' = FALSE
  /\ Goes(e, "object")
  /\ UNCHANGED <<fence, inDatabase, snapshot, spent>>

\* What is still there after an intent was recorded is uncertain, and blocks.
Intend(e, r, sent, gone) ==
  /\ At(e, r) /\ Owned(e)
  /\ IF remote[r].there /\ remote[r].state = "intent"
     THEN Drops(e, "block") /\ UNCHANGED remote
     ELSE IF remote[r].there
     THEN Goes(e, sent) /\ remote' = [remote EXCEPT ![r].state = "intent"]
     ELSE Goes(e, gone) /\ UNCHANGED remote
  /\ UNCHANGED <<fence, account, life, boundary, files, snapshot, spent>>

\* The provider removes it, whatever answer arrives; or it does not; or nobody can tell.
RemoveRemote(e, r, sent, gone) ==
  /\ At(e, sent)
  /\ \/ remote' = [remote EXCEPT ![r].there = FALSE] /\ Goes(e, gone) /\ UNCHANGED spent
     \/ UNCHANGED remote /\ Drops(e, "block") /\ UNCHANGED spent
     \/ \E there \in {FALSE, remote[r].there} : remote' = [remote EXCEPT ![r].there = there] /\ Drops(e, "retry") /\ Fails
  /\ UNCHANGED <<fence, account, life, boundary, files, snapshot>>

VerifyRemote(e, r, gone, next) ==
  /\ At(e, gone) /\ Owned(e)
  /\ remote' = [remote EXCEPT ![r].state = "verified"]
  /\ Goes(e, next)
  /\ UNCHANGED <<fence, account, life, boundary, files, snapshot, spent>>

\* The second traversal and the second observation of the provider.
Scan(e) ==
  /\ At(e, "scan")
  /\ IF files \/ remote["object"].there THEN Drops(e, "block") ELSE Goes(e, "subject")
  /\ UNCHANGED <<fence, inDatabase, files, snapshot, spent>>

\* remove_account_subject167.
RemoveSubject(e) ==
  /\ At(e, "subject") /\ Owned(e) /\ remote["object"].state = "verified"
  /\ life' = [life EXCEPT !.removed = TRUE]
  /\ account' = "gone"
  /\ Goes(e, "auth")
  /\ UNCHANGED <<fence, remote, boundary, files, snapshot, spent>>

Erase(e) ==
  \/ PublishHold(e) \/ Inventory(e) \/ UnlinkFiles(e)
  \/ Intend(e, "object", "objectSent", "objectGone")
  \/ RemoveRemote(e, "object", "objectSent", "objectGone")
  \/ VerifyRemote(e, "object", "objectGone", "scan")
  \/ Scan(e) \/ RemoveSubject(e)
  \/ Intend(e, "auth", "authSent", "authGone")
  \/ RemoveRemote(e, "auth", "authSent", "authGone")
  \/ VerifyRemote(e, "auth", "authGone", "finish")

----------------------------------------------------------------------------
(* finish_account_fence with _complete_claim.                              *)

\* The registry exclusively, then the marker and the lock file are unlinked.
RetireFence(e) ==
  /\ At(e, "finish")
  /\ IF RegistryFree(e, "ex")
     THEN /\ fence' = [fence EXCEPT !.inode = 0, !.held = FALSE]
          /\ actor' = [actor EXCEPT ![e].step = "reserve", ![e].registry = "ex"]
     ELSE Drops(e, "retry") /\ UNCHANGED fence
  /\ UNCHANGED <<inDatabase, files, snapshot, spent>>

\* Mutant of ReserveEpoch: the epoch of the last erasure is used again.
ReserveEpochAgain(e) ==
  /\ At(e, "reserve") /\ Owned(e) /\ life.removed
  /\ Goes(e, "floor")
  /\ UNCHANGED <<fence, inDatabase, files, snapshot, spent>>

ReserveEpoch(e) ==
  /\ At(e, "reserve")
  /\ \/ /\ Owned(e) /\ life.removed
        /\ boundary' = [boundary EXCEPT !.allocated = @ + 1]
        /\ Goes(e, "floor")
        /\ UNCHANGED spent
     \/ /\ Goes(e, "restore") /\ UNCHANGED boundary
        /\ IF Owned(e) THEN Fails ELSE UNCHANGED spent
  /\ UNCHANGED <<fence, account, life, remote, files, snapshot>>

\* The reserved epoch cannot change under the registry: the lifecycle row keeps it.
PublishFloor(e) ==
  /\ At(e, "floor")
  /\ \/ /\ boundary' = [boundary EXCEPT !.floor = boundary.allocated]
        /\ Goes(e, "complete") /\ UNCHANGED spent
     \/ Goes(e, "restore") /\ UNCHANGED boundary /\ Fails
  /\ UNCHANGED <<fence, account, life, remote, files, snapshot>>

\* complete_account_erasure167. A lost answer is settled by looking for the rows, and
\* that may fail as well.
Complete(e) ==
  /\ At(e, "complete")
  /\ \/ /\ Owned(e)
        /\ life.removed /\ \A r \in DOMAIN remote : remote[r] = [there |-> FALSE, state |-> "verified"]
        /\ life' = [NoLife EXCEPT !.no = life.no, !.state = "completed"]
        /\ boundary' = [boundary EXCEPT !.committed = boundary.allocated]
        /\ (Leaves(e) /\ UNCHANGED spent) \/ (Goes(e, "restore") /\ Fails)
     \/ /\ Goes(e, "restore") /\ UNCHANGED <<life, boundary>>
        /\ IF Owned(e) THEN Fails ELSE UNCHANGED spent
  /\ UNCHANGED <<fence, account, remote, files, snapshot>>

\* Mutant of RestoredFence: the marker is not published again.
RestoredLockOnly == [fence EXCEPT !.inode = NewInode]

RestoredFence == [inode |-> NewInode, held |-> TRUE]

RestoreHold(e) ==
  /\ At(e, "restore")
  /\ fence' = RestoredFence
  /\ Leaves(e)
  /\ UNCHANGED <<inDatabase, files, snapshot, spent>>

\* account_erasure_transition167: a retry up to a number of generations, else blocked.
EndClaim(e) ==
  /\ actor[e].step \in {"retry", "block"} /\ Owned(e)
  /\ life' = [life EXCEPT !.lease = FALSE,
                          !.state = IF At(e, "retry") /\ life.generation < MaxRetry
                                    THEN "retry_pending" ELSE "blocked"]
  /\ Leaves(e)
  /\ UNCHANGED <<fence, account, remote, boundary, files, snapshot, spent>>

Finish(e) ==
  RetireFence(e) \/ ReserveEpoch(e) \/ PublishFloor(e) \/ Complete(e) \/ RestoreHold(e) \/ EndClaim(e)

----------------------------------------------------------------------------
(* account_restore_boundary.py: an archive between two captured boundaries. *)

ErasureInProgress == ActiveLife /\ life.released

\* capture_boundary.
Capturable == ~ErasureInProgress /\ boundary.committed = boundary.floor

CaptureBefore ==
  /\ snapshot.step = "none" /\ Capturable
  /\ snapshot' = [snapshot EXCEPT !.step = "before", !.epoch = boundary.floor]
  /\ UNCHANGED <<fence, actor, inDatabase, files, spent>>

TakeArchive ==
  /\ snapshot.step = "before"
  /\ snapshot' = [snapshot EXCEPT !.step = "archived", !.data = account # "gone" \/ files]
  /\ UNCHANGED <<fence, actor, inDatabase, files, spent>>

Sealable == Capturable /\ boundary.floor = snapshot.epoch

\* seal_snapshot with the boundary captured again.
Seal ==
  /\ snapshot.step = "archived" /\ Sealable
  /\ snapshot' = [snapshot EXCEPT !.step = "sealed"]
  /\ UNCHANGED <<fence, actor, inDatabase, files, spent>>

\* verify_restore.
RestoreVerified == snapshot.step = "sealed" /\ Capturable /\ snapshot.epoch = boundary.floor

----------------------------------------------------------------------------
(* Failures and the specification.                                         *)

Dies(a) ==
  /\ actor[a].step # "idle" /\ spent.failures < MaxFailures
  /\ spent' = [spent EXCEPT !.failures = @ + 1, !.died = TRUE]
  /\ Leaves(a)
  /\ UNCHANGED <<fence, inDatabase, files, snapshot>>

LeaseRunsOut ==
  /\ life.state = "processing" /\ life.lease
  /\ life' = [life EXCEPT !.lease = FALSE]
  /\ IF \E e \in Erasers : Owned(e) /\ actor[e].step # "idle" THEN Fails ELSE UNCHANGED spent
  /\ UNCHANGED <<fence, actor, account, remote, boundary, files, snapshot>>

AccountLock(a) == EnterRegistry(a) \/ OpenLock(a) \/ TakeLock(a) \/ Refused(a)
Act == PublishEnrolling \/ CreateAction \/ PublishReceipt \/ ReactivateAccount \/ ReleaseHold
EraserStep(e) == ClaimErasure(e) \/ AccountLock(e) \/ Erase(e) \/ Finish(e)
                 \/ CallLost(e) \/ ProviderUnavailable(e)

ErasureNext ==
  \/ \E w \in Writers : BeginWork(w) \/ AccountLock(w) \/ WriteFile(w) \/ EndWork(w)
  \/ \E wish \in {"deactivate", "delete", "reactivate"} : BeginAction(wish)
  \/ AccountLock("admin") \/ Act \/ Resume \/ DeadlinePasses
  \/ \E e \in Erasers : EraserStep(e)
  \/ CaptureBefore \/ TakeArchive \/ Seal
  \/ LeaseRunsOut
  \/ \E a \in Actors : Dies(a)

ErasureSpec == ErasureInit /\ [][ErasureNext]_erasureVars

\* Workers poll and go on; administrators and requests end what they began; leases end.
ErasureFairness ==
  /\ \A e \in Erasers : WF_erasureVars(EraserStep(e))
  /\ \A w \in Writers : WF_erasureVars(AccountLock(w) \/ EndWork(w))
  /\ WF_erasureVars(AccountLock("admin") \/ Act)
  /\ WF_erasureVars(LeaseRunsOut)

FairErasureSpec == ErasureSpec /\ ErasureFairness

----------------------------------------------------------------------------
(* The abstract fence.                                                     *)

\* What account_lock and the hold marker amount to.
Fence == INSTANCE WorkFence WITH
  Workers <- Writers,
  Managers <- Erasers \cup {"admin"},
  holder <- [a \in Actors |-> actor[a].mode],
  shut <- fence.held,
  closed <- account = "gone",
  data <- files

----------------------------------------------------------------------------
(* Properties.                                                             *)

\* After the erasure is completed nothing of the account is left and nothing comes back,
\* whatever work was waiting at the fence (finish_account_fence).
NothingResurrected ==
  life.state = "completed" => ~files /\ account = "gone" /\ \A r \in DOMAIN remote : ~remote[r].there

Working(w) == At(w, "work")
Alone(a) == actor[a].mode = "ex"

\* Work of the account and an exclusive action never overlap, also across lock files that
\* were unlinked and made again (account_lock).
WorkExcluded == \A w \in Writers, a \in Actors : Working(w) => ~Alone(a)

\* The lock files, the marker and the users row together implement the abstract fence:
\* no work starts while the account is held, nor ever once its users row is gone, and
\* only an eraser that is alone with an empty account removes that row (account_lock,
\* account_fence_registration167, process_claim).
FenceKept == Fence!Spec

\* A snapshot that holds data of the account is never admitted for a restore once the
\* erasure is completed (capture_boundary, seal_snapshot, verify_restore).
ErasedStaysErased == RestoreVerified /\ life.state = "completed" => ~snapshot.data

\* A claimed erasure ends: completed, or blocked for an operator.
ErasureSettles == life.state = "processing" ~> life.state \in {"completed", "blocked"}

\* Once the subject is removed, the account is held whenever the registry is open, until
\* the erasure is completed, whatever of the finish fails or is refused; only a process
\* that dies inside the finish leaves it open (finish_account_fence).
HoldRestored ==
  /\ ~spent.died /\ life.removed
  /\ \A a \in Actors : actor[a].registry # "ex"
  => fence.held
=============================================================================
