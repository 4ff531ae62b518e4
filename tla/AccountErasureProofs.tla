------------------------ MODULE AccountErasureProofs ------------------------
(***************************************************************************)
(* Proofs about AccountErasure, for any finite numbers of writers and      *)
(* erasers and any number of failures and actions of the administrator.    *)
(*                                                                         *)
(* The argument has two halves.  Locked: the lock file, unlinked and made  *)
(* again, still separates an exclusive holder from everybody else.  What   *)
(* the holder has done so far is then known at each of its steps (Fit),    *)
(* since nobody else can undo it, and what the rows say follows (Lasting). *)
(* At the end, the locks and the rows implement WorkFence.                 *)
(***************************************************************************)
EXTENDS AccountErasure, FiniteSetTheorems, TLAPS

LEMMA ErasureConstants ==
  /\ MaxRetry \in Nat /\ MaxFailures \in Nat /\ MaxActions \in Nat
  /\ IsFiniteSet(Writers) /\ IsFiniteSet(Erasers)
  /\ "admin" \notin Writers \cup Erasers /\ Writers \cap Erasers = {}
BY ErasureAssumption

LEMMA FinitelyManyActors == IsFiniteSet(Actors) /\ Cardinality(Actors) \in Nat \ {0}
<1>1. IsFiniteSet({"admin"})
  BY FS_Singleton
<1>2. IsFiniteSet(Actors)
  BY <1>1, ErasureConstants, FS_Union DEF Actors
<1>3. Actors # {}
  BY DEF Actors
<1> QED
  BY <1>2, <1>3, FS_CardinalityType, FS_EmptySet

----------------------------------------------------------------------------
(* The invariant.                                                          *)

Steps == WriterSteps \cup AdminSteps \cup EraserSteps

Row == [step : Steps, inode : Nat, mode : {"none", "sh", "ex"}, registry : {"none", "sh", "ex"},
        request : Nat, generation : Nat, wish : {"none", "deactivate", "delete", "reactivate"},
        existed : BOOLEAN]
Life == [no : Nat, state : LifeStates, action : {"none", "deactivate", "delete"},
         eligible : BOOLEAN, lease : BOOLEAN, generation : Nat, released : BOOLEAN,
         removed : BOOLEAN]
Remote == [{"object", "auth"} -> [there : BOOLEAN, state : {"pending", "intent", "verified"}]]
Boundary == [allocated : Nat, committed : Nat, floor : Nat]
Snapshot == [step : {"none", "before", "archived", "sealed"}, epoch : Nat, data : BOOLEAN]
Spent == [failures : 0 .. MaxFailures, actions : 0 .. MaxActions, died : BOOLEAN]

Typed ==
  /\ fence \in [inode : Nat, held : BOOLEAN] /\ actor \in [Actors -> Row]
  /\ account \in {"active", "deletion_pending", "gone"} /\ life \in Life
  /\ files \in BOOLEAN /\ remote \in Remote /\ boundary \in Boundary
  /\ snapshot \in Snapshot /\ spent \in Spent

LEMMA TypedIsTypeOK == Typed <=> ErasureTypeOK
BY Zenon DEF Typed, ErasureTypeOK, Steps, Row, Life, Remote, Boundary, Snapshot, Spent

\* The steps by what is locked at them.
Outside == {"idle", "enter", "retry", "block"}
Unlocked == Outside \cup {"open", "flock"}
Finishing == {"reserve", "floor", "complete", "restore"}
Inside == {"hold", "create", "receipt", "reactivate", "release", "inventory", "unlink", "object",
           "objectSent", "objectGone", "scan", "subject", "auth", "authSent", "authGone", "finish"}

Holds(r) ==
  /\ r.step \in Outside => r.inode = 0 /\ r.mode = "none" /\ r.registry = "none"
  /\ r.step = "open" => r.inode = 0 /\ r.mode = "none" /\ r.registry = "sh"
  /\ r.step = "flock" => r.inode # 0 /\ r.mode = "none" /\ r.registry = "sh"
  /\ r.step = "work" => r.inode # 0 /\ r.mode = "sh" /\ r.registry = "none"
  /\ r.step \in Inside => r.inode # 0 /\ r.mode = "ex" /\ r.registry = "none"
  /\ r.step \in Finishing => r.inode # 0 /\ r.mode = "ex" /\ r.registry = "ex"

\* Whoever has a lock file open, and does not hold the registry exclusively, has the
\* present one; who holds the registry has unlinked it and is alone; locks exclude.
Locked ==
  /\ \A a \in Actors : Holds(actor[a])
  /\ \A a \in Actors : actor[a].registry # "ex" => actor[a].inode \in {0, fence.inode}
  /\ \A a \in Actors : actor[a].registry = "ex" => fence.inode = 0
  /\ \A a, b \in Actors : a # b /\ actor[a].registry = "ex"
                            => actor[b].inode = 0 /\ actor[b].registry = "none"
  /\ \A a, b \in Actors : a # b /\ actor[a].mode = "ex" => actor[b].mode = "none"

\* What the erasure has done when it gets to a step.
Gone == {"auth", "authSent", "authGone", "finish", "reserve", "floor", "complete"}
Cleaned == {"object", "objectSent", "objectGone", "scan", "subject"} \cup Gone
Released == {"unlink"} \cup Cleaned
Marked == {"inventory", "unlink", "object", "objectSent", "objectGone", "scan", "subject", "auth",
           "authSent", "authGone", "finish"}

Fit(a) ==
  /\ actor[a].step \in Released => life.released
  /\ actor[a].step \in Cleaned => ~files
  /\ actor[a].step \in Gone => life.removed
  /\ actor[a].step \in Marked => fence.held
  /\ actor[a].step \in {"work", "release"} => account # "gone"
  /\ actor[a].step \in {"hold", "create"} => actor[a].wish # "reactivate"
  /\ a = "admin" /\ actor[a].step \in {"hold", "create"} /\ account = "gone" => actor[a].existed
  /\ actor[a].step \in {"floor", "complete"} /\ snapshot.step # "none"
       => snapshot.epoch < boundary.allocated
  /\ actor[a].step = "complete" => boundary.floor = boundary.allocated

\* The rows, the marker and the archive.
Lasting ==
  /\ life.removed => life.released /\ account = "gone"
  /\ account = "gone" => life.released \/ life.state = "completed"
  /\ life.released => ActiveLife
  /\ life.state = "completed" => ~files /\ account = "gone" /\ \A r \in DOMAIN remote : ~remote[r].there
  /\ account = "gone" /\ fence.inode # 0 => fence.held
  /\ ~spent.died /\ life.removed /\ fence.inode = 0 => \E a \in Actors : actor[a].registry = "ex"
  /\ boundary.floor <= boundary.allocated
  /\ snapshot.step # "none" => snapshot.epoch <= boundary.allocated
  /\ life.state = "completed" /\ snapshot.step \in {"archived", "sealed"} /\ snapshot.data
       => snapshot.epoch < boundary.floor

ErasureInv == Typed /\ Locked /\ (\A a \in Actors : Fit(a)) /\ Lasting

----------------------------------------------------------------------------
(* The locks.                                                              *)

Move(a) == actor' = [actor EXCEPT ![a] = actor'[a]] /\ actor'[a] \in Row
SameLocks(r, q) == q.inode = r.inode /\ q.mode = r.mode /\ q.registry = r.registry
NoLocks(r) == r.inode = 0 /\ r.mode = "none" /\ r.registry = "none"

LEMMA OthersStay ==
  ASSUME Typed, NEW a \in Actors, Move(a)
  PROVE  /\ \A b \in Actors : b # a => actor'[b] = actor[b]
         /\ actor' \in [Actors -> Row]
BY DEF Typed, Move

\* A process gets another record.
LEMMA RowMoves ==
  ASSUME Typed, NEW a \in Actors, NEW row \in Row, actor' = [actor EXCEPT ![a] = row]
  PROVE  Move(a) /\ actor'[a] = row
BY DEF Typed, Move

LEMMA KeepsLocked ==
  ASSUME Typed, Locked, NEW a \in Actors, Move(a), Holds(actor'[a]),
         SameLocks(actor[a], actor'[a]), fence'.inode = fence.inode
  PROVE  Locked'
BY OthersStay DEF Locked, SameLocks

LEMMA LeavesLocked ==
  ASSUME Typed, Locked, NEW a \in Actors, Move(a), Holds(actor'[a]),
         NoLocks(actor'[a]), fence'.inode = fence.inode
  PROVE  Locked'
BY OthersStay DEF Locked, NoLocks

LEMMA EntersLocked ==
  ASSUME Typed, Locked, NEW a \in Actors, Move(a), Holds(actor'[a]),
         actor'[a].inode = 0, actor'[a].mode = "none", actor'[a].registry = "sh",
         RegistryFree(a, "sh"), fence'.inode = fence.inode
  PROVE  Locked'
<1>1. \A b \in Actors : b # a => actor[b].registry # "ex"
  BY DEF RegistryFree
<1> QED
  BY <1>1, OthersStay DEF Locked

LEMMA OpensLocked ==
  ASSUME Typed, Locked, NEW a \in Actors, Move(a), Holds(actor'[a]),
         actor[a].registry = "sh", actor[a].mode = "none",
         actor'[a].inode = fence'.inode, actor'[a].mode = "none", actor'[a].registry = "sh",
         fence.inode = 0 \/ fence'.inode = fence.inode
  PROVE  Locked'
<1>1. \A b \in Actors : b # a => actor[b].registry # "ex"
  BY DEF Locked
<1>2. \A b \in Actors : b # a => actor[b].inode \in {0, fence'.inode}
  BY <1>1 DEF Locked
<1> QED
  BY <1>1, <1>2, OthersStay DEF Locked

LEMMA TakesLocked ==
  ASSUME Typed, Locked, NEW a \in Actors, Move(a), Holds(actor'[a]),
         actor[a].registry = "sh", actor[a].inode # 0, actor'[a].inode = actor[a].inode,
         actor'[a].registry = "none", fence'.inode = fence.inode,
         actor'[a].mode = IF Exclusive(a) THEN "ex" ELSE "sh", LockFree(a)
  PROVE  Locked'
<1>1. \A b \in Actors : b # a => actor[b].registry # "ex"
  BY DEF Locked
<1>2. \A b \in Actors : b # a /\ actor[b].mode # "none" => actor[b].inode = actor[a].inode
  <2> SUFFICES ASSUME NEW b \in Actors, b # a, actor[b].mode # "none"
               PROVE  actor[b].inode = actor[a].inode
    OBVIOUS
  <2>1. actor[b].inode # 0
    BY DEF Locked, Holds, Typed, Row, Steps, WriterSteps, AdminSteps, EraserSteps, Outside, Inside,
           Finishing
  <2> QED
    BY <1>1, <2>1 DEF Locked
<1>3. \A b \in Actors : b # a => actor[b].mode = "none" \/ (~Exclusive(a) /\ actor[b].mode = "sh")
  BY <1>2 DEF LockFree
<1> QED
  BY <1>1, <1>3, OthersStay DEF Locked

LEMMA RetiresLocked ==
  ASSUME Typed, Locked, NEW a \in Actors, Move(a), Holds(actor'[a]),
         actor[a].mode = "ex", actor[a].registry = "none",
         actor'[a].inode = actor[a].inode, actor'[a].mode = "ex", actor'[a].registry = "ex",
         RegistryFree(a, "ex"), fence'.inode = 0
  PROVE  Locked'
<1>1. \A b \in Actors : b # a => actor[b].registry = "none" /\ actor[b].mode = "none"
  BY DEF RegistryFree, Locked
<1>2. \A b \in Actors : b # a => actor[b].inode = 0
  BY <1>1 DEF Locked, Holds, Typed, Row, Steps, WriterSteps, AdminSteps, EraserSteps, Outside,
              Inside, Finishing
<1> QED
  BY <1>1, <1>2, OthersStay DEF Locked

LEMMA RestoresLocked ==
  ASSUME Typed, Locked, NEW a \in Actors, Move(a), Holds(actor'[a]),
         actor[a].registry = "ex", NoLocks(actor'[a])
  PROVE  Locked'
<1>1. \A b \in Actors : b # a => actor[b].registry = "none" /\ actor[b].mode = "none" /\ actor[b].inode = 0
  BY DEF Locked, Holds, Typed, Row, Steps, WriterSteps, AdminSteps, EraserSteps, Outside,
         Inside, Finishing
<1> QED
  BY <1>1, OthersStay DEF Locked, NoLocks

\* While one holds the lock exclusively, the others are nowhere.
LEMMA HolderAlone ==
  ASSUME Typed, Locked, NEW a \in Actors, actor[a].mode = "ex", NEW b \in Actors, b # a
  PROVE  actor[b].step \in Unlocked
BY DEF Locked, Holds, Typed, Row, Steps, WriterSteps, AdminSteps, EraserSteps, Outside, Inside,
       Finishing, Unlocked

\* While one works on the account, none holds the lock exclusively.
LEMMA WorkerNotAlone ==
  ASSUME Typed, Locked, NEW a \in Actors, actor[a].step = "work", NEW b \in Actors
  PROVE  actor[b].step \in Unlocked \cup {"work"}
BY DEF Locked, Holds, Typed, Row, Steps, WriterSteps, AdminSteps, EraserSteps, Outside, Inside,
       Finishing, Unlocked

\* A lock file that is made while one process at most has one open is new to all of them.
LEMMA FreshInode ==
  ASSUME NEW a \in Actors, \A b \in Actors : b # a => actor[b].inode = 0
  PROVE  NewInode \in Nat \ {0}
<1>1. Cardinality(Actors) + 1 \in Nat /\ Cardinality(Actors) + 1 >= 2
  BY FinitelyManyActors
<1>2. 1 \in 1 .. Cardinality(Actors) + 1 /\ 2 \in 1 .. Cardinality(Actors) + 1
  BY <1>1
<1>3. PICK i \in {1, 2} : actor[a].inode # i
  OBVIOUS
<1>4. \A b \in Actors : actor[b].inode # i
  BY <1>3
<1>5. \E j \in 1 .. Cardinality(Actors) + 1 : \A b \in Actors : actor[b].inode # j
  BY <1>2, <1>3, <1>4
<1>6. NewInode \in 1 .. Cardinality(Actors) + 1
  BY <1>5 DEF NewInode
<1> QED
  BY <1>1, <1>6

----------------------------------------------------------------------------
(* Steps of one process.                                                   *)

LEMMA GoesIs ==
  ASSUME Typed, NEW a \in Actors, NEW step \in Steps, Goes(a, step)
  PROVE  /\ Move(a) /\ actor'[a].step = step /\ SameLocks(actor[a], actor'[a])
         /\ actor'[a].existed = actor[a].existed /\ actor'[a].wish = actor[a].wish
BY DEF Typed, Goes, Move, SameLocks, Row

LEMMA IdleIsRow == Idle \in Row
BY DEF Idle, Row, Steps, WriterSteps

LEMMA LeavesIs ==
  ASSUME Typed, NEW a \in Actors, Leaves(a)
  PROVE  Move(a) /\ actor'[a].step = "idle" /\ NoLocks(actor'[a])
<1>1. actor'[a] = Idle /\ actor' = [actor EXCEPT ![a] = actor'[a]]
  BY DEF Typed, Leaves
<1> QED
  BY <1>1, IdleIsRow DEF Move, Idle, NoLocks

LEMMA DropsIs ==
  ASSUME Typed, NEW a \in Actors, NEW step \in {"retry", "block"}, Drops(a, step)
  PROVE  Move(a) /\ actor'[a].step = step /\ NoLocks(actor'[a])
<1>1. /\ actor' = [actor EXCEPT ![a] = actor'[a]]
      /\ actor'[a] = [Idle EXCEPT !.step = step, !.request = actor[a].request,
                                  !.generation = actor[a].generation]
  BY DEF Typed, Drops
<1>2. step \in Steps
  BY DEF Steps, EraserSteps
<1>3. actor[a].request \in Nat /\ actor[a].generation \in Nat
  BY DEF Typed, Row
<1>4. actor'[a] \in Row
  BY <1>1, <1>2, <1>3, IdleIsRow DEF Row
<1>5. actor'[a].step = step /\ NoLocks(actor'[a])
  BY <1>1 DEF Idle, NoLocks
<1> QED
  BY <1>1, <1>4, <1>5 DEF Move

LEMMA FailsIs ==
  ASSUME spent \in Spent, Fails
  PROVE  spent' \in Spent /\ spent'.died = spent.died
BY ErasureConstants DEF Fails, Spent

\* A process that is nowhere has nothing to answer for.
LEMMA UnlockedFits ==
  ASSUME NEW a \in Actors, actor'[a].step \in Unlocked
  PROVE  Fit(a)'
BY DEF Fit, Unlocked, Outside, Released, Cleaned, Gone, Marked

\* Whoever steps under the exclusive lock answers for itself only.
LEMMA HolderStep ==
  ASSUME ErasureInv, NEW a \in Actors, actor[a].mode = "ex", Move(a),
         Typed', Locked', Fit(a)', Lasting'
  PROVE  ErasureInv'
<1> SUFFICES ASSUME NEW b \in Actors, b # a PROVE Fit(b)'
  BY DEF ErasureInv
<1>1. actor[b].step \in Unlocked
  BY HolderAlone DEF ErasureInv
<1>2. actor'[b] = actor[b]
  BY OthersStay DEF ErasureInv
<1> QED
  BY <1>1, <1>2, UnlockedFits

\* A step that leaves the rows alone.
LEMMA RowsStay ==
  ASSUME ErasureInv, NEW a \in Actors, Move(a), Typed', Locked', Fit(a)',
         UNCHANGED <<inDatabase, files, snapshot>>, fence'.held = fence.held,
         account = "gone" /\ fence'.inode # 0 => fence.held,
         ~spent'.died => ~spent.died,
         ~spent'.died /\ life.removed /\ fence'.inode = 0 => \E b \in Actors : actor'[b].registry = "ex"
  PROVE  ErasureInv'
<1>1. \A b \in Actors : b # a => Fit(b)'
  BY OthersStay DEF ErasureInv, Fit, inDatabase
<1>2. Lasting'
  BY DEF ErasureInv, Lasting, inDatabase, ActiveLife
<1> QED
  BY <1>1, <1>2 DEF ErasureInv

LEMMA RegistryStays ==
  ASSUME ErasureInv, NEW a \in Actors, Move(a), actor[a].registry # "ex" \/ actor'[a].registry = "ex",
         \E b \in Actors : actor[b].registry = "ex"
  PROVE  \E b \in Actors : actor'[b].registry = "ex"
BY OthersStay DEF ErasureInv

\* A process gives up and leaves its locks.
LEMMA GivesUp ==
  ASSUME ErasureInv, NEW a \in Actors, Move(a), actor'[a].step \in Outside, NoLocks(actor'[a]),
         UNCHANGED <<fence, inDatabase, files, snapshot>>, spent' \in Spent,
         spent'.died \/ (spent'.died = spent.died /\ actor[a].registry # "ex")
  PROVE  ErasureInv'
<1>1. Holds(actor'[a]) /\ Fit(a)'
  BY UnlockedFits DEF Holds, NoLocks, Outside, Unlocked, Inside, Finishing
<1>2. Locked'
  BY <1>1, LeavesLocked DEF ErasureInv
<1>3. Typed'
  BY OthersStay DEF ErasureInv, Typed, inDatabase
<1>4. account = "gone" /\ fence'.inode # 0 => fence.held
  BY DEF ErasureInv, Lasting
<1>5. ~spent'.died => ~spent.died
  BY DEF Spent
<1>6. ~spent'.died /\ life.removed /\ fence'.inode = 0 => \E b \in Actors : actor'[b].registry = "ex"
  BY RegistryStays DEF ErasureInv, Lasting
<1> QED
  BY <1>1, <1>2, <1>3, <1>4, <1>5, <1>6, RowsStay

\* A process goes on to a step at which the same is locked.
LEMMA GoesOn ==
  ASSUME ErasureInv, NEW a \in Actors, NEW step \in Steps, Goes(a, step), Holds(actor'[a]),
         UNCHANGED <<fence, inDatabase, files, snapshot>>, spent' \in Spent,
         spent'.died = spent.died, Fit(a)'
  PROVE  ErasureInv'
<1>1. Move(a) /\ SameLocks(actor[a], actor'[a])
  BY GoesIs DEF ErasureInv
<1>2. Locked'
  BY <1>1, KeepsLocked DEF ErasureInv
<1>3. Typed'
  BY <1>1, OthersStay DEF ErasureInv, Typed, inDatabase
<1>4. account = "gone" /\ fence'.inode # 0 => fence.held
  BY DEF ErasureInv, Lasting
<1>5. ~spent'.died /\ life.removed /\ fence'.inode = 0 => \E b \in Actors : actor'[b].registry = "ex"
  BY <1>1, RegistryStays DEF ErasureInv, Lasting, SameLocks
<1> QED
  BY <1>1, <1>2, <1>3, <1>4, <1>5, RowsStay

\* Steps under the same lock, whatever they do to the rows.
LEMMA HolderGoes ==
  ASSUME ErasureInv, NEW a \in Actors, NEW step \in Steps, Goes(a, step),
         \/ actor[a].step \in Inside /\ step \in Inside
         \/ actor[a].step \in Finishing /\ step \in Finishing,
         fence' \in [inode : Nat, held : BOOLEAN], fence'.inode = fence.inode,
         account' \in {"active", "deletion_pending", "gone"}, life' \in Life, files' \in BOOLEAN,
         remote' \in Remote, boundary' \in Boundary, UNCHANGED snapshot, spent' \in Spent,
         Fit(a)', Lasting'
  PROVE  ErasureInv'
<1>1. /\ Move(a) /\ SameLocks(actor[a], actor'[a]) /\ actor'[a].step = step
  BY GoesIs DEF ErasureInv
<1>2. Holds(actor[a])
  BY DEF ErasureInv, Locked
<1>3. actor[a].mode = "ex"
  BY <1>2 DEF Holds
<1>4. Holds(actor'[a])
  BY <1>1, <1>2 DEF Holds, SameLocks, Inside, Finishing, Outside
<1>5. Locked'
  BY <1>1, <1>4, KeepsLocked DEF ErasureInv
<1>6. Typed'
  BY <1>1, OthersStay DEF ErasureInv, Typed
<1> QED
  BY <1>1, <1>3, <1>5, <1>6, HolderStep

\* The holder leaves its locks after a last change of the rows.
LEMMA HolderLeaves ==
  ASSUME ErasureInv, NEW a \in Actors, actor[a].step \in Inside \cup Finishing, Move(a),
         actor'[a].step \in Outside, NoLocks(actor'[a]),
         fence' \in [inode : Nat, held : BOOLEAN],
         fence'.inode = fence.inode \/ actor[a].registry = "ex",
         account' \in {"active", "deletion_pending", "gone"}, life' \in Life, files' \in BOOLEAN,
         remote' \in Remote, boundary' \in Boundary, UNCHANGED snapshot, spent' \in Spent,
         Lasting'
  PROVE  ErasureInv'
<1>1. Holds(actor'[a]) /\ Fit(a)'
  BY UnlockedFits DEF Holds, NoLocks, Outside, Unlocked, Inside, Finishing
<1>2. actor[a].mode = "ex"
  BY DEF ErasureInv, Locked, Holds
<1>3. Locked'
  BY <1>1, LeavesLocked, RestoresLocked DEF ErasureInv
<1>4. Typed'
  BY OthersStay DEF ErasureInv, Typed
<1> QED
  BY <1>1, <1>2, <1>3, <1>4, HolderStep

----------------------------------------------------------------------------
(* The account lock, requests and jobs.                                    *)

LEMMA Known ==
  ASSUME ErasureInv, NEW a \in Actors
  PROVE  Typed /\ Locked /\ Lasting /\ actor[a] \in Row /\ Holds(actor[a]) /\ Fit(a) /\ spent \in Spent
BY DEF ErasureInv, Typed, Locked

LEMMA Parts == ErasureInv => Typed /\ Locked /\ Lasting /\ spent \in Spent
BY DEF ErasureInv, Typed

LEMMA EnterRegistryMoves ==
  ASSUME ErasureInv, NEW a \in Actors, EnterRegistry(a)
  PROVE  /\ Move(a) /\ actor'[a].step = "open" /\ actor'[a].registry = "sh"
         /\ actor'[a].inode = actor[a].inode /\ actor'[a].mode = actor[a].mode
<1> DEFINE row == [actor[a] EXCEPT !.step = "open", !.registry = "sh"]
<1>1. actor \in [Actors -> Row] /\ actor[a] \in Row
  BY Known DEF Typed
<1>2. "open" \in Steps
  BY DEF Steps, WriterSteps
<1>3. /\ row \in Row /\ row.step = "open" /\ row.registry = "sh"
      /\ row.inode = actor[a].inode /\ row.mode = actor[a].mode
  BY <1>1, <1>2 DEF Row
<1>4. actor' = [actor EXCEPT ![a] = row]
  BY <1>1 DEF EnterRegistry
<1> QED
  BY <1>3, <1>4, Known, RowMoves

LEMMA EnterRegistryKeeps ==
  ASSUME ErasureInv, NEW a \in Actors, EnterRegistry(a)
  PROVE  ErasureInv'
<1>1. /\ Move(a) /\ actor'[a].step = "open" /\ actor'[a].registry = "sh"
      /\ actor'[a].inode = actor[a].inode /\ actor'[a].mode = actor[a].mode
  BY EnterRegistryMoves
<1>2. actor[a].inode = 0 /\ actor[a].mode = "none" /\ actor[a].registry = "none"
  BY Known DEF EnterRegistry, At, Holds, Outside
<1>3. Holds(actor'[a]) /\ Fit(a)'
  BY <1>1, <1>2, UnlockedFits DEF Holds, Outside, Unlocked, Inside, Finishing
<1>4. Locked'
  BY <1>1, <1>2, <1>3, Known, EntersLocked DEF EnterRegistry
<1>5. Typed'
  BY <1>1, Known, OthersStay DEF EnterRegistry, Typed, inDatabase
<1>6. ~spent'.died /\ life.removed /\ fence'.inode = 0 => \E b \in Actors : actor'[b].registry = "ex"
  BY <1>1, <1>2, Known, RegistryStays DEF EnterRegistry, Lasting
<1> QED
  BY <1>1, <1>3, <1>4, <1>5, <1>6, Known, RowsStay DEF EnterRegistry, Lasting

LEMMA OpenLockMoves ==
  ASSUME ErasureInv, NEW a \in Actors, NEW inode \in Nat,
         actor' = [actor EXCEPT ![a].step = "flock", ![a].inode = inode]
  PROVE  /\ Move(a) /\ actor'[a].step = "flock" /\ actor'[a].inode = inode
         /\ actor'[a].mode = actor[a].mode /\ actor'[a].registry = actor[a].registry
<1> DEFINE row == [actor[a] EXCEPT !.step = "flock", !.inode = inode]
<1>1. actor \in [Actors -> Row] /\ actor[a] \in Row
  BY Known DEF Typed
<1>2. "flock" \in Steps
  BY DEF Steps, WriterSteps
<1>3. /\ row \in Row /\ row.step = "flock" /\ row.inode = inode
      /\ row.mode = actor[a].mode /\ row.registry = actor[a].registry
  BY <1>1, <1>2 DEF Row
<1>4. actor' = [actor EXCEPT ![a] = row]
  BY <1>1
<1> QED
  BY <1>3, <1>4, Known, RowMoves

LEMMA OpenLockKeeps ==
  ASSUME ErasureInv, NEW a \in Actors, OpenLock(a)
  PROVE  ErasureInv'
<1>1. actor[a].inode = 0 /\ actor[a].mode = "none" /\ actor[a].registry = "sh"
  BY Known DEF OpenLock, At, Holds
<1>2. fence.inode = 0 => \A b \in Actors : b # a => actor[b].inode = 0
  BY <1>1, Known DEF Locked
<1>3. fence'.inode \in Nat \ {0} /\ fence'.held = fence.held /\ fence' \in [inode : Nat, held : BOOLEAN]
  BY <1>2, Known, FreshInode DEF OpenLock, Typed
<1>4. fence.inode = 0 \/ fence'.inode = fence.inode
  BY Known DEF OpenLock, Typed
<1>5. /\ Move(a) /\ actor'[a].step = "flock" /\ actor'[a].registry = "sh"
      /\ actor'[a].inode = fence'.inode /\ actor'[a].mode = "none"
  BY <1>1, <1>3, OpenLockMoves DEF OpenLock
<1>6. Holds(actor'[a]) /\ Fit(a)'
  BY <1>3, <1>5, UnlockedFits DEF Holds, Outside, Unlocked, Inside, Finishing
<1>7. Locked'
  BY <1>1, <1>4, <1>5, <1>6, Known, OpensLocked
<1>8. Typed'
  BY <1>3, <1>5, Known, OthersStay DEF OpenLock, Typed, inDatabase
<1>9. account = "gone" => fence.held
  BY Known DEF OpenLock, RegistrationAllowed, Lasting
<1> QED
  BY <1>3, <1>5, <1>6, <1>7, <1>8, <1>9, RowsStay DEF OpenLock

LEMMA TakeLockMoves ==
  ASSUME ErasureInv, NEW a \in Actors, TakeLock(a)
  PROVE  /\ Move(a) /\ actor'[a].registry = "none" /\ actor'[a].inode = actor[a].inode
         /\ actor'[a].mode = (IF Exclusive(a) THEN "ex" ELSE "sh")
         /\ actor'[a].existed = fence.held
         /\ actor'[a].step = "hold" => actor'[a].wish # "reactivate"
         /\ IF Exclusive(a) THEN actor'[a].step \in {"hold", "reactivate"} ELSE actor'[a].step = "work"
<1> DEFINE step == IF a \in Writers THEN "work"
                   ELSE IF actor[a].wish = "reactivate" THEN "reactivate" ELSE "hold"
           mode == IF Exclusive(a) THEN "ex" ELSE "sh"
           row == [actor[a] EXCEPT !.registry = "none", !.mode = mode, !.step = step,
                                   !.existed = fence.held]
<1>1. actor \in [Actors -> Row] /\ actor[a] \in Row /\ fence.held \in BOOLEAN
  BY Known DEF Typed
<1>2. step \in Steps /\ mode \in {"sh", "ex"}
  BY DEF Steps, WriterSteps, AdminSteps
<1>3. actor' = [actor EXCEPT ![a] = row]
  BY <1>1 DEF TakeLock
<1>4. /\ step = "hold" => actor[a].wish # "reactivate"
      /\ IF Exclusive(a) THEN step \in {"hold", "reactivate"} ELSE step = "work"
  BY DEF Exclusive
<1> HIDE DEF step, mode
<1>5. /\ row \in Row /\ row.registry = "none" /\ row.inode = actor[a].inode /\ row.mode = mode
      /\ row.step = step /\ row.existed = fence.held /\ row.wish = actor[a].wish
  BY <1>1, <1>2 DEF Row
<1> HIDE DEF row
<1>6. Move(a) /\ actor'[a] = row
  BY <1>3, <1>5, Known, RowMoves
<1> QED
  BY <1>4, <1>5, <1>6 DEF mode

LEMMA TakeLockKeeps ==
  ASSUME ErasureInv, NEW a \in Actors, TakeLock(a)
  PROVE  ErasureInv'
<1>1. actor[a].inode # 0 /\ actor[a].mode = "none" /\ actor[a].registry = "sh"
  BY Known DEF TakeLock, At, Holds
<1>2. account = "gone" => fence.held
  BY <1>1, Known DEF Locked, Lasting
<1>3. /\ Move(a) /\ actor'[a].registry = "none" /\ actor'[a].inode = actor[a].inode
      /\ actor'[a].mode = (IF Exclusive(a) THEN "ex" ELSE "sh")
      /\ actor'[a].existed = fence.held
      /\ actor'[a].step = "hold" => actor'[a].wish # "reactivate"
      /\ IF Exclusive(a) THEN actor'[a].step \in {"hold", "reactivate"} ELSE actor'[a].step = "work"
  BY TakeLockMoves
<1>4. Holds(actor'[a])
  BY <1>1, <1>3 DEF Holds, Outside, Inside, Finishing
<1>5. ~Exclusive(a) => account # "gone"
  BY <1>2 DEF TakeLock, Admitted
<1>6. Fit(a)'
  BY <1>2, <1>3, <1>5 DEF TakeLock, inDatabase, Fit, Released, Cleaned, Gone, Marked
<1>7. Locked'
  BY <1>1, <1>3, <1>4, Known, TakesLocked DEF TakeLock, Admitted
<1>8. Typed'
  BY <1>3, Known, OthersStay DEF TakeLock, Typed, inDatabase
<1>9. ~spent'.died /\ life.removed /\ fence'.inode = 0 => \E b \in Actors : actor'[b].registry = "ex"
  BY <1>1, <1>3, Known, RegistryStays DEF TakeLock, Lasting
<1> QED
  BY <1>2, <1>3, <1>6, <1>7, <1>8, <1>9, RowsStay DEF TakeLock

LEMMA RefusedKeeps ==
  ASSUME ErasureInv, NEW a \in Actors, Refused(a)
  PROVE  ErasureInv'
<1>1. Move(a) /\ actor'[a].step \in Outside /\ NoLocks(actor'[a])
  BY Known, LeavesIs, DropsIs DEF Refused, Outside
<1>2. actor[a].registry # "ex"
  BY Known DEF Refused, At, Holds, Outside
<1> QED
  BY <1>1, <1>2, Known, GivesUp DEF Refused

LEMMA AccountLockKeeps ==
  ASSUME ErasureInv, NEW a \in Actors, AccountLock(a)
  PROVE  ErasureInv'
BY EnterRegistryKeeps, OpenLockKeeps, TakeLockKeeps, RefusedKeeps DEF AccountLock

LEMMA BeginWorkKeeps ==
  ASSUME ErasureInv, NEW w \in Actors, BeginWork(w)
  PROVE  ErasureInv'
<1>1. "enter" \in Steps
  BY DEF Steps, WriterSteps
<1>2. actor'[w].step = "enter" /\ SameLocks(actor[w], actor'[w])
  BY <1>1, Known, GoesIs DEF BeginWork
<1>3. Holds(actor'[w]) /\ Fit(w)'
  BY <1>2, Known, UnlockedFits DEF BeginWork, At, Holds, SameLocks, Outside, Unlocked, Inside, Finishing
<1> QED
  BY <1>1, <1>3, Known, GoesOn DEF BeginWork

LEMMA WriteFileKeeps ==
  ASSUME ErasureInv, NEW w \in Actors, WriteFile(w)
  PROVE  ErasureInv'
<1>1. actor[w].step = "work" /\ account # "gone" /\ life.state # "completed"
  BY Known DEF WriteFile, At, Fit, Lasting
<1>2. \A a \in Actors : Fit(a)'
  BY <1>1, Known, WorkerNotAlone DEF WriteFile, inDatabase, Fit, Unlocked, Outside, Released, Cleaned,
     Gone, Marked
<1>3. Typed' /\ Locked'
  BY Known DEF WriteFile, inDatabase, Typed, Locked
<1>4. Lasting'
  BY <1>1, Known DEF WriteFile, inDatabase, Lasting, ActiveLife
<1> QED
  BY <1>2, <1>3, <1>4 DEF ErasureInv

LEMMA EndWorkKeeps ==
  ASSUME ErasureInv, NEW w \in Actors, EndWork(w)
  PROVE  ErasureInv'
<1>1. Move(w) /\ actor'[w].step \in Outside /\ NoLocks(actor'[w])
  BY Known, LeavesIs DEF EndWork, Outside
<1>2. actor[w].registry # "ex"
  BY Known DEF EndWork, At, Holds
<1> QED
  BY <1>1, <1>2, Known, GivesUp DEF EndWork
----------------------------------------------------------------------------
(* Steps that change the rows outside of the locks.                        *)

\* What no part of the invariant tells apart.
Undisturbed ==
  /\ life' \in Life /\ life'.released = life.released /\ life'.removed = life.removed
  /\ life'.state = "completed" <=> life.state = "completed"
  /\ ActiveLife => ActiveLife'
  /\ remote' \in Remote /\ \A r \in {"object", "auth"} : remote'[r].there => remote[r].there
  /\ spent' \in Spent /\ spent'.died = spent.died
  /\ UNCHANGED <<fence, account, boundary, files, snapshot>>

LEMMA LifeMoves ==
  ASSUME ErasureInv, UNCHANGED actor, Undisturbed
  PROVE  ErasureInv'
<1>1. Typed' /\ Locked'
  BY DEF ErasureInv, Undisturbed, Typed, Locked
<1>2. \A a \in Actors : Fit(a)'
  BY DEF ErasureInv, Undisturbed, Fit
<1>3. DOMAIN remote = {"object", "auth"} /\ DOMAIN remote' = {"object", "auth"}
  BY DEF ErasureInv, Undisturbed, Typed, Remote
<1>4. Lasting'
  BY <1>3 DEF ErasureInv, Undisturbed, Lasting
<1> QED
  BY <1>1, <1>2, <1>4 DEF ErasureInv

LEMMA OutsiderMoves ==
  ASSUME ErasureInv, NEW a \in Actors, actor[a].step \in Outside, Move(a),
         actor'[a].step \in Outside, NoLocks(actor'[a]), Undisturbed
  PROVE  ErasureInv'
<1>1. Holds(actor'[a]) /\ Fit(a)'
  BY UnlockedFits DEF Holds, NoLocks, Outside, Unlocked, Inside, Finishing
<1>2. Typed' /\ Locked'
  BY <1>1, Known, OthersStay, LeavesLocked DEF Undisturbed, Typed
<1>3. \A b \in Actors : b # a => Fit(b)'
  BY Known, OthersStay DEF ErasureInv, Undisturbed, Fit
<1>4. DOMAIN remote = {"object", "auth"} /\ DOMAIN remote' = {"object", "auth"}
  BY Known DEF Undisturbed, Typed, Remote
<1>5. actor[a].registry = "none"
  BY Known DEF Holds
<1>6. (\E b \in Actors : actor[b].registry = "ex") => \E b \in Actors : actor'[b].registry = "ex"
  BY <1>5, RegistryStays
<1>7. Lasting'
  BY <1>4, <1>6, Known DEF Undisturbed, Lasting
<1> QED
  BY <1>1, <1>2, <1>3, <1>7 DEF ErasureInv

LEMMA ResumeKeeps == ASSUME ErasureInv, Resume PROVE ErasureInv'
<1>1. /\ life' \in Life /\ life'.released = life.released /\ life'.removed = life.removed
      /\ life'.state = "erasure_pending" /\ life.state = "blocked"
  BY Parts DEF Resume, Typed, Life, LifeStates
<1>2. spent' \in Spent /\ spent'.died = spent.died
  BY Parts, ErasureConstants DEF Resume, Spent
<1>3. remote' \in Remote /\ \A r \in {"object", "auth"} : remote'[r].there => remote[r].there
  <2>1. PICK clear \in BOOLEAN :
          remote' = [r \in {"object", "auth"} |-> IF clear /\ remote[r].state = "intent"
                                                 THEN [remote[r] EXCEPT !.there = FALSE] ELSE remote[r]]
    BY Parts DEF Resume, Typed, Remote
  <2>2. ASSUME NEW r \in {"object", "auth"}
        PROVE  /\ remote'[r] = remote[r] \/ remote'[r] = [remote[r] EXCEPT !.there = FALSE]
               /\ remote[r] \in [there : BOOLEAN, state : {"pending", "intent", "verified"}]
    BY <2>1, Parts DEF Typed, Remote
  <2>3. ASSUME NEW r \in {"object", "auth"}
        PROVE  /\ remote'[r] \in [there : BOOLEAN, state : {"pending", "intent", "verified"}]
               /\ remote'[r].there => remote[r].there
    BY <2>2
  <2> QED
    BY <2>1, <2>3 DEF Remote
<1> QED
  BY <1>1, <1>2, <1>3, LifeMoves DEF Resume, Undisturbed, ActiveLife

LEMMA DeadlinePassesKeeps == ASSUME ErasureInv, DeadlinePasses PROVE ErasureInv'
<1>1. /\ life' \in Life /\ life'.released = life.released /\ life'.removed = life.removed
      /\ life'.state = life.state
  BY Parts DEF DeadlinePasses, Typed, Life
<1> QED
  BY <1>1, Parts, LifeMoves DEF DeadlinePasses, Undisturbed, ActiveLife, Typed

LEMMA LeaseRunsOutKeeps == ASSUME ErasureInv, LeaseRunsOut PROVE ErasureInv'
<1>1. /\ life' \in Life /\ life'.released = life.released /\ life'.removed = life.removed
      /\ life'.state = life.state
  BY Parts DEF LeaseRunsOut, Typed, Life
<1>2. spent' \in Spent /\ spent'.died = spent.died
  BY Parts, FailsIs DEF LeaseRunsOut
<1> QED
  BY <1>1, <1>2, Parts, LifeMoves DEF LeaseRunsOut, Undisturbed, ActiveLife, Typed

LEMMA ClaimErasureMoves ==
  ASSUME ErasureInv, NEW e \in Actors, ClaimErasure(e)
  PROVE  Move(e) /\ actor'[e].step = "enter" /\ SameLocks(actor[e], actor'[e])
<1>1. actor \in [Actors -> Row] /\ actor[e] \in Row
  BY Known DEF Typed
<1>2. life.no \in Nat /\ life.generation + 1 \in Nat
  BY Known DEF Typed, Life
<1>3. "enter" \in Steps
  BY DEF Steps, WriterSteps
<1>4. actor' = [actor EXCEPT ![e] = [actor[e] EXCEPT !.step = "enter", !.request = life.no,
                                                    !.generation = life.generation + 1]]
  BY <1>1 DEF ClaimErasure
<1>5. actor'[e] = [actor[e] EXCEPT !.step = "enter", !.request = life.no,
                                 !.generation = life.generation + 1]
  BY <1>1, <1>4
<1>6. actor'[e] \in Row /\ actor'[e].step = "enter" /\ SameLocks(actor[e], actor'[e])
  BY <1>1, <1>2, <1>3, <1>5 DEF Row, SameLocks
<1> QED
  BY <1>4, <1>5, <1>6 DEF Move

LEMMA ClaimErasureKeeps ==
  ASSUME ErasureInv, NEW e \in Actors, ClaimErasure(e)
  PROVE  ErasureInv'
<1>1. /\ life' \in Life /\ life'.released = life.released /\ life'.removed = life.removed
      /\ life'.state = "processing" /\ life.state # "completed"
  <2>1. life \in Life /\ life.generation + 1 \in Nat
    BY Known DEF Typed, Life
  <2>2. "processing" \in LifeStates
    BY DEF LifeStates
  <2>3. life' = [life EXCEPT !.state = "processing", !.lease = TRUE, !.generation = life.generation + 1]
    BY DEF ClaimErasure
  <2>4. life.state # "completed"
    BY DEF ClaimErasure, ClaimableErasure
  <2> QED
    BY <2>1, <2>2, <2>3, <2>4 DEF Life
<1>2. actor[e].step \in Outside /\ NoLocks(actor[e])
  BY Known DEF ClaimErasure, At, Holds, Outside, NoLocks
<1>3. Move(e) /\ actor'[e].step = "enter" /\ SameLocks(actor[e], actor'[e])
  BY ClaimErasureMoves
<1>4. Undisturbed
  BY <1>1, Known DEF ClaimErasure, Undisturbed, ActiveLife, Typed
<1> QED
  BY <1>2, <1>3, <1>4, OutsiderMoves DEF NoLocks, SameLocks, Outside

LEMMA EndClaimKeeps ==
  ASSUME ErasureInv, NEW e \in Actors, EndClaim(e)
  PROVE  ErasureInv'
<1>1. /\ life' \in Life /\ life'.released = life.released /\ life'.removed = life.removed
      /\ life'.state \in {"retry_pending", "blocked"} /\ life.state = "processing"
  BY Known DEF EndClaim, Owned, Typed, Life, LifeStates
<1>2. Move(e) /\ actor'[e].step = "idle" /\ NoLocks(actor'[e])
  BY Known, LeavesIs DEF EndClaim
<1>3. Undisturbed
  BY <1>1, Known DEF EndClaim, Undisturbed, ActiveLife, Typed
<1> QED
  BY <1>2, <1>3, OutsiderMoves DEF EndClaim, Outside

LEMMA BeginActionMoves ==
  ASSUME ErasureInv, NEW wish \in {"deactivate", "delete", "reactivate"}, BeginAction(wish)
  PROVE  /\ Move("admin") /\ actor'["admin"].step = "enter"
         /\ SameLocks(actor["admin"], actor'["admin"])
<1> DEFINE row == [actor["admin"] EXCEPT !.step = "enter", !.wish = wish]
<1>1. "admin" \in Actors /\ "enter" \in Steps
  BY DEF Actors, Steps, WriterSteps
<1>2. actor \in [Actors -> Row] /\ actor["admin"] \in Row
  BY <1>1, Known DEF Typed
<1>3. row \in Row /\ row.step = "enter" /\ SameLocks(actor["admin"], row)
  BY <1>1, <1>2 DEF Row, SameLocks
<1>4. actor' = [actor EXCEPT !["admin"] = row]
  BY <1>1, <1>2 DEF BeginAction
<1> QED
  BY <1>1, <1>3, <1>4, Known, RowMoves

LEMMA BeginActionKeeps ==
  ASSUME ErasureInv, NEW wish \in {"deactivate", "delete", "reactivate"}, BeginAction(wish)
  PROVE  ErasureInv'
<1>1. "admin" \in Actors
  BY DEF Actors
<1>2. actor["admin"].step \in Outside /\ NoLocks(actor["admin"])
  BY <1>1, Known DEF BeginAction, At, Holds, Outside, NoLocks
<1>3. Move("admin") /\ actor'["admin"].step = "enter" /\ SameLocks(actor["admin"], actor'["admin"])
  BY BeginActionMoves
<1>4. spent' \in Spent /\ spent'.died = spent.died
  BY <1>1, Known, ErasureConstants DEF BeginAction, Spent
<1>5. Undisturbed
  BY <1>1, <1>4, Known DEF BeginAction, inDatabase, Undisturbed, ActiveLife, Typed
<1> QED
  BY <1>1, <1>2, <1>3, <1>5, OutsiderMoves DEF NoLocks, SameLocks, Outside

LEMMA DiesKeeps ==
  ASSUME ErasureInv, NEW a \in Actors, Dies(a)
  PROVE  ErasureInv'
<1>1. Move(a) /\ actor'[a].step \in Outside /\ NoLocks(actor'[a])
  BY Known, LeavesIs DEF Dies, Outside
<1>2. spent' \in Spent /\ spent'.died = TRUE
  <2>1. spent \in Spent /\ spent.failures < MaxFailures
    BY Known DEF Dies
  <2>2. spent.failures + 1 \in 0 .. MaxFailures
    BY <2>1, ErasureConstants DEF Spent
  <2>3. spent' = [spent EXCEPT !.failures = spent.failures + 1, !.died = TRUE]
    BY DEF Dies
  <2> QED
    BY <2>1, <2>2, <2>3 DEF Spent
<1> QED
  BY <1>1, <1>2, GivesUp DEF Dies

LEMMA CallLostKeeps ==
  ASSUME ErasureInv, NEW e \in Actors, CallLost(e)
  PROVE  ErasureInv'
<1>1. Move(e) /\ actor'[e].step \in Outside /\ NoLocks(actor'[e])
  BY Known, LeavesIs DEF CallLost, Outside
<1>2. actor[e].registry = "none"
  BY Known DEF CallLost, Holds, Inside, Outside
<1>3. spent' \in Spent /\ spent'.died = spent.died
  BY Known, FailsIs DEF CallLost
<1> QED
  BY <1>1, <1>2, <1>3, GivesUp DEF CallLost

LEMMA ProviderUnavailableKeeps ==
  ASSUME ErasureInv, NEW e \in Actors, ProviderUnavailable(e)
  PROVE  ErasureInv'
<1>1. Move(e) /\ actor'[e].step \in Outside /\ NoLocks(actor'[e])
  BY Known, DropsIs DEF ProviderUnavailable, Outside
<1>2. actor[e].registry = "none"
  BY Known DEF ProviderUnavailable, Holds, Inside
<1>3. spent' \in Spent /\ spent'.died = spent.died
  BY Known, FailsIs DEF ProviderUnavailable
<1> QED
  BY <1>1, <1>2, <1>3, GivesUp DEF ProviderUnavailable
----------------------------------------------------------------------------
(* Steps under the exclusive lock.                                         *)

LEMMA HolderSteps ==
  ASSUME NEW step \in Inside \cup Finishing
  PROVE  step \in Steps
BY DEF Inside, Finishing, Steps, AdminSteps, EraserSteps

\* A holder goes on and changes nothing else.
LEMMA HolderGoesOn ==
  ASSUME ErasureInv, NEW a \in Actors, NEW step \in Steps, Goes(a, step),
         \/ actor[a].step \in Inside /\ step \in Inside
         \/ actor[a].step \in Finishing /\ step \in Finishing,
         UNCHANGED <<fence, inDatabase, files, snapshot>>, spent' \in Spent,
         spent'.died = spent.died, Fit(a)'
  PROVE  ErasureInv'
<1>1. SameLocks(actor[a], actor'[a]) /\ actor'[a].step = step
  BY Known, GoesIs
<1>2. Holds(actor'[a])
  BY <1>1, Known DEF Holds, SameLocks, Inside, Finishing, Outside
<1> QED
  BY <1>2, GoesOn

\* A holder gives up under the lock.
LEMMA HolderDrops ==
  ASSUME ErasureInv, NEW a \in Actors, actor[a].step \in Inside,
         (\E step \in {"retry", "block"} : Drops(a, step)) \/ Leaves(a),
         UNCHANGED <<fence, inDatabase, files, snapshot, spent>>
  PROVE  ErasureInv'
<1>1. Move(a) /\ actor'[a].step \in Outside /\ NoLocks(actor'[a])
  BY Known, LeavesIs, DropsIs DEF Outside
<1>2. actor[a].registry = "none"
  BY Known DEF Holds
<1> QED
  BY <1>1, <1>2, Known, GivesUp

\* A finish that fails restores the hold before anything else.
LEMMA RestoreFits ==
  ASSUME NEW a \in Actors, actor'[a].step \in {"restore", "receipt"}
  PROVE  Fit(a)'
BY DEF Fit, Released, Cleaned, Gone, Marked

\* The present lock file is the holder's.
LEMMA HolderFence ==
  ASSUME ErasureInv, NEW a \in Actors, actor[a].step \in Inside
  PROVE  fence.inode # 0
BY Known DEF Holds, Locked

LEMMA PublishEnrollingKeeps == ASSUME ErasureInv, PublishEnrolling PROVE ErasureInv'
<1>1. "admin" \in Actors /\ "create" \in Steps
  BY DEF Actors, Steps, AdminSteps
<1>2. fence' \in [inode : Nat, held : BOOLEAN] /\ fence'.inode = fence.inode /\ fence'.held = TRUE
  BY Parts DEF PublishEnrolling, Typed
<1>3. actor'["admin"].step = "create" /\ actor'["admin"].existed = actor["admin"].existed
      /\ actor'["admin"].wish = actor["admin"].wish
  BY <1>1, Known, GoesIs DEF PublishEnrolling
<1>4. Fit("admin")'
  BY <1>1, <1>3, Known DEF PublishEnrolling, inDatabase, At, Fit, Released, Cleaned, Gone, Marked
<1>5. Lasting'
  <2>1. fence.inode # 0
    BY <1>1, HolderFence DEF PublishEnrolling, At, Inside
  <2> QED
    BY <1>2, <2>1, Parts DEF PublishEnrolling, inDatabase, Lasting, ActiveLife
<1> QED
  BY <1>1, <1>2, <1>4, <1>5, Parts, HolderGoes DEF PublishEnrolling, inDatabase, At, Inside, Typed

LEMMA PublishReceiptKeeps == ASSUME ErasureInv, PublishReceipt PROVE ErasureInv'
<1>1. "admin" \in Actors
  BY DEF Actors
<1>2. fence' \in [inode : Nat, held : BOOLEAN] /\ fence'.inode = fence.inode /\ fence'.held = TRUE
  BY Parts DEF PublishReceipt, Typed
<1>3. Move("admin") /\ actor'["admin"].step \in Outside /\ NoLocks(actor'["admin"])
  BY <1>1, Known, LeavesIs DEF PublishReceipt, Outside
<1>4. Lasting'
  <2>1. fence.inode # 0
    BY <1>1, HolderFence DEF PublishReceipt, At, Inside
  <2> QED
    BY <1>2, <2>1, Parts DEF PublishReceipt, inDatabase, Lasting, ActiveLife
<1> QED
  BY <1>1, <1>2, <1>3, <1>4, Parts, HolderLeaves DEF PublishReceipt, inDatabase, At, Inside, Typed

LEMMA ReleaseHoldKeeps == ASSUME ErasureInv, ReleaseHold PROVE ErasureInv'
<1>1. "admin" \in Actors
  BY DEF Actors
<1>2. fence' \in [inode : Nat, held : BOOLEAN] /\ fence'.inode = fence.inode
  BY Parts DEF ReleaseHold, Typed
<1>3. Move("admin") /\ actor'["admin"].step \in Outside /\ NoLocks(actor'["admin"])
  BY <1>1, Known, LeavesIs DEF ReleaseHold, Outside
<1>4. account # "gone"
  BY <1>1, Known DEF ReleaseHold, At, Fit
<1>5. Lasting'
  BY <1>4, Parts DEF ReleaseHold, inDatabase, Lasting, ActiveLife
<1> QED
  BY <1>1, <1>2, <1>3, <1>5, Parts, HolderLeaves DEF ReleaseHold, inDatabase, At, Inside, Typed

LEMMA ReactivateAccountKeeps == ASSUME ErasureInv, ReactivateAccount PROVE ErasureInv'
<1>1. "admin" \in Actors /\ actor["admin"].step = "reactivate"
  BY DEF Actors, ReactivateAccount, At
<1>2. CASE Leaves("admin") /\ UNCHANGED <<life, account>>
  BY <1>1, <1>2, HolderDrops DEF ReactivateAccount, inDatabase, Inside
<1>3. CASE /\ ~life.released /\ life.state # "completed" /\ account' = "active"
           /\ life' = [life EXCEPT !.state = "reactivated", !.lease = FALSE]
           /\ Goes("admin", "release")
  <2>1. life' \in Life /\ life'.released = life.released /\ life'.removed = life.removed
        /\ life'.state = "reactivated"
    BY <1>3, Parts DEF Typed, Life, LifeStates
  <2>2. actor'["admin"].step = "release"
    BY <1>1, <1>3, Known, GoesIs, HolderSteps DEF Inside
  <2>3. Fit("admin")'
    BY <1>3, <2>2 DEF Fit, Released, Cleaned, Gone, Marked
  <2>4. fence.inode # 0
    BY <1>1, HolderFence DEF Inside
  <2>5. Lasting'
    BY <1>3, <2>1, <2>4, Parts DEF ReactivateAccount, Lasting, ActiveLife
  <2> QED
    BY <1>1, <1>3, <2>1, <2>3, <2>5, Parts, HolderGoes, HolderSteps DEF ReactivateAccount, Inside, Typed
<1> QED
  BY <1>2, <1>3 DEF ReactivateAccount
\* create_account_action167 makes a lifecycle of its own or escalates the active one.
LEMMA CreatedLifeIs ==
  ASSUME life \in Life, NEW wish \in {"none", "deactivate", "delete"}
  PROVE  /\ CreatedLife(wish) \in Life
         /\ ~life.removed => ~CreatedLife(wish).removed
         /\ ~ActiveLife => ~CreatedLife(wish).released
         /\ ActiveLife => CreatedLife(wish).released = life.released
         /\ CreatedLife(wish).state \notin {"none", "reactivated", "completed"}
<1>1. NoLife \in Life /\ life.no + 1 \in Nat
  BY DEF NoLife, Life, LifeStates
<1>2. CASE ~ActiveLife
  <2>1. PICK state \in LifeStates, eligible \in BOOLEAN :
          /\ state \notin {"none", "reactivated", "completed"}
          /\ CreatedLife(wish) = [NoLife EXCEPT !.no = life.no + 1, !.state = state, !.action = wish,
                                                !.eligible = eligible]
    <3>1. /\ "erasure_pending" \in LifeStates /\ "recovery_pending" \in LifeStates
          /\ (wish = "delete") \in BOOLEAN
      BY DEF LifeStates
    <3>2. CASE wish = "delete"
      BY <1>2, <3>1, <3>2 DEF CreatedLife
    <3>3. CASE wish # "delete"
      BY <1>2, <3>1, <3>3 DEF CreatedLife
    <3> QED
      BY <3>2, <3>3
  <2>2. /\ CreatedLife(wish) \in Life /\ CreatedLife(wish).state = state
        /\ CreatedLife(wish).removed = NoLife.removed /\ CreatedLife(wish).released = NoLife.released
    BY <1>1, <2>1 DEF Life
  <2>3. ~NoLife.removed /\ ~NoLife.released
    BY DEF NoLife
  <2> QED
    BY <1>2, <2>1, <2>2, <2>3
<1>3. CASE ActiveLife /\ wish = "delete" /\ life.action = "deactivate"
  <2>1. CreatedLife(wish) = [life EXCEPT !.action = "delete", !.eligible = TRUE,
           !.state = IF life.state = "processing" THEN life.state ELSE "erasure_pending",
           !.lease = life.lease /\ life.state = "processing"]
    BY <1>3 DEF CreatedLife
  <2>2. (life.lease /\ life.state = "processing") \in BOOLEAN
    OBVIOUS
  <2> QED
    BY <1>3, <2>1, <2>2 DEF Life, LifeStates
<1>4. CASE ActiveLife /\ ~(wish = "delete" /\ life.action = "deactivate")
  BY <1>4 DEF CreatedLife, ActiveLife
<1> QED
  BY <1>2, <1>3, <1>4

LEMMA CreateActionKeeps == ASSUME ErasureInv, CreateAction PROVE ErasureInv'
<1> DEFINE wish == actor["admin"].wish
<1> DEFINE unheld == [fence EXCEPT !.held = actor["admin"].existed]
<1>1. "admin" \in Actors /\ actor["admin"].step = "create"
  BY DEF Actors, CreateAction, At
<1>2. wish \in {"none", "deactivate", "delete"}
  BY <1>1, Known DEF Row, Fit
<1>3. fence.inode # 0
  BY <1>1, HolderFence DEF Inside
<1>4. unheld \in [inode : Nat, held : BOOLEAN] /\ unheld.inode = fence.inode
      /\ unheld.held = actor["admin"].existed
  BY <1>1, Known DEF Typed, Row
<1>5. account = "gone" => actor["admin"].existed
  BY <1>1, Known DEF Fit
<1>6. UNCHANGED <<remote, boundary, files, snapshot, spent>>
  BY DEF CreateAction
<1>7. CASE /\ account # "gone" /\ life' = CreatedLife(wish) /\ account' = "deletion_pending"
           /\ \/ Goes("admin", "receipt") /\ UNCHANGED fence
              \/ Leaves("admin") /\ fence' = unheld
  <2>1. ~life.removed
    BY <1>7, Parts DEF Lasting, Typed, Life
  <2>2. /\ life' \in Life /\ ~life'.removed /\ life'.state # "completed"
        /\ life'.released => ActiveLife'
    BY <1>2, <1>7, <2>1, Parts, CreatedLifeIs DEF Typed, ActiveLife
  <2>3. Lasting'
    <3>1. /\ boundary.floor <= boundary.allocated
          /\ snapshot.step # "none" => snapshot.epoch <= boundary.allocated
      BY Parts DEF Lasting
    <3>2. ~life'.removed /\ account' # "gone" /\ life'.state # "completed"
      BY <1>7, <2>2
    <3> HIDE DEF wish, unheld
    <3> QED
      BY <1>6, <2>2, <3>1, <3>2 DEF Lasting
  <2> HIDE DEF wish, unheld
  <2>4. /\ account' \in {"active", "deletion_pending", "gone"} /\ files' \in BOOLEAN
        /\ fence \in [inode : Nat, held : BOOLEAN] /\ remote' \in Remote /\ boundary' \in Boundary
        /\ spent' \in Spent /\ UNCHANGED snapshot
    BY <1>6, <1>7, Parts DEF Typed
  <2>5. CASE Goes("admin", "receipt") /\ UNCHANGED fence
    <3>1. actor'["admin"].step = "receipt" /\ "receipt" \in Steps
      BY <1>1, <2>5, Known, GoesIs, HolderSteps DEF Inside
    <3>2. Fit("admin")'
      BY <1>1, <3>1, RestoreFits
    <3> QED
      BY <1>1, <2>2, <2>3, <2>4, <2>5, <3>1, <3>2, HolderGoes DEF Inside
  <2>6. CASE Leaves("admin") /\ fence' = unheld
    <3>1. Move("admin") /\ actor'["admin"].step \in Outside /\ NoLocks(actor'["admin"])
      BY <1>1, <2>6, Known, LeavesIs DEF Outside
    <3> QED
      BY <1>1, <1>4, <2>2, <2>3, <2>4, <2>6, <3>1, HolderLeaves DEF Inside
  <2> QED
    BY <1>7, <2>5, <2>6
<1>8. CASE Leaves("admin") /\ fence' = unheld /\ UNCHANGED <<life, account>>
  <2>1. Lasting'
    BY <1>3, <1>4, <1>5, <1>6, <1>8, Parts DEF Lasting, ActiveLife
  <2>2. Move("admin") /\ actor'["admin"].step \in Outside /\ NoLocks(actor'["admin"])
    BY <1>1, <1>8, Known, LeavesIs DEF Outside
  <2> QED
    BY <1>1, <1>4, <1>6, <1>8, <2>1, <2>2, Parts, HolderLeaves DEF Inside, Typed
<1> QED
  BY <1>7, <1>8 DEF CreateAction

----------------------------------------------------------------------------
(* process_claim.                                                          *)

LEMMA PublishHoldKeeps ==
  ASSUME ErasureInv, NEW e \in Actors, PublishHold(e)
  PROVE  ErasureInv'
<1>1. fence' \in [inode : Nat, held : BOOLEAN] /\ fence'.inode = fence.inode /\ fence'.held = TRUE
  BY Known DEF PublishHold, Typed
<1>2. "inventory" \in Steps /\ actor'[e].step = "inventory"
  BY Known, GoesIs, HolderSteps DEF PublishHold, Inside
<1>3. Fit(e)'
  BY <1>1, <1>2 DEF Fit, Released, Cleaned, Gone, Marked
<1>4. fence.inode # 0
  BY HolderFence DEF PublishHold, At, Inside
<1>5. Lasting'
  BY <1>1, <1>4, Known DEF PublishHold, inDatabase, Lasting, ActiveLife
<1> QED
  BY <1>1, <1>2, <1>3, <1>5, Known, HolderGoes DEF PublishHold, inDatabase, At, Inside, Typed

LEMMA InventoryKeeps ==
  ASSUME ErasureInv, NEW e \in Actors, Inventory(e)
  PROVE  ErasureInv'
<1>1. /\ actor[e].step = "inventory" /\ Owned(e)
      /\ UNCHANGED <<fence, account, remote, boundary, files, snapshot, spent>>
  BY DEF Inventory, At
<1>2. CASE Drops(e, "block") /\ UNCHANGED life
  BY <1>1, <1>2, HolderDrops DEF inDatabase, Inside
<1>3. CASE Goes(e, "unlink") /\ ((life.released /\ life' = life) \/ life' = [life EXCEPT !.released = TRUE])
  <2>1. "unlink" \in Steps /\ actor'[e].step = "unlink"
    BY <1>3, Known, GoesIs, HolderSteps DEF Inside
  <2>2. life' \in Life /\ life'.released = TRUE /\ life'.removed = life.removed
        /\ life'.state = life.state
    BY <1>3, Known DEF Typed, Life
  <2>3. fence.held
    BY <1>1, Known DEF Fit, Marked
  <2>4. Fit(e)'
    BY <1>1, <2>1, <2>2, <2>3 DEF Fit, Released, Cleaned, Gone, Marked
  <2>5. fence.inode # 0
    BY <1>1, HolderFence DEF Inside
  <2>6. Lasting'
    BY <1>1, <2>2, <2>5, Known DEF Owned, Lasting, ActiveLife
  <2> QED
    BY <1>1, <1>3, <2>1, <2>2, <2>4, <2>6, Known, HolderGoes DEF Inside, Typed
<1> QED
  BY <1>2, <1>3 DEF Inventory

LEMMA UnlinkFilesKeeps ==
  ASSUME ErasureInv, NEW e \in Actors, UnlinkFiles(e)
  PROVE  ErasureInv'
<1>1. "object" \in Steps /\ actor'[e].step = "object"
  BY Known, GoesIs, HolderSteps DEF UnlinkFiles, Inside
<1>2. Fit(e)'
  BY <1>1, Known DEF UnlinkFiles, At, inDatabase, Fit, Released, Cleaned, Gone, Marked
<1>3. fence.inode # 0
  BY HolderFence DEF UnlinkFiles, At, Inside
<1>4. Lasting'
  BY <1>3, Known DEF UnlinkFiles, inDatabase, Lasting, ActiveLife
<1> QED
  BY <1>1, <1>2, <1>4, Known, HolderGoes DEF UnlinkFiles, inDatabase, At, Inside, Typed
\* The provider object and the authentication identity are removed by the same steps.
Removals == {<<"object", "objectSent", "objectGone", "scan">>, <<"auth", "authSent", "authGone", "finish">>}

LEMMA RemovalFits ==
  ASSUME NEW e \in Actors, Fit(e), UNCHANGED <<fence, life, files>>,
         \/ /\ actor[e].step \in {"object", "objectSent", "objectGone", "scan"}
            /\ actor'[e].step \in {"objectSent", "objectGone", "scan", "subject"}
         \/ /\ actor[e].step \in {"auth", "authSent", "authGone"}
            /\ actor'[e].step \in {"authSent", "authGone", "finish"}
  PROVE  Fit(e)'
BY DEF Fit, Released, Cleaned, Gone, Marked

LEMMA SetThere ==
  ASSUME remote \in Remote, NEW r \in {"object", "auth"}, NEW there \in BOOLEAN,
         there => remote[r].there, remote' = [remote EXCEPT ![r].there = there]
  PROVE  remote' \in Remote /\ \A q \in {"object", "auth"} : remote'[q].there => remote[q].there
BY DEF Remote

LEMMA SetState ==
  ASSUME remote \in Remote, NEW r \in {"object", "auth"}, NEW state \in {"intent", "verified"},
         remote' = [remote EXCEPT ![r].state = state]
  PROVE  remote' \in Remote /\ \A q \in {"object", "auth"} : remote'[q].there => remote[q].there
BY DEF Remote

LEMMA RemoteLasts ==
  ASSUME ErasureInv, NEW e \in Actors, actor[e].step \in Inside, remote' \in Remote,
         \A q \in {"object", "auth"} : remote'[q].there => remote[q].there,
         UNCHANGED <<fence, account, life, boundary, files, snapshot>>, spent' \in Spent,
         spent'.died = spent.died
  PROVE  Lasting'
<1>1. DOMAIN remote = {"object", "auth"} /\ DOMAIN remote' = {"object", "auth"}
  BY Parts DEF Typed, Remote
<1>2. fence.inode # 0
  BY HolderFence
<1> QED
  BY <1>1, <1>2, Parts DEF Lasting, ActiveLife

LEMMA IntendKeeps ==
  ASSUME ErasureInv, NEW e \in Actors, NEW r, NEW sent, NEW gone, NEW next,
         <<r, sent, gone, next>> \in Removals, Intend(e, r, sent, gone)
  PROVE  ErasureInv'
<1>1. /\ r \in {"object", "auth"} /\ r \in Inside /\ sent \in Inside /\ gone \in Inside
      /\ actor[e].step = r /\ UNCHANGED <<fence, account, life, boundary, files, snapshot, spent>>
  BY DEF Removals, Intend, At, Inside
<1>2. CASE Drops(e, "block") /\ UNCHANGED remote
  BY <1>1, <1>2, HolderDrops DEF inDatabase
<1>3. CASE \/ Goes(e, sent) /\ remote' = [remote EXCEPT ![r].state = "intent"]
           \/ Goes(e, gone) /\ UNCHANGED remote
  <2>1. remote' \in Remote /\ \A q \in {"object", "auth"} : remote'[q].there => remote[q].there
    BY <1>1, <1>3, Parts, SetState DEF Typed
  <2>2. Lasting'
    BY <1>1, <2>1, Parts, RemoteLasts
  <2>3. PICK step \in {sent, gone} : Goes(e, step)
    BY <1>3
  <2>4. step \in Steps /\ step \in Inside /\ actor'[e].step = step
    BY <1>1, <2>3, Known, GoesIs, HolderSteps
  <2>5. Fit(e)'
    BY <1>1, <2>3, <2>4, Known, RemovalFits DEF Removals
  <2> QED
    BY <1>1, <2>1, <2>2, <2>3, <2>4, <2>5, Parts, HolderGoes DEF Typed
<1> QED
  BY <1>2, <1>3 DEF Intend

LEMMA RemoveRemoteKeeps ==
  ASSUME ErasureInv, NEW e \in Actors, NEW r, NEW sent, NEW gone, NEW next,
         <<r, sent, gone, next>> \in Removals, RemoveRemote(e, r, sent, gone)
  PROVE  ErasureInv'
<1>1. /\ r \in {"object", "auth"} /\ sent \in Inside /\ gone \in Inside
      /\ actor[e].step = sent /\ UNCHANGED <<fence, account, life, boundary, files, snapshot>>
  BY DEF Removals, RemoveRemote, At, Inside
<1>2. remote[r].there \in BOOLEAN
  BY <1>1, Parts DEF Typed, Remote
<1>3. CASE remote' = [remote EXCEPT ![r].there = FALSE] /\ Goes(e, gone) /\ UNCHANGED spent
  <2>1. remote' \in Remote /\ \A q \in {"object", "auth"} : remote'[q].there => remote[q].there
    BY <1>1, <1>3, Parts, SetThere DEF Typed
  <2>2. Lasting'
    BY <1>1, <1>3, <2>1, Parts, RemoteLasts
  <2>3. gone \in Steps /\ actor'[e].step = gone
    BY <1>1, <1>3, Known, GoesIs, HolderSteps
  <2>4. Fit(e)'
    BY <1>1, <2>3, Known, RemovalFits DEF Removals
  <2> QED
    BY <1>1, <1>3, <2>1, <2>2, <2>3, <2>4, Parts, HolderGoes DEF Typed
<1>4. CASE UNCHANGED remote /\ Drops(e, "block") /\ UNCHANGED spent
  BY <1>1, <1>4, HolderDrops DEF inDatabase
<1>5. CASE \E there \in {FALSE, remote[r].there} :
             remote' = [remote EXCEPT ![r].there = there] /\ Drops(e, "retry") /\ Fails
  <2>1. remote' \in Remote /\ \A q \in {"object", "auth"} : remote'[q].there => remote[q].there
    BY <1>1, <1>2, <1>5, Parts, SetThere DEF Typed
  <2>2. spent' \in Spent /\ spent'.died = spent.died
    BY <1>5, Parts, FailsIs
  <2>3. Lasting'
    BY <1>1, <2>1, <2>2, RemoteLasts
  <2>4. Move(e) /\ actor'[e].step \in Outside /\ NoLocks(actor'[e])
    BY <1>5, Known, DropsIs DEF Outside
  <2> QED
    BY <1>1, <2>1, <2>2, <2>3, <2>4, Parts, HolderLeaves DEF Typed
<1> QED
  BY <1>3, <1>4, <1>5 DEF RemoveRemote

LEMMA VerifyRemoteKeeps ==
  ASSUME ErasureInv, NEW e \in Actors, NEW r, NEW sent, NEW gone, NEW next,
         <<r, sent, gone, next>> \in Removals, VerifyRemote(e, r, gone, next)
  PROVE  ErasureInv'
<1>1. /\ r \in {"object", "auth"} /\ gone \in Inside /\ next \in Inside
      /\ actor[e].step = gone /\ UNCHANGED <<fence, account, life, boundary, files, snapshot, spent>>
      /\ remote' = [remote EXCEPT ![r].state = "verified"] /\ Goes(e, next)
  BY DEF Removals, VerifyRemote, At, Inside
<1>2. remote' \in Remote /\ \A q \in {"object", "auth"} : remote'[q].there => remote[q].there
  BY <1>1, Parts, SetState DEF Typed
<1>3. Lasting'
  BY <1>1, <1>2, Parts, RemoteLasts
<1>4. next \in Steps /\ actor'[e].step = next
  BY <1>1, Known, GoesIs, HolderSteps
<1>5. Fit(e)'
  BY <1>1, <1>4, Known, RemovalFits DEF Removals
<1> QED
  BY <1>1, <1>2, <1>3, <1>4, <1>5, Parts, HolderGoes DEF Typed

LEMMA ScanKeeps ==
  ASSUME ErasureInv, NEW e \in Actors, Scan(e)
  PROVE  ErasureInv'
<1>1. actor[e].step = "scan" /\ UNCHANGED <<fence, inDatabase, files, snapshot, spent>>
  BY DEF Scan, At
<1>2. CASE Drops(e, "block")
  BY <1>1, <1>2, HolderDrops DEF Inside
<1>3. CASE Goes(e, "subject")
  <2>1. "subject" \in Steps /\ actor'[e].step = "subject"
    BY <1>3, Known, GoesIs, HolderSteps DEF Inside
  <2>2. Fit(e)'
    BY <1>1, <2>1, Known, RemovalFits DEF inDatabase
  <2> QED
    BY <1>1, <1>3, <2>1, <2>2, Parts, HolderGoesOn DEF Inside
<1> QED
  BY <1>2, <1>3 DEF Scan

LEMMA RemoveSubjectKeeps ==
  ASSUME ErasureInv, NEW e \in Actors, RemoveSubject(e)
  PROVE  ErasureInv'
<1>1. /\ actor[e].step = "subject" /\ Owned(e) /\ Goes(e, "auth") /\ account' = "gone"
      /\ UNCHANGED <<fence, remote, boundary, files, snapshot, spent>>
  BY DEF RemoveSubject, At
<1>2. life' \in Life /\ life'.removed = TRUE /\ life'.released = life.released /\ life'.state = life.state
  BY Parts DEF RemoveSubject, Typed, Life
<1>3. life.released /\ ~files /\ fence.held
  BY <1>1, Known DEF Fit, Released, Cleaned, Marked
<1>4. "auth" \in Steps /\ actor'[e].step = "auth"
  BY <1>1, Known, GoesIs, HolderSteps DEF Inside
<1>5. Fit(e)'
  BY <1>1, <1>2, <1>3, <1>4 DEF Fit, Released, Cleaned, Gone, Marked
<1>6. fence.inode # 0
  BY <1>1, HolderFence DEF Inside
<1>7. Lasting'
  BY <1>1, <1>2, <1>3, <1>6, Parts DEF Owned, Lasting, ActiveLife
<1> QED
  BY <1>1, <1>2, <1>4, <1>5, <1>7, Parts, HolderGoes DEF Inside, Typed

LEMMA EraseKeeps ==
  ASSUME ErasureInv, NEW e \in Actors, Erase(e)
  PROVE  ErasureInv'
<1>1. /\ <<"object", "objectSent", "objectGone", "scan">> \in Removals
      /\ <<"auth", "authSent", "authGone", "finish">> \in Removals
  BY DEF Removals
<1> QED
  BY <1>1, PublishHoldKeeps, InventoryKeeps, UnlinkFilesKeeps, IntendKeeps, RemoveRemoteKeeps,
     VerifyRemoteKeeps, ScanKeeps, RemoveSubjectKeeps DEF Erase
----------------------------------------------------------------------------
(* finish_account_fence with _complete_claim.                              *)

LEMMA RetireFenceMoves ==
  ASSUME ErasureInv, NEW e \in Actors,
         actor' = [actor EXCEPT ![e].step = "reserve", ![e].registry = "ex"]
  PROVE  /\ Move(e) /\ actor'[e].step = "reserve" /\ actor'[e].registry = "ex"
         /\ actor'[e].inode = actor[e].inode /\ actor'[e].mode = actor[e].mode
<1> DEFINE row == [actor[e] EXCEPT !.step = "reserve", !.registry = "ex"]
<1>1. actor \in [Actors -> Row] /\ actor[e] \in Row
  BY Known DEF Typed
<1>2. "reserve" \in Steps
  BY DEF Steps, EraserSteps
<1>3. /\ row \in Row /\ row.step = "reserve" /\ row.registry = "ex"
      /\ row.inode = actor[e].inode /\ row.mode = actor[e].mode
  BY <1>1, <1>2 DEF Row
<1>4. actor' = [actor EXCEPT ![e] = row]
  BY <1>1
<1> QED
  BY <1>3, <1>4, Known, RowMoves

LEMMA RetireFenceKeeps ==
  ASSUME ErasureInv, NEW e \in Actors, RetireFence(e)
  PROVE  ErasureInv'
<1>1. /\ actor[e].step = "finish" /\ UNCHANGED <<inDatabase, files, snapshot, spent>>
      /\ actor[e].inode # 0 /\ actor[e].mode = "ex" /\ actor[e].registry = "none"
  BY Known DEF RetireFence, At, Holds, Inside
<1>2. CASE Drops(e, "retry") /\ UNCHANGED fence
  BY <1>1, <1>2, HolderDrops DEF Inside
<1>3. CASE /\ RegistryFree(e, "ex")
           /\ fence' = [fence EXCEPT !.inode = 0, !.held = FALSE]
           /\ actor' = [actor EXCEPT ![e].step = "reserve", ![e].registry = "ex"]
  <2>1. fence' \in [inode : Nat, held : BOOLEAN] /\ fence'.inode = 0
    BY <1>3, Parts DEF Typed
  <2>2. /\ Move(e) /\ actor'[e].step = "reserve" /\ actor'[e].registry = "ex"
        /\ actor'[e].inode = actor[e].inode /\ actor'[e].mode = actor[e].mode
    BY <1>3, RetireFenceMoves
  <2>3. Holds(actor'[e])
    BY <1>1, <2>2 DEF Holds, Outside, Inside, Finishing
  <2>4. Locked'
    BY <1>1, <1>3, <2>1, <2>2, <2>3, Parts, RetiresLocked
  <2>5. Fit(e)'
    BY <1>1, <2>2, Known DEF inDatabase, Fit, Released, Cleaned, Gone, Marked
  <2>6. Lasting'
    BY <1>1, <2>1, <2>2, Parts DEF inDatabase, Lasting, ActiveLife
  <2>7. Typed'
    BY <1>1, <2>1, <2>2, Parts, OthersStay DEF inDatabase, Typed
  <2> QED
    BY <1>1, <2>2, <2>4, <2>5, <2>6, <2>7, HolderStep
<1> QED
  BY <1>2, <1>3 DEF RetireFence

\* A finish that fails goes to the restore of the hold.
LEMMA RestoreKeeps ==
  ASSUME ErasureInv, NEW e \in Actors, actor[e].step \in Finishing, Goes(e, "restore"),
         Fails \/ UNCHANGED spent, UNCHANGED <<fence, inDatabase, files, snapshot>>
  PROVE  ErasureInv'
<1>1. "restore" \in Steps /\ actor'[e].step = "restore"
  BY Known, GoesIs, HolderSteps DEF Finishing
<1>2. Fit(e)'
  BY <1>1, RestoreFits
<1>3. spent' \in Spent /\ spent'.died = spent.died
  BY Parts, FailsIs
<1> QED
  BY <1>1, <1>2, <1>3, HolderGoesOn DEF Finishing

\* The holder of the registry.
LEMMA FinisherHolds ==
  ASSUME ErasureInv, NEW e \in Actors, actor[e].step \in Finishing
  PROVE  actor[e].registry = "ex" /\ fence.inode = 0
BY Known DEF Holds, Locked

LEMMA ReserveEpochKeeps ==
  ASSUME ErasureInv, NEW e \in Actors, ReserveEpoch(e)
  PROVE  ErasureInv'
<1>1. /\ actor[e].step = "reserve" /\ UNCHANGED <<fence, account, life, remote, files, snapshot>>
  BY DEF ReserveEpoch, At
<1>2. CASE Goes(e, "restore") /\ UNCHANGED boundary /\ (Fails \/ UNCHANGED spent)
  BY <1>1, <1>2, RestoreKeeps DEF inDatabase, Finishing
<1>3. CASE /\ boundary' = [boundary EXCEPT !.allocated = @ + 1]
           /\ Goes(e, "floor") /\ UNCHANGED spent
  <2>1. boundary' \in Boundary /\ boundary'.allocated = boundary.allocated + 1
        /\ boundary'.floor = boundary.floor /\ boundary.allocated \in Nat /\ boundary.floor \in Nat
    BY <1>3, Parts DEF Typed, Boundary
  <2>2. "floor" \in Steps /\ actor'[e].step = "floor"
    BY <1>3, Known, GoesIs, HolderSteps DEF Finishing
  <2>3. /\ snapshot.step # "none" => snapshot.epoch <= boundary.allocated
        /\ boundary.floor <= boundary.allocated /\ snapshot.epoch \in Nat
    BY Parts DEF Lasting, Typed, Snapshot
  <2>4. Fit(e)'
    BY <1>1, <2>1, <2>2, <2>3, Known DEF Fit, Released, Cleaned, Gone, Marked
  <2>5. \E a \in Actors : actor'[a].registry = "ex"
    BY <1>1, <1>3, <2>2, Known, GoesIs, FinisherHolds DEF SameLocks, Finishing
  <2>6. Lasting'
    BY <1>1, <1>3, <2>1, <2>3, <2>5, Parts DEF Lasting, ActiveLife
  <2> QED
    BY <1>1, <1>3, <2>1, <2>2, <2>4, <2>6, Parts, HolderGoes DEF Finishing, Typed
<1> QED
  BY <1>2, <1>3 DEF ReserveEpoch

LEMMA PublishFloorKeeps ==
  ASSUME ErasureInv, NEW e \in Actors, PublishFloor(e)
  PROVE  ErasureInv'
<1>1. /\ actor[e].step = "floor" /\ UNCHANGED <<fence, account, life, remote, files, snapshot>>
  BY DEF PublishFloor, At
<1>2. CASE Goes(e, "restore") /\ UNCHANGED boundary /\ Fails
  BY <1>1, <1>2, RestoreKeeps DEF inDatabase, Finishing
<1>3. CASE /\ boundary' = [boundary EXCEPT !.floor = boundary.allocated]
           /\ Goes(e, "complete") /\ UNCHANGED spent
  <2>1. boundary' \in Boundary /\ boundary'.allocated = boundary.allocated
        /\ boundary'.floor = boundary.allocated /\ boundary.allocated \in Nat /\ boundary.floor \in Nat
    BY <1>3, Parts DEF Typed, Boundary
  <2>2. "complete" \in Steps /\ actor'[e].step = "complete"
    BY <1>3, Known, GoesIs, HolderSteps DEF Finishing
  <2>3. Fit(e)'
    BY <1>1, <2>1, <2>2, Known DEF Fit, Released, Cleaned, Gone, Marked
  <2>4. \E a \in Actors : actor'[a].registry = "ex"
    BY <1>1, <1>3, <2>2, Known, GoesIs, FinisherHolds DEF SameLocks, Finishing
  <2>5. snapshot.epoch \in Nat
    BY Parts DEF Typed, Snapshot
  <2>6. Lasting'
    BY <1>1, <1>3, <2>1, <2>4, <2>5, Parts DEF Lasting, ActiveLife
  <2> QED
    BY <1>1, <1>3, <2>1, <2>2, <2>3, <2>6, Parts, HolderGoes DEF Finishing, Typed
<1> QED
  BY <1>2, <1>3 DEF PublishFloor

LEMMA CompleteKeeps ==
  ASSUME ErasureInv, NEW e \in Actors, Complete(e)
  PROVE  ErasureInv'
<1>1. /\ actor[e].step = "complete" /\ UNCHANGED <<fence, account, remote, files, snapshot>>
      /\ fence.inode = 0 /\ actor[e].registry = "ex"
  BY FinisherHolds DEF Complete, At, Finishing
<1>2. CASE Goes(e, "restore") /\ UNCHANGED <<life, boundary>> /\ (Fails \/ UNCHANGED spent)
  BY <1>1, <1>2, RestoreKeeps DEF inDatabase, Finishing
<1>3. CASE /\ life.removed /\ \A r \in DOMAIN remote : remote[r] = [there |-> FALSE, state |-> "verified"]
           /\ life' = [NoLife EXCEPT !.no = life.no, !.state = "completed"]
           /\ boundary' = [boundary EXCEPT !.committed = boundary.allocated]
           /\ (Leaves(e) /\ UNCHANGED spent) \/ (Goes(e, "restore") /\ Fails)
  <2>1. life' \in Life /\ life'.state = "completed" /\ ~life'.released /\ ~life'.removed
    BY <1>3, Parts DEF Typed, Life, LifeStates, NoLife
  <2>2. boundary' \in Boundary /\ boundary'.allocated = boundary.allocated
        /\ boundary'.floor = boundary.floor
    BY <1>3, Parts DEF Typed, Boundary
  <2>3. account = "gone" /\ ~files
    BY <1>1, <1>3, Known DEF Lasting, Fit, Cleaned, Gone
  <2>4. \A r \in DOMAIN remote : ~remote[r].there
    BY <1>3
  <2>5. /\ boundary.floor = boundary.allocated
        /\ snapshot.step # "none" => snapshot.epoch < boundary.allocated
    BY <1>1, Known DEF Fit
  <2>6. Lasting'
    BY <1>1, <2>1, <2>2, <2>3, <2>4, <2>5, Parts DEF Lasting, ActiveLife
  <2>7. CASE Leaves(e) /\ UNCHANGED spent
    <3>1. Move(e) /\ actor'[e].step \in Outside /\ NoLocks(actor'[e])
      BY <2>7, Known, LeavesIs DEF Outside
    <3> QED
      BY <1>1, <2>1, <2>2, <2>6, <2>7, <3>1, Parts, HolderLeaves DEF Finishing, Typed
  <2>8. CASE Goes(e, "restore") /\ Fails
    <3>1. "restore" \in Steps /\ actor'[e].step = "restore"
      BY <2>8, Known, GoesIs, HolderSteps DEF Finishing
    <3>2. Fit(e)'
      BY <3>1, RestoreFits
    <3>3. spent' \in Spent
      BY <2>8, Parts, FailsIs
    <3> QED
      BY <1>1, <2>1, <2>2, <2>6, <2>8, <3>1, <3>2, <3>3, Parts, HolderGoes DEF Finishing, Typed
  <2> QED
    BY <1>3, <2>7, <2>8
<1> QED
  BY <1>2, <1>3 DEF Complete

LEMMA RestoreHoldKeeps ==
  ASSUME ErasureInv, NEW e \in Actors, RestoreHold(e)
  PROVE  ErasureInv'
<1>1. /\ actor[e].step = "restore" /\ UNCHANGED <<inDatabase, files, snapshot, spent>>
      /\ actor[e].registry = "ex"
  BY FinisherHolds DEF RestoreHold, At, Finishing
<1>2. \A b \in Actors : b # e => actor[b].inode = 0
  BY <1>1, Parts DEF Locked
<1>3. fence' \in [inode : Nat, held : BOOLEAN] /\ fence'.inode # 0 /\ fence'.held = TRUE
  BY <1>2, FreshInode DEF RestoreHold, RestoredFence
<1>4. Move(e) /\ actor'[e].step \in Outside /\ NoLocks(actor'[e])
  BY Known, LeavesIs DEF RestoreHold, Outside
<1>5. Lasting'
  BY <1>1, <1>3, Parts DEF inDatabase, Lasting, ActiveLife
<1> QED
  BY <1>1, <1>3, <1>4, <1>5, Parts, HolderLeaves DEF inDatabase, Finishing, Typed

LEMMA FinishKeeps ==
  ASSUME ErasureInv, NEW e \in Actors, Finish(e)
  PROVE  ErasureInv'
BY RetireFenceKeeps, ReserveEpochKeeps, PublishFloorKeeps, CompleteKeeps, RestoreHoldKeeps,
   EndClaimKeeps DEF Finish

----------------------------------------------------------------------------
(* The archive.                                                            *)

\* While an erasure is about to publish its floor, no boundary can be captured.
LEMMA NoCaptureInFinish ==
  ASSUME ErasureInv, NEW a \in Actors, Capturable
  PROVE  actor[a].step \notin Released
BY Known DEF Fit, Lasting, Capturable, ErasureInProgress

LEMMA ArchiveKeeps == ASSUME ErasureInv, CaptureBefore \/ TakeArchive \/ Seal PROVE ErasureInv'
<1>1. UNCHANGED <<fence, actor, inDatabase, files, spent>>
  BY DEF CaptureBefore, TakeArchive, Seal
<1>2. CASE CaptureBefore
  <2>1. /\ snapshot' \in Snapshot /\ snapshot'.epoch = boundary.floor /\ snapshot'.step = "before"
    BY <1>2, Parts DEF CaptureBefore, Typed, Snapshot, Boundary
  <2>2. \A a \in Actors : actor[a].step \notin Released
    BY <1>2, NoCaptureInFinish DEF CaptureBefore
  <2>3. \A a \in Actors : Fit(a)'
    BY <1>1, <2>2, Known DEF inDatabase, Fit, Released, Cleaned, Gone
  <2>4. Lasting'
    BY <1>1, <2>1, Parts DEF inDatabase, Lasting, ActiveLife
  <2> QED
    BY <1>1, <2>1, <2>3, <2>4, Parts DEF inDatabase, ErasureInv, Typed, Locked
<1>3. CASE TakeArchive \/ Seal
  <2>1. /\ snapshot' \in Snapshot /\ snapshot'.epoch = snapshot.epoch
        /\ snapshot.step # "none" /\ snapshot'.step \in {"archived", "sealed"}
        /\ snapshot'.data => account # "gone" \/ files \/ (snapshot.data /\ snapshot.step = "archived")
    BY <1>3, Parts DEF TakeArchive, Seal, Typed, Snapshot
  <2>2. \A a \in Actors : Fit(a)'
    BY <1>1, <2>1, Known DEF inDatabase, Fit
  <2>3. Lasting'
    BY <1>1, <2>1, Parts DEF inDatabase, Lasting, ActiveLife
  <2> QED
    BY <1>1, <2>1, <2>2, <2>3, Parts DEF inDatabase, ErasureInv, Typed, Locked
<1> QED
  BY <1>2, <1>3
----------------------------------------------------------------------------
(* The theorems.                                                           *)

LEMMA InitInv == ErasureInit => ErasureInv
<1> SUFFICES ASSUME ErasureInit PROVE ErasureInv
  OBVIOUS
<1>1. \A a \in Actors : actor[a] = Idle
  BY DEF ErasureInit
<1>2. Typed
  <2>1. actor \in [Actors -> Row]
    BY IdleIsRow DEF ErasureInit
  <2>2. life \in Life /\ remote \in Remote /\ boundary \in Boundary /\ snapshot \in Snapshot
    BY DEF ErasureInit, NoLife, Life, LifeStates, Remote, Boundary, Snapshot
  <2>3. spent \in Spent
    BY ErasureConstants DEF ErasureInit, Spent
  <2> QED
    BY <2>1, <2>2, <2>3 DEF ErasureInit, Typed
<1>3. Locked
  BY <1>1 DEF Locked, Holds, Idle, Outside, Inside, Finishing
<1>4. \A a \in Actors : Fit(a)
  BY <1>1 DEF Fit, Idle, Released, Cleaned, Gone, Marked
<1>5. Lasting
  BY DEF ErasureInit, NoLife, Lasting, ActiveLife
<1> QED
  BY <1>2, <1>3, <1>4, <1>5 DEF ErasureInv

LEMMA ErasureStep == ErasureInv /\ [ErasureNext]_erasureVars => ErasureInv'
<1> SUFFICES ASSUME ErasureInv, [ErasureNext]_erasureVars PROVE ErasureInv'
  OBVIOUS
<1>1. "admin" \in Actors /\ Writers \subseteq Actors /\ Erasers \subseteq Actors
  BY DEF Actors
<1>2. CASE \E w \in Writers : BeginWork(w) \/ AccountLock(w) \/ WriteFile(w) \/ EndWork(w)
  BY <1>1, <1>2, BeginWorkKeeps, AccountLockKeeps, WriteFileKeeps, EndWorkKeeps
<1>3. CASE \E wish \in {"deactivate", "delete", "reactivate"} : BeginAction(wish)
  BY <1>3, BeginActionKeeps
<1>4. CASE AccountLock("admin") \/ Act \/ Resume \/ DeadlinePasses
  BY <1>1, <1>4, AccountLockKeeps, PublishEnrollingKeeps, CreateActionKeeps, PublishReceiptKeeps,
     ReactivateAccountKeeps, ReleaseHoldKeeps, ResumeKeeps, DeadlinePassesKeeps DEF Act
<1>5. CASE \E e \in Erasers : EraserStep(e)
  BY <1>1, <1>5, ClaimErasureKeeps, AccountLockKeeps, EraseKeeps, FinishKeeps, CallLostKeeps,
     ProviderUnavailableKeeps DEF EraserStep
<1>6. CASE CaptureBefore \/ TakeArchive \/ Seal
  BY <1>6, ArchiveKeeps
<1>7. CASE LeaseRunsOut
  BY <1>7, LeaseRunsOutKeeps
<1>8. CASE \E a \in Actors : Dies(a)
  BY <1>8, DiesKeeps
<1>9. CASE UNCHANGED erasureVars
  BY <1>9 DEF erasureVars, inDatabase, ErasureInv, Typed, Locked, Holds, Fit, Lasting, ActiveLife
<1> QED
  BY <1>2, <1>3, <1>4, <1>5, <1>6, <1>7, <1>8, <1>9 DEF ErasureNext

\* The invariant of the erasure holds in every reachable state.
THEOREM ErasureInvariant == ErasureSpec => []ErasureInv
BY InitInv, ErasureStep, PTL DEF ErasureSpec

\* The state of the locks, the rows, the data and the archive has its type.
THEOREM ErasureTypeCorrect == ErasureSpec => []ErasureTypeOK
<1>1. ErasureInv => ErasureTypeOK
  BY TypedIsTypeOK DEF ErasureInv
<1> QED
  BY <1>1, ErasureInvariant, PTL

\* Work of the account and an exclusive action of the administrator or an eraser never
\* overlap, however often the lock file is unlinked and made again (account_lock).
THEOREM WorkNeverMeetsErasure == ErasureSpec => []WorkExcluded
<1>1. ErasureInv => WorkExcluded
  BY DEF ErasureInv, Locked, Holds, WorkExcluded, Working, At, Alone, Actors
<1> QED
  BY <1>1, ErasureInvariant, PTL

\* When the erasure is completed neither files nor the identity nor the object at the
\* provider are left, and none of them ever comes back (finish_account_fence).
THEOREM NothingComesBack == ErasureSpec => []NothingResurrected
<1>1. ErasureInv => NothingResurrected
  BY DEF ErasureInv, Lasting, NothingResurrected
<1> QED
  BY <1>1, ErasureInvariant, PTL

\* A snapshot with data of the account is never admitted for a restore once the erasure
\* is completed (capture_boundary, verify_restore).
THEOREM SnapshotsStayErased == ErasureSpec => []ErasedStaysErased
<1>1. ErasureInv => ErasedStaysErased
  <2> SUFFICES ASSUME ErasureInv, RestoreVerified, life.state = "completed", snapshot.data
               PROVE  FALSE
    BY DEF ErasedStaysErased
  <2>1. snapshot.epoch < boundary.floor /\ snapshot.epoch = boundary.floor
    BY Parts DEF Lasting, RestoreVerified
  <2>2. boundary.floor \in Nat
    BY Parts DEF Typed, Boundary
  <2> QED
    BY <2>1, <2>2
<1> QED
  BY <1>1, ErasureInvariant, PTL

\* Unless a process dies inside the finish, an account whose subject is removed is held
\* whenever the registry is open, whatever of the finish fails (finish_account_fence).
THEOREM HoldSurvives == ErasureSpec => []HoldRestored
<1>1. ErasureInv => HoldRestored
  BY DEF ErasureInv, Lasting, HoldRestored
<1> QED
  BY <1>1, ErasureInvariant, PTL

----------------------------------------------------------------------------
(* The abstract fence.                                                     *)

Holder == [a \in Actors |-> actor[a].mode]

LEMMA PartiesAreActors == Fence!Parties = Actors
BY DEF Fence!Parties, Actors

\* Only who steps changes what it holds.
LEMMA HolderMoves ==
  ASSUME Typed, NEW a \in Actors, Move(a)
  PROVE  Holder' = [Holder EXCEPT ![a] = actor'[a].mode]
BY OthersStay DEF Holder

LEMMA HolderKept ==
  ASSUME Typed, NEW a \in Actors, Move(a), actor'[a].mode = actor[a].mode
  PROVE  Holder' = Holder
BY OthersStay DEF Holder

LEMMA HolderGives ==
  ASSUME Typed, NEW a \in Actors, Move(a), actor'[a].mode \in {actor[a].mode, "none"}
  PROVE  Holder' \in {Holder, [Holder EXCEPT ![a] = "none"]}
BY HolderMoves, HolderKept

\* The abstract step, or none.
FenceStep == Fence!Next \/ (Holder' = Holder /\ UNCHANGED <<fence.held, account = "gone", files>>)

LEMMA Stays ==
  ASSUME ErasureInv, NEW a \in Actors, Move(a), actor'[a].mode = actor[a].mode,
         fence'.held = fence.held, account' = "gone" <=> account = "gone", files' = files
  PROVE  FenceStep
BY Known, HolderKept DEF FenceStep

\* A process leaves the lock, if it has it.
LEMMA LeavesFence ==
  ASSUME ErasureInv, NEW a \in Actors, Move(a), actor'[a].mode = "none",
         UNCHANGED <<fence, account, files>>
  PROVE  FenceStep
<1>1. CASE actor[a].mode = "none"
  BY <1>1, Stays
<1>2. CASE actor[a].mode # "none"
  <2>1. Holder[a] # "none" /\ Holder' = [Holder EXCEPT ![a] = "none"]
    BY <1>2, Known, HolderMoves DEF Holder
  <2>2. Fence!Leave(a)
    BY <2>1 DEF Fence!Leave, Holder
  <2> QED
    BY <2>2, PartiesAreActors DEF FenceStep, Fence!Next
<1> QED
  BY <1>1, <1>2

\* A process with the exclusive lock changes the marker, removes files, and may leave.
LEMMA ManagesFence ==
  ASSUME ErasureInv, ErasureInv', NEW a \in Actors, a \notin Writers, actor[a].mode = "ex", Move(a),
         actor'[a].mode \in {"ex", "none"}, files' => files,
         account' = "gone" <=> account = "gone"
  PROVE  FenceStep
<1>1. Holder[a] = "ex" /\ Holder' \in {Holder, [Holder EXCEPT ![a] = "none"]}
  BY Known, HolderGives DEF Holder
<1>2. fence'.held \in BOOLEAN /\ files' \in BOOLEAN
  BY DEF ErasureInv, Typed
<1>3. Fence!Manage(a)
  BY <1>1, <1>2 DEF Fence!Manage, Holder
<1> QED
  BY <1>3 DEF FenceStep, Fence!Next, Actors

LEMMA WaitsOutside ==
  ASSUME ErasureInv, NEW a \in Actors, actor[a].step \in Unlocked
  PROVE  actor[a].mode = "none"
BY Known DEF Holds, Unlocked, Outside

LEMMA HasLock ==
  ASSUME ErasureInv, NEW a \in Actors, actor[a].step \in Inside \cup Finishing
  PROVE  actor[a].mode = "ex"
BY Known DEF Holds

LEMMA TakeLockFenced ==
  ASSUME ErasureInv, ErasureInv', NEW a \in Actors, TakeLock(a)
  PROVE  FenceStep
<1>1. actor[a].inode # 0 /\ actor[a].mode = "none" /\ actor[a].registry = "sh"
  BY Known DEF TakeLock, At, Holds
<1>2. Move(a) /\ actor'[a].mode = IF Exclusive(a) THEN "ex" ELSE "sh"
  BY TakeLockMoves
<1>3. Holder' = [Holder EXCEPT ![a] = IF Exclusive(a) THEN "ex" ELSE "sh"] /\ Holder[a] = "none"
  BY <1>1, <1>2, Known, HolderMoves DEF Holder
<1>4. UNCHANGED <<fence, account, files>>
  BY DEF TakeLock, inDatabase
<1>5. CASE Exclusive(a)
  <2>1. \A b \in Actors : b # a => actor'[b].mode = "none" /\ actor[b].mode = actor'[b].mode
    BY <1>2, <1>5, Known, OthersStay DEF ErasureInv, Locked
  <2>2. Fence!Exclude(a)
    BY <1>3, <1>4, <1>5, <2>1, PartiesAreActors DEF Fence!Exclude, Holder
  <2> QED
    BY <1>5, <2>2 DEF FenceStep, Fence!Next, Exclusive, Actors
<1>6. CASE ~Exclusive(a)
  <2>1. \A b \in Actors : actor[b].mode # "ex"
    <3>1. actor'[a].mode = "sh"
      BY <1>2, <1>6
    <3>2. \A b \in Actors : b # a => actor'[b].mode # "ex"
      BY <3>1 DEF ErasureInv, Locked
    <3> QED
      BY <1>1, <1>2, <3>2, Known, OthersStay
  <2>2. ~fence.held
    BY <1>6 DEF TakeLock, Admitted
  <2>3. account # "gone"
    BY <1>1, <2>2, Known DEF Locked, Lasting
  <2>4. Fence!Share(a)
    BY <1>3, <1>4, <1>6, <2>1, <2>2, <2>3, PartiesAreActors DEF Fence!Share, Fence!Excluded, Holder
  <2> QED
    BY <1>6, <2>4 DEF FenceStep, Fence!Next, Exclusive
<1> QED
  BY <1>5, <1>6

LEMMA AccountLockFenced ==
  ASSUME ErasureInv, ErasureInv', NEW a \in Actors, AccountLock(a)
  PROVE  FenceStep
<1>1. CASE EnterRegistry(a)
  BY <1>1, EnterRegistryMoves, Stays DEF EnterRegistry, inDatabase
<1>2. CASE OpenLock(a)
  <2>1. fence'.inode \in Nat /\ fence'.held = fence.held
    BY <1>2, Known DEF OpenLock, Typed, ErasureInv
  <2>2. Move(a) /\ actor'[a].mode = actor[a].mode
    BY <1>2, <2>1, OpenLockMoves DEF OpenLock
  <2> QED
    BY <1>2, <2>1, <2>2, Stays DEF OpenLock, inDatabase
<1>3. CASE TakeLock(a)
  BY <1>3, TakeLockFenced
<1>4. CASE Refused(a)
  <2>1. Move(a) /\ NoLocks(actor'[a])
    BY <1>4, Known, LeavesIs, DropsIs DEF Refused
  <2> QED
    BY <1>4, <2>1, LeavesFence DEF Refused, inDatabase, NoLocks
<1> QED
  BY <1>1, <1>2, <1>3, <1>4 DEF AccountLock

LEMMA WriterFenced ==
  ASSUME ErasureInv, ErasureInv', NEW w \in Writers,
         BeginWork(w) \/ AccountLock(w) \/ WriteFile(w) \/ EndWork(w)
  PROVE  FenceStep
<1>1. w \in Actors
  BY DEF Actors
<1>2. CASE BeginWork(w)
  <2>1. "enter" \in Steps
    BY DEF Steps, WriterSteps
  <2>2. Move(w) /\ actor'[w].mode = actor[w].mode
    BY <1>1, <1>2, <2>1, Known, GoesIs DEF BeginWork, SameLocks
  <2> QED
    BY <1>1, <1>2, <2>2, Stays DEF BeginWork, inDatabase
<1>3. CASE WriteFile(w)
  <2>1. Holder[w] = "sh" /\ Holder' = Holder
    BY <1>1, <1>3, Known DEF WriteFile, At, Holds, Holder
  <2>2. Fence!Write(w)
    BY <1>3, <2>1 DEF Fence!Write, Holder, WriteFile, inDatabase
  <2> QED
    BY <2>2 DEF FenceStep, Fence!Next
<1>4. CASE EndWork(w)
  <2>1. Move(w) /\ actor'[w].mode = "none"
    BY <1>1, <1>4, Known, LeavesIs DEF EndWork, NoLocks
  <2> QED
    BY <1>1, <1>4, <2>1, LeavesFence DEF EndWork, inDatabase
<1> QED
  BY <1>1, <1>2, <1>3, <1>4, AccountLockFenced

\* What an exclusive holder leaves of the lock.
LEMMA HolderStepMoves ==
  ASSUME ErasureInv, NEW a \in Actors, actor[a].mode = "ex",
         \/ Leaves(a)
         \/ \E step \in {"retry", "block"} : Drops(a, step)
         \/ \E step \in Steps : Goes(a, step)
  PROVE  Move(a) /\ actor'[a].mode \in {"ex", "none"}
BY Known, LeavesIs, DropsIs, GoesIs DEF NoLocks, SameLocks

LEMMA AdminFenced ==
  ASSUME ErasureInv, ErasureInv', Act
  PROVE  FenceStep
<1>1. "admin" \in Actors /\ "admin" \notin Writers
  BY ErasureConstants DEF Actors
<1>2. {"create", "receipt", "release"} \subseteq Steps
  BY DEF Steps, AdminSteps
<1>3. actor["admin"].mode = "ex"
  BY <1>1, HasLock DEF Act, PublishEnrolling, CreateAction, PublishReceipt, ReactivateAccount,
                       ReleaseHold, At, Inside
<1>4. Leaves("admin") \/ \E step \in Steps : Goes("admin", step)
  BY <1>2 DEF Act, PublishEnrolling, CreateAction, PublishReceipt, ReactivateAccount, ReleaseHold
<1>5. Move("admin") /\ actor'["admin"].mode \in {"ex", "none"}
  BY <1>1, <1>3, <1>4, HolderStepMoves
<1>6. files' = files
  BY DEF Act, PublishEnrolling, CreateAction, PublishReceipt, ReactivateAccount, ReleaseHold, inDatabase
<1>7. account' = "gone" <=> account = "gone"
  <2>1. CASE CreateAction
    BY <2>1 DEF CreateAction
  <2>2. CASE ReactivateAccount
    <3>1. account = "gone" => life.released \/ life.state = "completed"
      BY Parts DEF Lasting
    <3> QED
      BY <2>2, <3>1 DEF ReactivateAccount
  <2> QED
    BY <2>1, <2>2 DEF Act, PublishEnrolling, PublishReceipt, ReleaseHold, inDatabase
<1> QED
  BY <1>1, <1>3, <1>5, <1>6, <1>7, ManagesFence

\* The subject is removed: the account is closed.
LEMMA SubjectFenced ==
  ASSUME ErasureInv, NEW e \in Erasers, RemoveSubject(e)
  PROVE  FenceStep
<1>1. e \in Actors
  BY DEF Actors
<1>2. fence.held /\ ~files /\ actor[e].mode = "ex"
  BY <1>1, Known, HasLock DEF RemoveSubject, At, Fit, Marked, Cleaned, Inside
<1>3. "auth" \in Steps
  BY DEF Steps, EraserSteps
<1>4. Holder[e] = "ex" /\ Holder' = Holder
  BY <1>1, <1>2, <1>3, Known, GoesIs, HolderKept DEF RemoveSubject, Holder, SameLocks
<1>5. Fence!Close(e)
  BY <1>2, <1>4 DEF Fence!Close, Holder, RemoveSubject
<1> QED
  BY <1>5 DEF FenceStep, Fence!Next

LEMMA EraseFenced ==
  ASSUME ErasureInv, ErasureInv', NEW e \in Erasers, Erase(e)
  PROVE  FenceStep
<1>1. e \in Actors /\ e \notin Writers
  BY ErasureConstants DEF Actors
<1>2. CASE RemoveSubject(e)
  BY <1>2, SubjectFenced
<1>3. CASE ~RemoveSubject(e)
  <2>1. actor[e].mode = "ex"
    BY <1>1, <1>3, HasLock DEF Erase, PublishHold, Inventory, UnlinkFiles, Intend, RemoveRemote,
                               VerifyRemote, Scan, At, Inside
  <2>2. (\E step \in {"retry", "block"} : Drops(e, step)) \/ \E step \in Steps : Goes(e, step)
    BY <1>3 DEF Erase, PublishHold, Inventory, UnlinkFiles, Intend, RemoveRemote, VerifyRemote, Scan,
                Steps, EraserSteps
  <2>3. (files' => files) /\ account' = account
    BY <1>3 DEF Erase, PublishHold, Inventory, UnlinkFiles, Intend, RemoveRemote, VerifyRemote, Scan,
                inDatabase
  <2> QED
    BY <1>1, <2>1, <2>2, <2>3, HolderStepMoves, ManagesFence
<1> QED
  BY <1>2, <1>3

LEMMA FinishFenced ==
  ASSUME ErasureInv, ErasureInv', NEW e \in Erasers, Finish(e)
  PROVE  FenceStep
<1>1. e \in Actors /\ e \notin Writers
  BY ErasureConstants DEF Actors
<1>2. CASE EndClaim(e)
  <2>1. Move(e) /\ actor'[e].mode = "none"
    BY <1>1, <1>2, Known, LeavesIs DEF EndClaim, NoLocks
  <2> QED
    BY <1>1, <1>2, <2>1, LeavesFence DEF EndClaim
<1>3. CASE RetireFence(e) \/ ReserveEpoch(e) \/ PublishFloor(e) \/ Complete(e) \/ RestoreHold(e)
  <2>1. actor[e].mode = "ex"
    BY <1>1, <1>3, HasLock DEF RetireFence, ReserveEpoch, PublishFloor, Complete, RestoreHold, At,
                               Inside, Finishing
  <2>2. files' = files /\ account' = account
    BY <1>3 DEF RetireFence, ReserveEpoch, PublishFloor, Complete, RestoreHold, inDatabase
  <2>3. CASE RetireFence(e) /\ RegistryFree(e, "ex")
    <3>1. Move(e) /\ actor'[e].mode = "ex"
      BY <1>1, <2>1, <2>3, RetireFenceMoves DEF RetireFence
    <3> QED
      BY <1>1, <2>1, <2>2, <3>1, ManagesFence
  <2>4. CASE ~(RetireFence(e) /\ RegistryFree(e, "ex"))
    <3>1. Leaves(e) \/ Drops(e, "retry") \/ \E step \in Steps : Goes(e, step)
      BY <1>3, <2>4 DEF RetireFence, ReserveEpoch, PublishFloor, Complete, RestoreHold, Steps, EraserSteps
    <3> QED
      BY <1>1, <2>1, <2>2, <3>1, HolderStepMoves, ManagesFence
  <2> QED
    BY <2>3, <2>4
<1> QED
  BY <1>2, <1>3 DEF Finish

LEMMA EraserFenced ==
  ASSUME ErasureInv, ErasureInv', NEW e \in Erasers, EraserStep(e)
  PROVE  FenceStep
<1>1. e \in Actors
  BY DEF Actors
<1>2. CASE ClaimErasure(e)
  BY <1>1, <1>2, ClaimErasureMoves, Stays DEF ClaimErasure, SameLocks
<1>3. CASE CallLost(e) \/ ProviderUnavailable(e)
  <2>1. Move(e) /\ actor'[e].mode = "none"
    BY <1>1, <1>3, Known, LeavesIs, DropsIs DEF CallLost, ProviderUnavailable, NoLocks
  <2> QED
    BY <1>1, <1>3, <2>1, LeavesFence DEF CallLost, ProviderUnavailable, inDatabase
<1> QED
  BY <1>1, <1>2, <1>3, AccountLockFenced, EraseFenced, FinishFenced DEF EraserStep

\* What no process does leaves the locks, and what they protect, as they are.
LEMMA UnheldFenced ==
  ASSUME ErasureInv, UNCHANGED <<fence, actor, account, files>>
  PROVE  FenceStep
BY DEF FenceStep, Holder

LEMMA FenceInit == ErasureInit => Fence!Init
BY DEF ErasureInit, Fence!Init, Fence!Parties, Actors, Idle

LEMMA FenceNext == ErasureInv /\ ErasureInv' /\ [ErasureNext]_erasureVars => FenceStep
<1> SUFFICES ASSUME ErasureInv, ErasureInv', [ErasureNext]_erasureVars PROVE FenceStep
  OBVIOUS
<1>1. "admin" \in Actors
  BY DEF Actors
<1>2. CASE \E w \in Writers : BeginWork(w) \/ AccountLock(w) \/ WriteFile(w) \/ EndWork(w)
  BY <1>2, WriterFenced
<1>3. CASE \E wish \in {"deactivate", "delete", "reactivate"} : BeginAction(wish)
  <2>1. PICK wish \in {"deactivate", "delete", "reactivate"} : BeginAction(wish)
    BY <1>3
  <2> QED
    BY <1>1, <2>1, BeginActionMoves, Stays DEF BeginAction, inDatabase, SameLocks
<1>4. CASE AccountLock("admin") \/ Act
  BY <1>1, <1>4, AccountLockFenced, AdminFenced
<1>5. CASE \E e \in Erasers : EraserStep(e)
  BY <1>5, EraserFenced
<1>6. CASE \/ Resume \/ DeadlinePasses \/ CaptureBefore \/ TakeArchive \/ Seal \/ LeaseRunsOut
           \/ UNCHANGED erasureVars
  BY <1>6, UnheldFenced DEF Resume, DeadlinePasses, CaptureBefore, TakeArchive, Seal, LeaseRunsOut,
                            inDatabase, erasureVars
<1>7. CASE \E a \in Actors : Dies(a)
  <2>1. PICK a \in Actors : Dies(a)
    BY <1>7
  <2>2. Move(a) /\ actor'[a].mode = "none"
    BY <2>1, Known, LeavesIs DEF Dies, NoLocks
  <2> QED
    BY <2>1, <2>2, LeavesFence DEF Dies, inDatabase
<1> QED
  BY <1>2, <1>3, <1>4, <1>5, <1>6, <1>7 DEF ErasureNext

\* The lock files that are unlinked and made again, the marker and the users row implement
\* the abstract fence, in which a closed account takes no work (account_lock,
\* finish_account_fence, process_claim).
THEOREM ErasureImplementsFence == ErasureSpec => FenceKept
<1>1. FenceStep => [Fence!Next]_Fence!fenceVars
  BY DEF FenceStep, Fence!fenceVars, Holder
<1>2. ErasureInv /\ ErasureInv' /\ [ErasureNext]_erasureVars => [Fence!Next]_Fence!fenceVars
  BY <1>1, FenceNext
<1> QED
  BY <1>2, FenceInit, ErasureInvariant, PTL DEF ErasureSpec, FenceKept, Fence!Spec

\* The abstract fence keeps what it is there for by itself: whoever excludes is alone, and a
\* closed account is empty and nobody works for it.
THEOREM FenceSuffices == Fence!Spec => []Fence!FenceInv
<1>1. Fence!Init => Fence!FenceInv
  BY DEF Fence!Init, Fence!FenceInv
<1>2. Fence!FenceInv /\ [Fence!Next]_Fence!fenceVars => Fence!FenceInv'
  <2> SUFFICES ASSUME Fence!FenceInv, [Fence!Next]_Fence!fenceVars PROVE Fence!FenceInv'
    OBVIOUS
  <2>1. /\ \A p, q \in Actors : p # q /\ Holder[p] = "ex" => Holder[q] = "none"
        /\ account = "gone" => ~files /\ \A p \in Actors : Holder[p] # "sh"
    BY PartiesAreActors DEF Fence!FenceInv, Holder
  <2>2. ASSUME /\ \A p, q \in Actors : p # q /\ Holder'[p] = "ex" => Holder'[q] = "none"
               /\ account' = "gone" => ~files' /\ \A p \in Actors : Holder'[p] # "sh"
        PROVE  Fence!FenceInv'
    BY <2>2, PartiesAreActors DEF Fence!FenceInv, Holder
  <2>3. ASSUME NEW p \in Actors, Fence!Share(p) \/ Fence!Write(p)
        PROVE  Fence!FenceInv'
    <3>1. CASE Fence!Share(p)
      <4>1. /\ \A q \in Actors : Holder'[q] = IF q = p THEN "sh" ELSE Holder[q]
            /\ \A q \in Actors : Holder[q] # "ex"
            /\ account # "gone" /\ (account' = "gone" <=> account = "gone") /\ files' = files
        BY <3>1, PartiesAreActors DEF Fence!Share, Fence!Excluded, Holder
      <4> QED
        BY <2>1, <2>2, <4>1
    <3>2. CASE Fence!Write(p)
      <4>1. Holder' = Holder /\ Holder[p] = "sh" /\ (account' = "gone" <=> account = "gone")
        BY <3>2 DEF Fence!Write, Holder
      <4> QED
        BY <2>1, <2>2, <4>1
    <3> QED
      BY <2>3, <3>1, <3>2
  <2>4. ASSUME NEW p \in Actors, Fence!Exclude(p) \/ Fence!Manage(p) \/ Fence!Close(p)
        PROVE  Fence!FenceInv'
    <3>1. CASE Fence!Exclude(p)
      <4>1. /\ \A q \in Actors : Holder'[q] = IF q = p THEN "ex" ELSE Holder[q]
            /\ \A q \in Actors : Holder[q] = "none"
            /\ (account' = "gone" <=> account = "gone") /\ files' = files
        BY <3>1, PartiesAreActors DEF Fence!Exclude, Holder
      <4> QED
        BY <2>1, <2>2, <4>1
    <3>2. CASE Fence!Manage(p)
      <4>1. /\ \A q \in Actors : Holder'[q] \in {Holder[q], "none"}
            /\ files' => files
            /\ account' = "gone" <=> account = "gone"
        BY <3>2 DEF Fence!Manage, Holder
      <4>2. \A q, r \in Actors : q # r /\ Holder'[q] = "ex" => Holder'[r] = "none"
        BY <2>1, <4>1
      <4>3. account' = "gone" => ~files' /\ \A q \in Actors : Holder'[q] # "sh"
        BY <2>1, <4>1
      <4> QED
        BY <2>2, <4>2, <4>3
    <3>3. CASE Fence!Close(p)
      <4>1. Holder' = Holder /\ Holder[p] = "ex" /\ ~files /\ files' = files
        BY <3>3 DEF Fence!Close, Holder
      <4>2. \A q \in Actors : Holder'[q] # "sh"
        BY <2>1, <2>4, <4>1
      <4>3. ~files'
        BY <4>1
      <4> QED
        BY <2>1, <2>2, <4>1, <4>2, <4>3
    <3> QED
      BY <2>4, <3>1, <3>2, <3>3
  <2>5. ASSUME NEW p \in Actors, Fence!Leave(p)
        PROVE  Fence!FenceInv'
    <3>1. /\ \A q \in Actors : Holder'[q] \in {Holder[q], "none"}
          /\ files' = files
          /\ account' = "gone" <=> account = "gone"
      BY <2>5 DEF Fence!Leave, Holder
    <3> QED
      BY <2>1, <2>2, <3>1
  <2>6. CASE UNCHANGED Fence!fenceVars
    <3>1. Holder' = Holder /\ files' = files /\ (account' = "gone" <=> account = "gone")
      BY <2>6 DEF Fence!fenceVars, Holder
    <3> QED
      BY <2>1, <2>2, <3>1
  <2> QED
    BY <2>3, <2>4, <2>5, <2>6, PartiesAreActors DEF Fence!Next, Fence!Parties
<1> QED
  BY <1>1, <1>2, PTL DEF Fence!Spec
=============================================================================
