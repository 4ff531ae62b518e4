-------------------------- MODULE IngestionProofs --------------------------
(***************************************************************************)
(* Proofs about SourceIngestion and AutomaticSync, for any number of runs, *)
(* of claims of the schedule, of changes at the provider and of faults.    *)
(*                                                                         *)
(* A step of a run changes the row, the storage and the importer of that   *)
(* run only: Moves says how, action by action, and the invariant follows.  *)
(* What becomes of the storage of failed imports needs a second invariant: *)
(* StorageInv follows reservation and object from step to step.  A third,  *)
(* CommitInv, carries that a run commits once.                             *)
(* The claims do to the import what SourceIngestion's own steps do, so     *)
(* that its invariant holds for both; the schedule adds that a key is not  *)
(* used before its claim, and that what is attached is the present claim.  *)
(***************************************************************************)
EXTENDS AutomaticSync, TLAPS

LEMMA BoundsAreNatural ==
  Runs # {} /\ Unattended \subseteq Runs /\ MaxRemoteChanges \in Nat /\ MaxFaults \in Nat
BY IngestionAssumption

USE BoundsAreNatural

----------------------------------------------------------------------------
(* The invariant.                                                          *)

RunRow == [status : {"none", "processing", "succeeded", "failed"},
           state : {"active", "investigating", "ambiguous", "resolved"},
           holder : {"importer", "reconciler"}, expired : BOOLEAN,
           expected : Changes, tracked : BOOLEAN, object : BOOLEAN]
Storage == [reservation : {"none", "reserved", "committed", "released"},
            object : {"none", "active", "deleted"}, blob : BOOLEAN]
Importer == [step : ImportSteps, seen : Changes, late : BOOLEAN]
Reconciler == [step : {"idle", "look", "unreserve", "adopt", "release", "erase", "settle"},
               run : Runs, outcome : {"failed", "ambiguous"}]

Typed ==
  /\ run \in [Runs -> RunRow] /\ stored \in [Runs -> Storage] /\ importer \in [Runs -> Importer]
  /\ resource \in [cursor : Changes, revision : Nat]
  /\ listed \in Changes /\ reconciler \in Reconciler /\ faults \in 0 .. MaxFaults

LEMMA TypedIsTypeOK == Typed <=> IngestionTypeOK
BY Zenon DEF Typed, IngestionTypeOK, RunRow, Storage, Importer, Reconciler

\* The steps before the storage is reserved.
Early == {"begin", "claim", "fetch", "noop", "reserve"}

\* What the row, the storage and the importer of one run have to do with each other: a
\* key that nobody has used has no storage; an object is attached only after it was
\* committed, is in the bucket while it is active, and stays active for a committed run.
Good(row, st, im) ==
  /\ row.status = "none" => st.object = "none" /\ im.step \in {"idle", "begin", "report"}
  /\ im.step \in Early => st.object = "none"
  /\ st.object = "none" => ~row.object
  /\ st.reservation = "reserved" => st.object = "none"
  /\ im.step = "commit" /\ st.reservation = "reserved" => st.blob
  /\ st.object = "active" => st.blob
  /\ row.status = "succeeded" /\ row.object => st.object = "active"

\* One import of the resource at a time, begun at its cursor.
OneImport ==
  /\ \A r, s \in Runs : run[r].status = "processing" /\ run[s].status = "processing" => r = s
  /\ \A r \in Runs : run[r].status = "processing" => run[r].expected = resource.cursor

ErasingDeleted == ReconcilerAt("erase") => stored[reconciler.run].object = "deleted"

IngestionInv ==
  /\ Typed
  /\ \A r \in Runs : Good(run[r], stored[r], importer[r])
  /\ OneImport
  /\ ErasingDeleted

LEMMA InitInv == IngestionInit => IngestionInv
<1> SUFFICES ASSUME IngestionInit PROVE IngestionInv
  OBVIOUS
<1>1. NoRun \in RunRow /\ NoStorage \in Storage /\ IdleImporter \in Importer
  BY DEF NoRun, NoStorage, IdleImporter, RunRow, Storage, Importer, Changes, ImportSteps
<1>2. (CHOOSE r \in Runs : TRUE) \in Runs
  OBVIOUS
<1>3. Typed
  BY <1>1, <1>2 DEF IngestionInit, Typed, Changes, Reconciler
<1>4. Good(NoRun, NoStorage, IdleImporter) /\ NoRun.status = "none"
  BY DEF Good, NoRun, NoStorage, IdleImporter, Early
<1> QED
  BY <1>3, <1>4 DEF IngestionInit, IngestionInv, OneImport, ErasingDeleted, ReconcilerAt

----------------------------------------------------------------------------
(* A step of one run.                                                      *)

Begun(r) ==
  run'[r].status = "processing" =>
    \/ run[r].status = "processing" /\ run'[r].expected = run[r].expected
    \/ NoActiveRun /\ run'[r].expected = resource.cursor

\* What every step of the run r does: it stays good, it does not reach another run, it
\* moves the cursor only when it ends the run, and it does not restore what is deleted.
Moves(r) ==
  /\ run' = [run EXCEPT ![r] = run'[r]] /\ run'[r] \in RunRow
  /\ stored' = [stored EXCEPT ![r] = stored'[r]] /\ stored'[r] \in Storage
  /\ importer' = [importer EXCEPT ![r] = importer'[r]] /\ importer'[r] \in Importer
  /\ resource' \in [cursor : Changes, revision : Nat]
  /\ listed' \in Changes /\ reconciler' \in Reconciler /\ faults' \in 0 .. MaxFaults
  /\ Good(run'[r], stored'[r], importer'[r])
  /\ \/ resource'.cursor = resource.cursor /\ Begun(r)
     \/ run[r].status = "processing" /\ run'[r].status # "processing"
  /\ stored[r].object = "deleted" => stored'[r].object = "deleted"

LEMMA MovesKeepsInv ==
  ASSUME IngestionInv, NEW r \in Runs, Moves(r),
         \/ UNCHANGED reconciler
         \/ reconciler'.step # "erase"
         \/ reconciler'.run = r /\ stored'[r].object = "deleted"
  PROVE  IngestionInv'
<1>1. \A s \in Runs : s # r => run'[s] = run[s] /\ stored'[s] = stored[s] /\ importer'[s] = importer[s]
  BY DEF Moves, IngestionInv, Typed
<1>2. Typed'
  BY DEF Moves, IngestionInv, Typed
<1>3. \A s \in Runs : Good(run'[s], stored'[s], importer'[s])
  BY <1>1 DEF Moves, IngestionInv
<1>4. OneImport'
  BY <1>1 DEF Moves, Begun, IngestionInv, OneImport, NoActiveRun
<1>5. ErasingDeleted'
  BY <1>1 DEF Moves, IngestionInv, ErasingDeleted, ReconcilerAt, Typed, Reconciler
<1> QED
  BY <1>2, <1>3, <1>4, <1>5 DEF IngestionInv

LEMMA FaultsTyped ==
  ASSUME faults \in 0 .. MaxFaults, Faulty \/ UNCHANGED faults
  PROVE  faults' \in 0 .. MaxFaults
BY DEF Faulty

LEMMA GoOnIs ==
  ASSUME importer \in [Runs -> Importer], NEW r \in Runs, NEW step \in ImportSteps, GoOn(r, step)
  PROVE  /\ importer' = [importer EXCEPT ![r] = importer'[r]] /\ importer'[r] \in Importer
         /\ importer'[r].step = step
BY DEF GoOn, Importer

\* A step that changes the importer alone, or nothing of the run.
LEMMA StepMoves ==
  ASSUME IngestionInv, NEW r \in Runs,
         importer' = [importer EXCEPT ![r] = importer'[r]], importer'[r] \in Importer,
         UNCHANGED <<run, stored, resource>>, listed' \in Changes, reconciler' \in Reconciler,
         Faulty \/ UNCHANGED faults,
         importer'[r].step \in {"idle", "begin", "report"} \/ run[r].status # "none",
         importer'[r].step \in Early => stored[r].object = "none",
         importer'[r].step # "commit"
  PROVE  Moves(r)
<1>1. Good(run[r], stored[r], importer'[r])
  BY DEF IngestionInv, Good, Early
<1>2. faults' \in 0 .. MaxFaults
  BY FaultsTyped DEF IngestionInv, Typed
<1>3. /\ run' = [run EXCEPT ![r] = run'[r]] /\ run'[r] \in RunRow
      /\ stored' = [stored EXCEPT ![r] = stored'[r]] /\ stored'[r] \in Storage
  BY DEF IngestionInv, Typed
<1> QED
  BY <1>1, <1>2, <1>3 DEF IngestionInv, Typed, Moves, Begun

\* A step that changes the row of the run, and its importer to a step after the storage.
LEMMA RowMoves ==
  ASSUME IngestionInv, NEW r \in Runs,
         run' = [run EXCEPT ![r] = run'[r]], run'[r] \in RunRow,
         importer' = [importer EXCEPT ![r] = importer'[r]], importer'[r] \in Importer,
         UNCHANGED <<stored, listed>>, reconciler' \in Reconciler, Faulty \/ UNCHANGED faults,
         resource' \in [cursor : Changes, revision : Nat],
         importer'[r].step = importer[r].step \/ importer'[r].step \notin Early \cup {"commit"},
         run[r].status # "none", run'[r].status # "none",
         run'[r].object => run[r].object \/ stored[r].object = "active",
         run'[r].status = "succeeded" /\ run'[r].object => stored[r].object = "active",
         \/ /\ UNCHANGED resource /\ run'[r].expected = run[r].expected
            /\ run'[r].status = "processing" => run[r].status = "processing"
         \/ run[r].status = "processing" /\ run'[r].status # "processing"
  PROVE  Moves(r)
<1>1. Good(run[r], stored[r], importer[r])
  BY DEF IngestionInv
<1>2. Good(run'[r], stored[r], importer'[r])
  <2>1. CASE importer'[r].step = importer[r].step
    BY <1>1, <2>1 DEF Good
  <2>2. CASE importer'[r].step \notin Early \cup {"commit"}
    BY <1>1, <2>2 DEF Good
  <2> QED
    BY <2>1, <2>2
<1>3. faults' \in 0 .. MaxFaults
  BY FaultsTyped DEF IngestionInv, Typed
<1>4. stored' = [stored EXCEPT ![r] = stored'[r]] /\ stored'[r] \in Storage
  BY DEF IngestionInv, Typed
<1>5. \/ resource'.cursor = resource.cursor /\ Begun(r)
      \/ run[r].status = "processing" /\ run'[r].status # "processing"
  BY DEF Begun
<1> QED
  BY <1>2, <1>3, <1>4, <1>5 DEF IngestionInv, Typed, Moves

\* A step that changes the storage of the run, and its importer to a later step.
LEMMA StorageMoves ==
  ASSUME IngestionInv, NEW r \in Runs,
         stored' = [stored EXCEPT ![r] = stored'[r]], stored'[r] \in Storage,
         importer' = [importer EXCEPT ![r] = importer'[r]], importer'[r] \in Importer,
         UNCHANGED <<run, resource, listed>>, reconciler' \in Reconciler, Faulty \/ UNCHANGED faults,
         \/ importer'[r].step \notin Early
         \/ UNCHANGED importer /\ (stored[r].object = "none" => stored'[r].object = "none"),
         run[r].status # "none",
         stored[r].object = "deleted" => stored'[r].object = "deleted",
         stored'[r].object = "none" => stored[r].object = "none",
         stored'[r].reservation = "reserved" => stored'[r].object = "none",
         importer'[r].step = "commit" /\ stored'[r].reservation = "reserved" => stored'[r].blob,
         stored'[r].object = "active" => stored'[r].blob,
         run[r].status = "succeeded" /\ run[r].object => stored'[r].object = "active"
  PROVE  Moves(r)
<1>1. Good(run[r], stored[r], importer[r])
  BY DEF IngestionInv
<1>2. Good(run[r], stored'[r], importer'[r])
  BY <1>1 DEF Good
<1>3. faults' \in 0 .. MaxFaults
  BY FaultsTyped DEF IngestionInv, Typed
<1>4. run' = [run EXCEPT ![r] = run'[r]] /\ run'[r] \in RunRow
  BY DEF IngestionInv, Typed
<1> QED
  BY <1>2, <1>3, <1>4 DEF IngestionInv, Typed, Moves, Begun

LEMMA EndedRow ==
  ASSUME NEW row \in RunRow, NEW status \in {"succeeded", "failed"}
  PROVE  /\ Ended(row, status) \in RunRow
         /\ Ended(row, status).status = status /\ Ended(row, status).object = row.object
BY DEF Ended, RunRow

LEMMA UnreservedIs ==
  ASSUME stored \in [Runs -> Storage], NEW r \in Runs
  PROVE  /\ Unreserved(r) = [stored EXCEPT ![r] = Unreserved(r)[r]]
         /\ Unreserved(r)[r] \in Storage /\ Unreserved(r)[r].reservation # "reserved"
         /\ Unreserved(r)[r].object = stored[r].object /\ Unreserved(r)[r].blob = stored[r].blob
BY DEF Unreserved, Storage

\* What is known of a run at each step.
LEMMA Known ==
  ASSUME IngestionInv, NEW r \in Runs
  PROVE  /\ run[r] \in RunRow /\ stored[r] \in Storage /\ importer[r] \in Importer
         /\ Good(run[r], stored[r], importer[r])
         /\ run \in [Runs -> RunRow] /\ stored \in [Runs -> Storage] /\ importer \in [Runs -> Importer]
         /\ resource \in [cursor : Changes, revision : Nat] /\ listed \in Changes
         /\ reconciler \in Reconciler
BY DEF IngestionInv, Typed

\* One column of a table is set.
LEMMA ObjectColumn ==
  ASSUME stored \in [Runs -> Storage], NEW r \in Runs,
         stored' = [stored EXCEPT ![r].object = "deleted"]
  PROVE  /\ stored' = [stored EXCEPT ![r] = stored'[r]] /\ stored'[r] \in Storage
         /\ stored'[r].object = "deleted" /\ stored'[r].reservation = stored[r].reservation
BY DEF Storage

LEMMA BlobColumn ==
  ASSUME stored \in [Runs -> Storage], NEW r \in Runs, stored' = [stored EXCEPT ![r].blob = FALSE]
  PROVE  /\ stored' = [stored EXCEPT ![r] = stored'[r]] /\ stored'[r] \in Storage
         /\ stored'[r].object = stored[r].object /\ stored'[r].reservation = stored[r].reservation
BY DEF Storage

LEMMA RunColumns ==
  ASSUME run \in [Runs -> RunRow], NEW r \in Runs
  PROVE  /\ [run EXCEPT ![r].object = TRUE] = [run EXCEPT ![r] = [run[r] EXCEPT !.object = TRUE]]
         /\ [run EXCEPT ![r].expired = TRUE] = [run EXCEPT ![r] = [run[r] EXCEPT !.expired = TRUE]]
         /\ [run EXCEPT ![r].state = "ambiguous"] = [run EXCEPT ![r] = [run[r] EXCEPT !.state = "ambiguous"]]
         /\ [run EXCEPT ![r].object = TRUE, ![r].tracked = TRUE]
              = [run EXCEPT ![r] = [run[r] EXCEPT !.object = TRUE, !.tracked = TRUE]]
BY DEF RunRow

LEMMA AttachedRow ==
  ASSUME NEW row \in RunRow
  PROVE  LET attached == [row EXCEPT !.object = TRUE, !.tracked = TRUE]
         IN  attached \in RunRow /\ attached.status = row.status /\ attached.expected = row.expected
BY DEF RunRow

\* The end of a run as a success: the resource moves on, the object stays as it is.
LEMMA CommitMoves ==
  ASSUME IngestionInv, NEW r \in Runs, run[r].status = "processing",
         run' = [run EXCEPT ![r] = Ended(@, "succeeded")],
         resource' \in [cursor : Changes, revision : Nat],
         importer' = [importer EXCEPT ![r] = importer'[r]], importer'[r] \in Importer,
         importer'[r].step = importer[r].step \/ importer'[r].step \notin Early \cup {"commit"},
         run[r].object => stored[r].object = "active",
         UNCHANGED <<stored, listed, reconciler>>, Faulty \/ UNCHANGED faults
  PROVE  Moves(r)
<1>1. run'[r] = Ended(run[r], "succeeded") /\ run' = [run EXCEPT ![r] = run'[r]]
  BY Known
<1>2. run'[r] \in RunRow /\ run'[r].status = "succeeded" /\ run'[r].object = run[r].object
  BY <1>1, Known, EndedRow
<1> QED
  BY <1>1, <1>2, Known, RowMoves

----------------------------------------------------------------------------
(* The pipeline of an import.                                              *)

LEMMA FetchMoves ==
  ASSUME IngestionInv, NEW r \in Runs, Fetch(r)
  PROVE  Moves(r)
<1>1. run[r].status # "none" /\ stored[r].object = "none"
  BY Known DEF Fetch, StepOf, Good, Early
<1>2. /\ importer' = [importer EXCEPT ![r] = importer'[r]] /\ importer'[r] \in Importer
      /\ importer'[r].step \in {"noop", "reserve", "error"}
  BY Known, GoOnIs DEF Fetch, Importer, ImportSteps
<1> QED
  BY <1>1, <1>2, Known, StepMoves DEF Fetch

LEMMA CompleteNoopMoves ==
  ASSUME IngestionInv, NEW r \in Runs, CompleteNoop(r)
  PROVE  Moves(r)
<1>1. run[r].status # "none" /\ stored[r].object = "none" /\ ~run[r].object
  BY Known DEF CompleteNoop, StepOf, Good, Early
<1>2. /\ importer' = [importer EXCEPT ![r] = importer'[r]] /\ importer'[r] \in Importer
      /\ importer'[r].step \in {"ok", "error"}
  BY Known, GoOnIs DEF CompleteNoop, ImportSteps
<1>3. CASE UNCHANGED <<run, resource>>
  BY <1>1, <1>2, <1>3, Known, StepMoves DEF CompleteNoop, Early
<1>4. CASE /\ Leased(r)
           /\ run' = [run EXCEPT ![r] = Ended(@, "succeeded")]
           /\ resource' = [resource EXCEPT !.cursor = importer[r].seen]
  <2>1. resource' \in [cursor : Changes, revision : Nat]
    BY <1>4, Known DEF Importer
  <2> QED
    BY <1>1, <1>2, <1>4, <2>1, CommitMoves DEF CompleteNoop, Leased, Early
<1> QED
  BY <1>3, <1>4 DEF CompleteNoop

LEMMA ReserveStorageMoves ==
  ASSUME IngestionInv, NEW r \in Runs, ReserveStorage(r)
  PROVE  Moves(r)
<1>1. run[r].status # "none" /\ stored[r].object = "none"
  BY Known DEF ReserveStorage, StepOf, Good, Early
<1>2. /\ importer' = [importer EXCEPT ![r] = importer'[r]] /\ importer'[r] \in Importer
      /\ importer'[r].step \in {"track", "error"}
  BY Known, GoOnIs DEF ReserveStorage, ImportSteps
<1>3. CASE UNCHANGED stored
  BY <1>1, <1>2, <1>3, Known, StepMoves DEF ReserveStorage, Early
<1>4. CASE stored' = [stored EXCEPT ![r].reservation = "reserved"]
  <2>1. /\ stored' = [stored EXCEPT ![r] = stored'[r]] /\ stored'[r] \in Storage
        /\ stored'[r].object = "none"
    BY <1>1, <1>4, Known DEF Storage
  <2> QED
    BY <1>1, <1>2, <2>1, Known, StorageMoves DEF ReserveStorage, Early, Good
<1> QED
  BY <1>3, <1>4 DEF ReserveStorage

LEMMA TrackReservationMoves ==
  ASSUME IngestionInv, NEW r \in Runs, TrackReservation(r)
  PROVE  Moves(r)
<1>1. run[r].status # "none"
  BY Known DEF TrackReservation, StepOf, Good
<1>2. /\ importer' = [importer EXCEPT ![r] = importer'[r]] /\ importer'[r] \in Importer
      /\ importer'[r].step \in {"write", "untrack"}
  BY Known, GoOnIs DEF TrackReservation, ImportSteps
<1>3. CASE UNCHANGED run
  BY <1>1, <1>2, <1>3, Known, StepMoves DEF TrackReservation, Early
<1>4. CASE Leased(r) /\ run' = [run EXCEPT ![r].tracked = TRUE]
  <2>1. /\ run' = [run EXCEPT ![r] = run'[r]] /\ run'[r] \in RunRow
        /\ run'[r].status = run[r].status /\ run'[r].object = run[r].object
        /\ run'[r].expected = run[r].expected
    BY <1>4, Known DEF RunRow
  <2> QED
    BY <1>1, <1>2, <2>1, Known, RowMoves DEF TrackReservation, Early, Good
<1> QED
  BY <1>3, <1>4 DEF TrackReservation

LEMMA UntrackMoves ==
  ASSUME IngestionInv, NEW r \in Runs, Untrack(r)
  PROVE  Moves(r)
<1>1. run[r].status # "none"
  BY Known DEF Untrack, StepOf, Good
<1>2. /\ importer' = [importer EXCEPT ![r] = importer'[r]] /\ importer'[r] \in Importer
      /\ importer'[r].step = "error"
  BY Known, GoOnIs DEF Untrack, ImportSteps
<1>3. CASE UNCHANGED stored
  BY <1>1, <1>2, <1>3, Known, StepMoves DEF Untrack, Early
<1>4. CASE stored' = Unreserved(r)
  BY <1>1, <1>2, <1>4, Known, UnreservedIs, StorageMoves DEF Untrack, Early, Good
<1> QED
  BY <1>3, <1>4 DEF Untrack

LEMMA WriteObjectMoves ==
  ASSUME IngestionInv, NEW r \in Runs, WriteObject(r)
  PROVE  Moves(r)
<1>1. run[r].status # "none"
  BY Known DEF WriteObject, StepOf, Good
<1>2. /\ importer' = [importer EXCEPT ![r] = importer'[r]] /\ importer'[r] \in Importer
      /\ importer'[r].step \in {"commit", "error", "untrack"}
  BY Known, GoOnIs DEF WriteObject, ImportSteps
<1>3. CASE UNCHANGED stored /\ (GoOn(r, "untrack") \/ GoOn(r, "error"))
  <2>1. importer'[r].step # "commit"
    BY <1>3, Known, GoOnIs DEF ImportSteps
  <2> QED
    BY <1>1, <1>2, <1>3, <2>1, Known, StepMoves DEF WriteObject, Early
<1>4. CASE stored[r].reservation = "reserved" /\ stored' = [stored EXCEPT ![r].blob = TRUE]
  <2>1. /\ stored' = [stored EXCEPT ![r] = stored'[r]] /\ stored'[r] \in Storage
        /\ stored'[r].object = stored[r].object /\ stored'[r].reservation = "reserved" /\ stored'[r].blob
    BY <1>4, Known DEF Storage
  <2> QED
    BY <1>1, <1>2, <1>4, <2>1, Known, StorageMoves DEF WriteObject, Early, Good
<1> QED
  BY <1>3, <1>4 DEF WriteObject

LEMMA CommitStorageMoves ==
  ASSUME IngestionInv, NEW r \in Runs, CommitStorage(r)
  PROVE  Moves(r)
<1>1. run[r].status # "none" /\ StepOf(r, "commit")
  BY Known DEF CommitStorage, StepOf, Good
<1>2. /\ importer' = [importer EXCEPT ![r] = importer'[r]] /\ importer'[r] \in Importer
      /\ importer'[r].step \in {"attach", "error", "unknown"}
  BY Known, GoOnIs DEF CommitStorage, ImportSteps
<1>3. CASE UNCHANGED stored
  BY <1>1, <1>2, <1>3, Known, StepMoves DEF CommitStorage, Early
<1>4. CASE /\ stored[r].reservation = "reserved"
           /\ stored' = [stored EXCEPT ![r].reservation = "committed", ![r].object = "active"]
  <2>1. /\ stored' = [stored EXCEPT ![r] = stored'[r]] /\ stored'[r] \in Storage
        /\ stored'[r].object = "active" /\ stored'[r].reservation = "committed"
        /\ stored'[r].blob = stored[r].blob
    BY <1>4, Known DEF Storage
  <2>2. stored[r].blob /\ stored[r].object = "none"
    BY <1>1, <1>4, Known DEF Good, StepOf
  <2> QED
    BY <1>1, <1>2, <2>1, <2>2, Known, StorageMoves DEF CommitStorage, Early, Good
<1> QED
  BY <1>3, <1>4 DEF CommitStorage

LEMMA AttachObjectMoves ==
  ASSUME IngestionInv, NEW r \in Runs, AttachObject(r)
  PROVE  Moves(r)
<1>1. run[r].status # "none"
  BY Known DEF AttachObject, StepOf, Good
<1>2. /\ importer' = [importer EXCEPT ![r] = importer'[r]] /\ importer'[r] \in Importer
      /\ importer'[r].step \in {"complete", "resolve"}
  BY Known, GoOnIs DEF AttachObject, ImportSteps
<1>3. CASE UNCHANGED run
  BY <1>1, <1>2, <1>3, Known, StepMoves DEF AttachObject, Early
<1>4. CASE /\ Leased(r) /\ stored[r].object = "active"
           /\ run' = [run EXCEPT ![r].object = TRUE, ![r].tracked = TRUE]
  <2>1. /\ run' = [run EXCEPT ![r] = run'[r]] /\ run'[r] \in RunRow
        /\ run'[r].status = run[r].status /\ run'[r].expected = run[r].expected
    <3> DEFINE row == [run[r] EXCEPT !.object = TRUE, !.tracked = TRUE]
    <3>1. run' = [run EXCEPT ![r] = row]
      BY <1>4, Known, RunColumns
    <3>2. row \in RunRow /\ row.status = run[r].status /\ row.expected = run[r].expected
      BY Known, AttachedRow
    <3> HIDE DEF row
    <3> QED
      BY <3>1, <3>2, Known
  <2> QED
    BY <1>1, <1>2, <1>4, <2>1, Known, RowMoves DEF AttachObject, Early, Good
<1> QED
  BY <1>3, <1>4 DEF AttachObject

LEMMA DroppedMoves ==
  ASSUME IngestionInv, NEW r \in Runs, NEW end \in {"error", "unknown"},
         run[r].status # "none", Dropped(r, end), UNCHANGED <<run, resource, listed, reconciler>>
  PROVE  Moves(r)
<1>1. /\ importer' = [importer EXCEPT ![r] = importer'[r]] /\ importer'[r] \in Importer
      /\ importer'[r].step = end
  BY Known, GoOnIs DEF Dropped, ImportSteps
<1>2. CASE UNCHANGED stored
  BY <1>1, <1>2, Known, StepMoves DEF Dropped, Early
<1>3. CASE /\ Releasable(r)
           /\ \/ stored' = [stored EXCEPT ![r].object = "deleted", ![r].blob = FALSE]
              \/ stored' = [stored EXCEPT ![r].object = "deleted"]
  <2>1. /\ stored' = [stored EXCEPT ![r] = stored'[r]] /\ stored'[r] \in Storage
        /\ stored'[r].object = "deleted" /\ stored'[r].reservation = stored[r].reservation
    BY <1>3, Known DEF Storage
  <2>2. stored[r].reservation # "reserved" /\ ~(run[r].status = "succeeded" /\ run[r].object)
    BY <1>3, Known DEF Releasable, Good
  <2> QED
    BY <1>1, <2>1, <2>2, Known, StorageMoves DEF Dropped, Early, Good
<1> QED
  BY <1>2, <1>3 DEF Dropped

LEMMA Complete152Moves ==
  ASSUME IngestionInv, NEW r \in Runs, Complete152(r)
  PROVE  Moves(r)
<1>1. run[r].status # "none"
  BY Known DEF Complete152, StepOf, Good
<1>2. /\ importer' = [importer EXCEPT ![r] = importer'[r]] /\ importer'[r] \in Importer
      /\ importer'[r].step \in {"ok", "recover"}
  <2>1. CASE importer' = [importer EXCEPT ![r].step = "recover", ![r].late = TRUE]
    BY <2>1, Known DEF Importer, ImportSteps
  <2>2. CASE GoOn(r, "ok") \/ GoOn(r, "recover")
    BY <2>2, Known, GoOnIs DEF ImportSteps
  <2> QED
    BY <2>1, <2>2 DEF Complete152
<1>3. CASE UNCHANGED <<run, resource>>
  BY <1>1, <1>2, <1>3, Known, StepMoves DEF Complete152, Early
<1>4. CASE Committable(r) /\ CommitRun(r)
  <2>1. /\ run' = [run EXCEPT ![r] = Ended(@, "succeeded")] /\ run[r].status = "processing"
        /\ stored[r].object = "active"
    BY <1>4 DEF CommitRun, Committable, Leased
  <2>2. resource' \in [cursor : Changes, revision : Nat]
    BY <1>4, Known DEF CommitRun, Importer
  <2> QED
    BY <1>2, <2>1, <2>2, CommitMoves DEF Complete152, Early
<1> QED
  BY <1>3, <1>4 DEF Complete152

LEMMA StepsMove ==
  ASSUME IngestionInv, NEW r \in Runs,
         ResolveAttachment(r) \/ RecoverCompletion(r) \/ HeartbeatFails(r)
  PROVE  Moves(r)
<1>1. run[r].status # "none"
  BY Known DEF ResolveAttachment, RecoverCompletion, HeartbeatFails, StepOf, Good, HeartbeatSteps
<1>2. /\ importer' = [importer EXCEPT ![r] = importer'[r]] /\ importer'[r] \in Importer
      /\ importer'[r].step \in {"complete", "drop", "unknown", "ok", "compensate", "untrack", "error"}
  BY Known, GoOnIs DEF ResolveAttachment, RecoverCompletion, HeartbeatFails, ImportSteps
<1>3. UNCHANGED <<run, stored, resource, listed, reconciler>> /\ (Faulty \/ UNCHANGED faults)
  BY DEF ResolveAttachment, RecoverCompletion, HeartbeatFails
<1> QED
  BY <1>1, <1>2, <1>3, Known, StepMoves DEF Early

LEMMA PipelineMoves ==
  ASSUME IngestionInv, NEW r \in Runs, Pipeline(r)
  PROVE  Moves(r)
<1>1. ASSUME StepOf(r, "drop") \/ StepOf(r, "compensate") PROVE run[r].status # "none"
  BY <1>1, Known DEF StepOf, Good
<1>2. CASE DropUnattached(r)
  BY <1>1, <1>2, DroppedMoves DEF DropUnattached
<1>3. CASE Compensate(r)
  BY <1>1, <1>3, DroppedMoves DEF Compensate
<1> QED
  BY <1>2, <1>3, FetchMoves, CompleteNoopMoves, ReserveStorageMoves, TrackReservationMoves, UntrackMoves,
     WriteObjectMoves, CommitStorageMoves, AttachObjectMoves, Complete152Moves, StepsMove
     DEF Pipeline

----------------------------------------------------------------------------
(* Requests, recovery and the reconciler.                                  *)

LEMMA ReserveRunMoves ==
  ASSUME IngestionInv, NEW r \in Runs, NEW next \in {"fetch", "claim", "report"},
         ReserveRun(r, next), Faulty \/ UNCHANGED faults
  PROVE  Moves(r)
<1>1. stored[r].object = "none" /\ resource.cursor \in Changes
  BY Known DEF ReserveRun, Good
<1>2. /\ importer' = [importer EXCEPT ![r] = importer'[r]] /\ importer'[r] \in Importer
      /\ importer'[r].step = next
  BY Known, GoOnIs DEF ReserveRun, ImportSteps
<1> DEFINE row == [NoRun EXCEPT !.status = "processing", !.expected = resource.cursor]
<1>3. /\ row \in RunRow /\ row.status = "processing" /\ row.expected = resource.cursor /\ ~row.object
  BY <1>1 DEF NoRun, RunRow
<1>4. run' = [run EXCEPT ![r] = row]
  BY DEF ReserveRun
<1> HIDE DEF row
<1>5. run'[r] = row /\ run' = [run EXCEPT ![r] = run'[r]]
  BY <1>4, Known
<1>6. Good(row, stored[r], importer'[r])
  BY <1>1, <1>2, <1>3, Known DEF Good, Early
<1>7. Begun(r)
  BY <1>3, <1>5 DEF Begun, ReserveRun
<1>8. faults' \in 0 .. MaxFaults
  BY FaultsTyped DEF IngestionInv, Typed
<1>9. /\ stored' = [stored EXCEPT ![r] = stored'[r]] /\ stored'[r] = stored[r] /\ stored'[r] \in Storage
      /\ UNCHANGED <<resource, listed, reconciler>>
  BY Known DEF ReserveRun
<1> QED
  BY <1>2, <1>3, <1>5, <1>6, <1>7, <1>8, <1>9, Known DEF Moves

LEMMA FailRunMoves ==
  ASSUME IngestionInv, NEW r \in Runs, NEW next \in {"idle", "report"},
         FailRun(r, next), importer[r].step \notin {"idle", "begin", "report"}
  PROVE  Moves(r)
<1>1. run[r].status # "none"
  BY Known DEF Good
<1>2. /\ importer' = [importer EXCEPT ![r] = importer'[r]] /\ importer'[r] \in Importer
      /\ importer'[r].step = next
  BY Known, GoOnIs DEF FailRun, ImportSteps
<1>3. CASE UNCHANGED run
  BY <1>1, <1>2, <1>3, Known, StepMoves DEF FailRun, Early
<1>4. CASE Failable(r) /\ run' = [run EXCEPT ![r] = Ended(@, "failed")]
  <2>1. run'[r] = Ended(run[r], "failed") /\ run' = [run EXCEPT ![r] = run'[r]]
    BY <1>4, Known
  <2>2. run'[r] \in RunRow /\ run'[r].status = "failed" /\ run'[r].object = run[r].object
    BY <2>1, Known, EndedRow
  <2> QED
    BY <1>1, <1>2, <1>4, <2>1, <2>2, Known, RowMoves DEF FailRun, Failable, Leased, Early
<1> QED
  BY <1>3, <1>4 DEF FailRun

LEMMA RequestsMove ==
  ASSUME IngestionInv, NEW r \in Runs,
         RequestImport(r) \/ FailImport(r) \/ AnswerImport(r) \/ ImporterDies(r)
  PROVE  Moves(r)
<1>1. CASE RequestImport(r)
  BY <1>1, ReserveRunMoves DEF RequestImport
<1>2. CASE FailImport(r)
  BY <1>2, FailRunMoves DEF FailImport, FailStep, StepOf
<1>3. CASE AnswerImport(r) \/ ImporterDies(r)
  <2>1. /\ importer' = [importer EXCEPT ![r] = importer'[r]] /\ importer'[r] \in Importer
        /\ importer'[r].step = "idle"
    BY <1>3, Known, GoOnIs DEF AnswerImport, ImporterDies, ImportSteps
  <2> QED
    BY <1>3, <2>1, Known, StepMoves DEF AnswerImport, ImporterDies, Early
<1> QED
  BY <1>1, <1>2, <1>3

LEMMA LateCompletionMoves ==
  ASSUME IngestionInv, NEW r \in Runs, LateCompletion(r)
  PROVE  Moves(r)
<1>1. /\ importer' = [importer EXCEPT ![r] = importer'[r]] /\ importer'[r] \in Importer
      /\ importer'[r].step = importer[r].step
  BY Known DEF LateCompletion, Importer
<1>2. CASE Committable(r)
  <2>1. /\ run' = [run EXCEPT ![r] = Ended(@, "succeeded")] /\ run[r].status = "processing"
        /\ stored[r].object = "active"
    BY <1>2 DEF LateCompletion, CommitRun, Committable, Leased
  <2>2. resource' \in [cursor : Changes, revision : Nat]
    BY <1>2, Known DEF LateCompletion, CommitRun, Importer
  <2> QED
    BY <1>1, <2>1, <2>2, CommitMoves DEF LateCompletion
<1>3. CASE ~Committable(r)
  <2>1. UNCHANGED <<run, stored, resource, listed, reconciler, faults>>
    BY <1>3 DEF LateCompletion
  <2>2. Good(run[r], stored[r], importer'[r])
    BY <1>1, Known DEF Good
  <2>3. run' = [run EXCEPT ![r] = run'[r]] /\ stored' = [stored EXCEPT ![r] = stored'[r]]
    BY <2>1, Known
  <2> QED
    BY <1>1, <2>1, <2>2, <2>3, Known DEF Moves, Begun, IngestionInv, Typed
<1> QED
  BY <1>2, <1>3

LEMMA ReconcilerIs ==
  ASSUME reconciler \in Reconciler,
         NEW step \in {"idle", "look", "unreserve", "adopt", "release", "erase", "settle"},
         NEW outcome \in {"failed", "ambiguous"}
  PROVE  /\ ReconcilerGoes(step) =>
              reconciler' \in Reconciler /\ reconciler'.step = step /\ reconciler'.run = reconciler.run
         /\ Settles(outcome) =>
              reconciler' \in Reconciler /\ reconciler'.step = "settle" /\ reconciler'.run = reconciler.run
         /\ GivesUp =>
              /\ reconciler' \in Reconciler /\ reconciler'.step = "settle" /\ reconciler'.run = reconciler.run
              /\ Faulty
BY DEF ReconcilerGoes, Settles, GivesUp, Reconciler

\* The rows as the reconciler and time change them.
LEMMA RowsOfRecovery ==
  ASSUME NEW row \in RunRow
  PROVE  /\ Taken(row) \in RunRow
         /\ Taken(row).status = row.status /\ Taken(row).object = row.object
         /\ Taken(row).expected = row.expected
         /\ LET ambiguous == [row EXCEPT !.state = "ambiguous"] IN
              /\ ambiguous \in RunRow /\ ambiguous.status = row.status
              /\ ambiguous.object = row.object /\ ambiguous.expected = row.expected
         /\ LET expired == [row EXCEPT !.expired = TRUE] IN
              /\ expired \in RunRow /\ expired.status = row.status
              /\ expired.object = row.object /\ expired.expected = row.expected
         /\ LET adopted == [row EXCEPT !.object = TRUE] IN
              /\ adopted \in RunRow /\ adopted.status = row.status /\ adopted.expected = row.expected
BY DEF Taken, RunRow

\* The importer is left alone.
LEMMA ImporterStays ==
  ASSUME IngestionInv, NEW r \in Runs, UNCHANGED importer
  PROVE  importer' = [importer EXCEPT ![r] = importer'[r]] /\ importer'[r] \in Importer
BY Known

\* A row that keeps its status and object, beside an untouched importer.
LEMMA RowChanges ==
  ASSUME IngestionInv, NEW r \in Runs, NEW row \in RunRow,
         run' = [run EXCEPT ![r] = row], run[r].status # "none",
         row.expected = run[r].expected,
         \/ row.status = run[r].status
         \/ run[r].status = "processing" /\ row.status = "failed",
         row.object => run[r].object \/ stored[r].object = "active",
         row.status = "succeeded" /\ row.object => stored[r].object = "active",
         UNCHANGED <<stored, importer, resource, listed>>, reconciler' \in Reconciler,
         Faulty \/ UNCHANGED faults
  PROVE  Moves(r)
<1>1. run'[r] = row
  BY Known
<1> QED
  BY <1>1, Known, ImporterStays, RowMoves

LEMMA StaleKept ==
  ASSUME IngestionInv, NEW r \in Runs, ClaimStale(r) \/ RunLeaseEnds(r)
  PROVE  Moves(r) /\ (UNCHANGED reconciler \/ reconciler'.step # "erase")
<1>1. run[r].status = "processing"
  BY DEF ClaimStale, RunLeaseEnds, Stale
<1>2. CASE ClaimStale(r)
  <2>1. run' = [run EXCEPT ![r] = Taken(run[r])]
    BY <1>2 DEF ClaimStale
  <2>2. reconciler' \in Reconciler /\ reconciler'.step = "look"
    BY <1>2, Known DEF ClaimStale, Reconciler
  <2>3. UNCHANGED <<stored, importer, resource, listed, faults>>
    BY <1>2 DEF ClaimStale
  <2> QED
    BY <1>1, <2>1, <2>2, <2>3, Known, RowsOfRecovery, RowChanges
<1>3. CASE RunLeaseEnds(r)
  <2>1. run' = [run EXCEPT ![r] = [run[r] EXCEPT !.expired = TRUE]]
    BY <1>3, Known DEF RunLeaseEnds
  <2>2. UNCHANGED <<stored, importer, resource, listed, reconciler>> /\ (Faulty \/ UNCHANGED faults)
    BY <1>3 DEF RunLeaseEnds
  <2> QED
    BY <1>1, <2>1, <2>2, Known, RowsOfRecovery, RowChanges
<1> QED
  BY <1>2, <1>3

\* A step of the reconciler that changes nothing of its run.
LEMMA NothingMoves ==
  ASSUME IngestionInv, NEW r \in Runs, UNCHANGED <<run, stored, importer, resource>>,
         listed' \in Changes, reconciler' \in Reconciler, Faulty \/ UNCHANGED faults
  PROVE  Moves(r)
<1>1. Good(run'[r], stored'[r], importer'[r])
  BY Known
<1>2. faults' \in 0 .. MaxFaults
  BY FaultsTyped DEF IngestionInv, Typed
<1>3. /\ run' = [run EXCEPT ![r] = run'[r]] /\ run'[r] \in RunRow
      /\ stored' = [stored EXCEPT ![r] = stored'[r]] /\ stored'[r] \in Storage
      /\ importer' = [importer EXCEPT ![r] = importer'[r]] /\ importer'[r] \in Importer
      /\ resource' \in [cursor : Changes, revision : Nat]
  BY Known
<1> QED
  BY <1>1, <1>2, <1>3 DEF Moves, Begun

\* The storage that the reconciler releases or erases, beside an untouched importer.
LEMMA StorageChanges ==
  ASSUME IngestionInv, NEW r \in Runs,
         stored' = [stored EXCEPT ![r] = stored'[r]], stored'[r] \in Storage,
         \/ stored'[r].object = stored[r].object
         \/ /\ stored'[r].object = "deleted" /\ stored[r].object = "active"
            /\ ~(run[r].status = "succeeded" /\ run[r].object),
         stored'[r].reservation # "reserved",
         stored'[r].object = "active" => stored'[r].blob,
         UNCHANGED <<run, importer, resource, listed>>, reconciler' \in Reconciler,
         Faulty \/ UNCHANGED faults
  PROVE  Moves(r)
<1>1. Good(run[r], stored'[r], importer[r])
  BY Known DEF Good
<1>2. faults' \in 0 .. MaxFaults
  BY FaultsTyped DEF IngestionInv, Typed
<1>3. run' = [run EXCEPT ![r] = run'[r]] /\ importer' = [importer EXCEPT ![r] = importer'[r]]
  BY Known
<1> QED
  BY <1>1, <1>2, <1>3, Known DEF Moves, Begun

\* What a step of the reconciler does to its run, and that it only erases what is deleted.
Reconciles ==
  /\ Moves(reconciler.run)
  /\ \/ UNCHANGED reconciler
     \/ reconciler'.step # "erase"
     \/ reconciler'.run = reconciler.run /\ stored'[reconciler.run].object = "deleted"

LEMMA ReconcilerRun ==
  ASSUME IngestionInv
  PROVE  reconciler.run \in Runs
BY DEF IngestionInv, Typed, Reconciler

LEMMA LookReconciles ==
  ASSUME IngestionInv, Look
  PROVE  Reconciles
<1> DEFINE r == reconciler.run
<1>1. r \in Runs
  BY ReconcilerRun
<1>2. reconciler' \in Reconciler /\ reconciler'.step # "erase"
  <2>1. \/ \E step \in {"unreserve", "adopt"} : ReconcilerGoes(step)
        \/ \E outcome \in {"failed", "ambiguous"} : Settles(outcome)
    BY DEF Look, GivesUp
  <2> QED
    BY <1>1, <2>1, Known, ReconcilerIs
<1>3. UNCHANGED <<run, stored, importer, resource, listed>> /\ (Faulty \/ UNCHANGED faults)
  BY DEF Look, GivesUp
<1> QED
  BY <1>1, <1>2, <1>3, Known, NothingMoves DEF Reconciles

LEMMA UnreserveReconciles ==
  ASSUME IngestionInv, UnreserveStale
  PROVE  Reconciles
<1> DEFINE r == reconciler.run
<1>1. r \in Runs
  BY ReconcilerRun
<1>2. reconciler' \in Reconciler /\ reconciler'.step # "erase"
  <2>1. \E outcome \in {"failed", "ambiguous"} : Settles(outcome)
    BY DEF UnreserveStale, GivesUp
  <2> QED
    BY <1>1, <2>1, Known, ReconcilerIs
<1>3. UNCHANGED <<run, importer, resource, listed>> /\ (Faulty \/ UNCHANGED faults)
  BY DEF UnreserveStale, GivesUp
<1>4. CASE UNCHANGED stored
  BY <1>1, <1>2, <1>3, <1>4, Known, NothingMoves DEF Reconciles
<1>5. CASE /\ stored[r].reservation = "reserved"
           /\ stored' = Unreserved(r) \/ stored' = [Unreserved(r) EXCEPT ![r].blob = FALSE]
  <2>1. /\ stored' = [stored EXCEPT ![r] = stored'[r]] /\ stored'[r] \in Storage
        /\ stored'[r].object = stored[r].object /\ stored'[r].reservation # "reserved"
    BY <1>1, <1>5, Known DEF Unreserved, Storage
  <2>2. stored[r].object = "none"
    BY <1>1, <1>5, Known DEF Good
  <2> QED
    BY <1>1, <1>2, <1>3, <2>1, <2>2, StorageChanges DEF Reconciles
<1> QED
  BY <1>4, <1>5 DEF UnreserveStale

LEMMA AdoptReconciles ==
  ASSUME IngestionInv, Adopt
  PROVE  Reconciles
<1> DEFINE r == reconciler.run
<1>1. r \in Runs
  BY ReconcilerRun
<1>2. reconciler' \in Reconciler /\ reconciler'.step # "erase"
  <2>1. ReconcilerGoes("release") \/ \E outcome \in {"failed", "ambiguous"} : Settles(outcome)
    BY DEF Adopt, GivesUp
  <2> QED
    BY <1>1, <2>1, Known, ReconcilerIs
<1>3. UNCHANGED <<stored, importer, resource, listed>> /\ (Faulty \/ UNCHANGED faults)
  BY DEF Adopt, GivesUp
<1>4. CASE UNCHANGED run
  BY <1>1, <1>2, <1>3, <1>4, Known, NothingMoves DEF Reconciles
<1>5. CASE (run[r].object \/ stored[r].object = "active") /\ run' = [run EXCEPT ![r].object = TRUE]
  <2> DEFINE row == [run[r] EXCEPT !.object = TRUE]
  <2>1. run' = [run EXCEPT ![r] = row]
    BY <1>1, <1>5, Known, RunColumns
  <2>2. run[r].status # "none" /\ (run[r].status = "succeeded" => stored[r].object = "active")
    BY <1>1, <1>5, Known DEF Good, Storage
  <2>3. row \in RunRow /\ row.status = run[r].status /\ row.expected = run[r].expected
    BY <1>1, Known, RowsOfRecovery
  <2> HIDE DEF row
  <2>4. Moves(r)
    BY <1>1, <1>2, <1>3, <1>5, <2>1, <2>2, <2>3, RowChanges
  <2> QED
    BY <1>1, <1>2, <1>3, <2>4 DEF Reconciles
<1> QED
  BY <1>4, <1>5 DEF Adopt

LEMMA ReleaseReconciles ==
  ASSUME IngestionInv, ReleaseStale
  PROVE  Reconciles
<1> DEFINE r == reconciler.run
<1>1. r \in Runs
  BY ReconcilerRun
<1>2. UNCHANGED <<run, importer, resource, listed>> /\ (Faulty \/ UNCHANGED faults)
  BY DEF ReleaseStale, GivesUp
<1>3. CASE GivesUp /\ UNCHANGED stored
  BY <1>1, <1>2, <1>3, Known, ReconcilerIs, NothingMoves DEF Reconciles
<1>4. CASE /\ stored[r].object = "deleted" \/ Releasable(r)
           /\ stored' = [stored EXCEPT ![r].object = "deleted"]
           /\ ReconcilerGoes("erase")
  <2>1. /\ stored' = [stored EXCEPT ![r] = stored'[r]] /\ stored'[r] \in Storage
        /\ stored'[r].object = "deleted" /\ stored'[r].reservation = stored[r].reservation
    BY <1>1, <1>4, Known, ObjectColumn
  <2>2. /\ stored[r].reservation # "reserved"
        /\ \/ stored[r].object = "deleted"
           \/ stored[r].object = "active" /\ ~(run[r].status = "succeeded" /\ run[r].object)
    BY <1>1, <1>4, Known DEF Releasable, Good
  <2>3. reconciler' \in Reconciler /\ reconciler'.run = r
    BY <1>1, <1>4, Known, ReconcilerIs
  <2> QED
    BY <1>1, <1>2, <2>1, <2>2, <2>3, StorageChanges DEF Reconciles
<1> QED
  BY <1>3, <1>4 DEF ReleaseStale

LEMMA EraseReconciles ==
  ASSUME IngestionInv, EraseStale
  PROVE  Reconciles
<1> DEFINE r == reconciler.run
<1>1. r \in Runs
  BY ReconcilerRun
<1>2. /\ UNCHANGED <<run, importer, resource, listed>> /\ (Faulty \/ UNCHANGED faults)
      /\ stored[r].object = "deleted"
  BY DEF EraseStale, GivesUp, IngestionInv, ErasingDeleted
<1>3. reconciler' \in Reconciler /\ reconciler'.step # "erase"
  BY <1>1, Known, ReconcilerIs DEF EraseStale
<1>4. CASE UNCHANGED stored
  BY <1>1, <1>2, <1>3, <1>4, Known, NothingMoves DEF Reconciles
<1>5. CASE stored' = [stored EXCEPT ![r].blob = FALSE]
  <2>1. /\ stored' = [stored EXCEPT ![r] = stored'[r]] /\ stored'[r] \in Storage
        /\ stored'[r].object = "deleted" /\ stored'[r].reservation = stored[r].reservation
    BY <1>1, <1>2, <1>5, Known, BlobColumn
  <2>2. stored[r].reservation # "reserved"
    BY <1>1, <1>2, Known DEF Good
  <2> QED
    BY <1>1, <1>2, <1>3, <2>1, <2>2, StorageChanges DEF Reconciles
<1> QED
  BY <1>4, <1>5 DEF EraseStale

LEMMA SettleReconciles ==
  ASSUME IngestionInv, SettleStale
  PROVE  Reconciles
<1> DEFINE r == reconciler.run
<1>1. r \in Runs
  BY ReconcilerRun
<1>2. /\ reconciler' \in Reconciler /\ reconciler'.step # "erase"
      /\ UNCHANGED <<stored, importer, resource, listed, faults>>
  BY <1>1, Known, ReconcilerIs DEF SettleStale
<1>3. CASE UNCHANGED run
  BY <1>1, <1>2, <1>3, Known, NothingMoves DEF Reconciles
<1>4. CASE run[r].status = "processing" /\ run' = [run EXCEPT ![r] = Ended(run[r], "failed")]
  <2>1. Ended(run[r], "failed").expected = run[r].expected
    BY <1>1, Known DEF Ended, RunRow
  <2> QED
    BY <1>1, <1>2, <1>4, <2>1, Known, EndedRow, RowChanges DEF Reconciles
<1>5. CASE run[r].status = "processing" /\ run' = [run EXCEPT ![r] = [run[r] EXCEPT !.state = "ambiguous"]]
  <2> DEFINE row == [run[r] EXCEPT !.state = "ambiguous"]
  <2>1. row \in RunRow /\ row.status = run[r].status /\ row.object = run[r].object
        /\ row.expected = run[r].expected
    BY <1>1, Known, RowsOfRecovery
  <2>2. run' = [run EXCEPT ![r] = row]
    BY <1>5
  <2> HIDE DEF row
  <2>3. Moves(r)
    BY <1>1, <1>2, <1>5, <2>1, <2>2, RowChanges
  <2> QED
    BY <1>1, <1>2, <2>3 DEF Reconciles
<1> QED
  BY <1>1, <1>3, <1>4, <1>5, Known DEF SettleStale

----------------------------------------------------------------------------
(* The theorems.                                                           *)

LEMMA RecoveryKeepsInv ==
  ASSUME IngestionInv, Recovery
  PROVE  IngestionInv'
<1>1. ASSUME NEW r \in Runs, LateCompletion(r) \/ ImporterDies(r) PROVE IngestionInv'
  BY <1>1, LateCompletionMoves, RequestsMove, MovesKeepsInv DEF LateCompletion, ImporterDies
<1>2. ASSUME NEW r \in Runs, ClaimStale(r) \/ RunLeaseEnds(r) PROVE IngestionInv'
  BY <1>2, StaleKept, MovesKeepsInv
<1>3. CASE ReconcileStale
  <2>1. Reconciles
    BY <1>3, LookReconciles, UnreserveReconciles, AdoptReconciles, ReleaseReconciles, EraseReconciles,
       SettleReconciles DEF ReconcileStale
  <2> QED
    BY <2>1, ReconcilerRun, MovesKeepsInv DEF Reconciles
<1>4. CASE ReconcilerDies
  <2>1. reconciler' \in Reconciler /\ reconciler'.step # "erase"
    BY <1>4, ReconcilerRun, Known, ReconcilerIs DEF ReconcilerDies
  <2>2. Moves(reconciler.run)
    BY <1>4, <2>1, ReconcilerRun, Known, NothingMoves DEF ReconcilerDies
  <2> QED
    BY <2>1, <2>2, ReconcilerRun, MovesKeepsInv
<1>5. CASE ProviderChanges
  <2>1. listed' \in Changes /\ UNCHANGED <<run, stored, importer, resource, reconciler, faults>>
    BY <1>5, ReconcilerRun, Known DEF ProviderChanges, Changes
  <2>2. Moves(reconciler.run)
    BY <2>1, ReconcilerRun, Known, NothingMoves
  <2> QED
    BY <2>1, <2>2, ReconcilerRun, MovesKeepsInv
<1> QED
  BY <1>1, <1>2, <1>3, <1>4, <1>5 DEF Recovery

LEMMA ImportsKeepInv ==
  ASSUME IngestionInv, NEW r \in Runs,
         Pipeline(r) \/ RequestImport(r) \/ FailImport(r) \/ AnswerImport(r)
  PROVE  IngestionInv'
<1>1. Moves(r)
  BY PipelineMoves, RequestsMove
<1>2. UNCHANGED reconciler
  BY DEF Pipeline, Fetch, CompleteNoop, ReserveStorage, TrackReservation, Untrack, WriteObject,
     CommitStorage, AttachObject, ResolveAttachment, DropUnattached, Complete152, RecoverCompletion,
     Compensate, HeartbeatFails, RequestImport, ReserveRun, FailImport, FailRun, AnswerImport
<1> QED
  BY <1>1, <1>2, MovesKeepsInv

LEMMA StepKeepsInv == IngestionInv /\ [IngestionNext]_ingestionVars => IngestionInv'
<1> SUFFICES ASSUME IngestionInv, [IngestionNext]_ingestionVars PROVE IngestionInv'
  OBVIOUS
<1>1. CASE IngestionNext
  BY <1>1, ImportsKeepInv, RecoveryKeepsInv DEF IngestionNext
<1>2. CASE UNCHANGED ingestionVars
  BY <1>2 DEF ingestionVars, IngestionInv, Typed, OneImport, ErasingDeleted, ReconcilerAt
<1> QED
  BY <1>1, <1>2

LEMMA InvIsSafe == IngestionInv => IngestionTypeOK /\ CommittedObjectKept /\ CursorStaysPut
BY TypedIsTypeOK DEF IngestionInv, OneImport, Good, CommittedObjectKept, CursorStaysPut

\* Every row, importer and reconciler keeps its type (migrations 056, 150, 152).
THEOREM IngestionTypeCorrect == IngestionSpec => []IngestionTypeOK
BY InitInv, StepKeepsInv, InvIsSafe, PTL DEF IngestionSpec

\* The object that a committed run refers to is never released, whoever compensates,
\* recovers or reconciles (protect_incremental_history_storage152).
THEOREM CommittedObjectStays == IngestionSpec => []CommittedObjectKept
BY InitInv, StepKeepsInv, InvIsSafe, PTL DEF IngestionSpec

\* No import works for a cursor that another one has moved (incremental_cursor_conflict).
THEOREM CursorNotOvertaken == IngestionSpec => []CursorStaysPut
BY InitInv, StepKeepsInv, InvIsSafe, PTL DEF IngestionSpec

----------------------------------------------------------------------------
(* The storage of imports that have failed.                                *)

\* Storage that cannot become a committed object any more.
Spent(st) == st.reservation \in {"released", "committed"} /\ st.object # "active"

\* A run reserves once, and has an object only by the commit of its reservation.
Accounted(row, st, im) ==
  /\ row.status = "none" \/ im.step \in Early => st.reservation = "none"
  /\ st.object # "none" => st.reservation = "committed"
  /\ im.step \in {"track", "untrack", "write", "commit"} => st.reservation # "committed"

\* The steps from the completion of an import to the answer that it failed.
Concluding == {"complete", "recover", "compensate", "error"}

\* A manual import comes to an error only without an object, or with one that its run
\* refers to, which keeps the run from failing; once failed it cannot commit any more.
Owned(row, st, im) ==
  /\ im.step \in Concluding /\ st.object = "active" => row.object
  /\ row.status = "failed" => st.object # "active" /\ (im.step = "idle" \/ Spent(st))

\* The reconciler settles a failure only for storage that is spent.
SettlesSpent ==
  ReconcilerAt("settle") /\ reconciler.outcome = "failed" => Spent(stored[reconciler.run])

AccountOf(r) ==
  /\ Accounted(run[r], stored[r], importer[r])
  /\ r \notin Unattended => Owned(run[r], stored[r], importer[r])

StorageInv == (\A r \in Runs : AccountOf(r)) /\ SettlesSpent

KeepsAccount(r) == AccountOf(r)' /\ (Spent(stored[r]) => Spent(stored'[r]))

\* A step leaves the other runs alone.
Only(r) ==
  \A s \in Runs : s # r => run'[s] = run[s] /\ stored'[s] = stored[s] /\ importer'[s] = importer[s]

LEMMA MovesOnly ==
  ASSUME IngestionInv, NEW r \in Runs, Moves(r)
  PROVE  Only(r)
BY DEF Moves, Only, IngestionInv, Typed

LEMMA AccountsKept ==
  ASSUME IngestionInv, StorageInv, NEW r \in Runs, Only(r), KeepsAccount(r),
         UNCHANGED reconciler \/ SettlesSpent'
  PROVE  StorageInv'
<1>1. \A s \in Runs : AccountOf(s)'
  BY DEF Only, StorageInv, KeepsAccount, AccountOf
<1>2. SettlesSpent'
  BY ReconcilerRun DEF Only, StorageInv, KeepsAccount, SettlesSpent, ReconcilerAt
<1> QED
  BY <1>1, <1>2 DEF StorageInv

\* A step that writes neither the row nor the storage.
LEMMA StepAccounts ==
  ASSUME StorageInv, NEW r \in Runs, UNCHANGED <<run, stored>>,
         \/ importer'[r].step = importer[r].step
         \/ /\ importer[r].step # "idle"
            /\ importer'[r].step \in Early => stored[r].reservation = "none"
            /\ importer'[r].step \in {"track", "untrack", "write", "commit"}
                 => stored[r].reservation # "committed"
            /\ r \notin Unattended /\ importer'[r].step \in Concluding /\ stored[r].object = "active"
                 => run[r].object
  PROVE  KeepsAccount(r)
BY DEF StorageInv, KeepsAccount, AccountOf, Accounted, Owned, Concluding

\* A step that writes the row, and keeps its status and what it knows of the storage.
LEMMA RowAccounts ==
  ASSUME StorageInv, NEW r \in Runs, UNCHANGED stored, run'[r].status = run[r].status,
         run[r].object => run'[r].object,
         \/ importer'[r].step = importer[r].step
         \/ /\ importer[r].step # "idle" /\ importer'[r].step \notin Early
            /\ importer'[r].step \in {"track", "untrack", "write", "commit"}
                 => stored[r].reservation # "committed"
            /\ importer'[r].step \in Concluding /\ stored[r].object = "active" => run'[r].object
  PROVE  KeepsAccount(r)
BY DEF StorageInv, KeepsAccount, AccountOf, Accounted, Owned, Concluding

\* A run that ends keeps its storage.
LEMMA EndAccounts ==
  ASSUME StorageInv, NEW r \in Runs, UNCHANGED stored, run[r].status = "processing",
         run'[r].status \in {"succeeded", "failed"}, run'[r].object = run[r].object,
         \/ importer'[r].step = importer[r].step
         \/ importer'[r].step \in {"ok", "recover", "error", "idle", "report"},
         r \notin Unattended /\ importer'[r].step \in Concluding /\ stored[r].object = "active"
           => run[r].object,
         r \notin Unattended /\ run'[r].status = "failed" =>
           stored[r].object # "active" /\ (importer'[r].step = "idle" \/ Spent(stored[r]))
  PROVE  KeepsAccount(r)
BY DEF StorageInv, KeepsAccount, AccountOf, Accounted, Owned, Concluding, Early

\* What the storage invariant says of a run.
LEMMA Account ==
  ASSUME StorageInv, NEW r \in Runs
  PROVE  /\ Accounted(run[r], stored[r], importer[r])
         /\ r \notin Unattended => Owned(run[r], stored[r], importer[r])
BY DEF StorageInv, AccountOf

----------------------------------------------------------------------------
(* The pipeline, step by step.                                             *)

LEMMA EarlyAccounts ==
  ASSUME IngestionInv, StorageInv, NEW r \in Runs, Fetch(r) \/ CompleteNoop(r) \/ ReserveStorage(r)
  PROVE  KeepsAccount(r)
<1>1. /\ importer[r].step \in {"fetch", "noop", "reserve"} /\ run[r].status # "none"
      /\ stored[r].reservation = "none" /\ stored[r].object = "none"
  BY Known, Account DEF Fetch, CompleteNoop, ReserveStorage, StepOf, Accounted, Good, Early
<1>2. ASSUME Fetch(r) \/ CompleteNoop(r)
      PROVE  importer'[r].step \in {"noop", "reserve", "error", "ok"}
  BY <1>2, Known, GoOnIs DEF Fetch, CompleteNoop, ImportSteps, Importer
<1>3. CASE (Fetch(r) \/ CompleteNoop(r)) /\ UNCHANGED <<run, stored>>
  BY <1>1, <1>2, <1>3, StepAccounts
<1>4. CASE CompleteNoop(r) /\ Leased(r) /\ run' = [run EXCEPT ![r] = Ended(@, "succeeded")]
  <2>1. run'[r].status = "succeeded" /\ run'[r].object = run[r].object
    BY <1>4, Known, EndedRow
  <2>2. importer'[r].step \in {"ok", "error"} /\ UNCHANGED stored
    BY <1>4, Known, GoOnIs DEF CompleteNoop, ImportSteps
  <2> QED
    BY <1>1, <1>4, <2>1, <2>2, EndAccounts DEF Leased
<1>5. CASE ReserveStorage(r)
  <2>1. importer'[r].step \in {"track", "error"} /\ UNCHANGED run
    BY <1>5, Known, GoOnIs DEF ReserveStorage, ImportSteps
  <2>2. CASE UNCHANGED stored
    BY <1>1, <2>1, <2>2, StepAccounts DEF Early
  <2>3. CASE stored' = [stored EXCEPT ![r].reservation = "reserved"]
    <3>1. stored'[r].reservation = "reserved" /\ stored'[r].object = "none"
      BY <1>1, <2>3, Known DEF Storage
    <3> QED
      BY <1>1, <2>1, <3>1, Account DEF KeepsAccount, AccountOf, Accounted, Owned, Concluding, Spent, Early
  <2> QED
    BY <1>5, <2>2, <2>3 DEF ReserveStorage
<1> QED
  BY <1>3, <1>4, <1>5 DEF Fetch, CompleteNoop

LEMMA TrackAccounts ==
  ASSUME IngestionInv, StorageInv, NEW r \in Runs, TrackReservation(r) \/ AttachObject(r)
  PROVE  KeepsAccount(r)
<1>1. importer[r].step = "track" => stored[r].reservation # "committed" /\ stored[r].object # "active"
  BY Account, Known DEF Accounted, Storage
<1>2. /\ importer[r].step \in {"track", "attach"} /\ UNCHANGED stored
      /\ importer[r].step = "track" => importer'[r].step \in {"write", "untrack"}
      /\ importer[r].step = "attach" => importer'[r].step \in {"complete", "resolve"}
  BY Known, GoOnIs DEF TrackReservation, AttachObject, StepOf, ImportSteps
<1>3. CASE UNCHANGED run /\ importer'[r].step # "complete"
  BY <1>1, <1>2, <1>3, StepAccounts DEF Early, Concluding
<1>4. CASE \/ run' = [run EXCEPT ![r].tracked = TRUE] /\ importer[r].step = "track"
           \/ run' = [run EXCEPT ![r].object = TRUE, ![r].tracked = TRUE]
  <2>1. /\ run'[r].status = run[r].status /\ (run[r].object => run'[r].object)
        /\ importer[r].step = "attach" => run'[r].object
    BY <1>4, Known DEF RunRow
  <2> QED
    BY <1>1, <1>2, <2>1, RowAccounts DEF Early, Concluding
<1> QED
  BY <1>2, <1>3, <1>4, Known, GoOnIs DEF TrackReservation, AttachObject, StepOf, ImportSteps

LEMMA WriteAccounts ==
  ASSUME IngestionInv, StorageInv, NEW r \in Runs, Untrack(r) \/ WriteObject(r) \/ CommitStorage(r)
  PROVE  KeepsAccount(r)
<1>1. /\ importer[r].step \in {"untrack", "write", "commit"} /\ UNCHANGED run /\ run[r].status # "none"
      /\ importer'[r].step \in {"commit", "attach", "untrack", "error", "unknown"}
      /\ importer[r].step = "commit" => importer'[r].step \in {"attach", "error", "unknown"}
  BY Known, GoOnIs DEF Untrack, WriteObject, CommitStorage, StepOf, ImportSteps, Good
<1>2. stored[r].reservation # "committed" /\ stored[r].object = "none"
  BY <1>1, Account DEF Accounted
<1>3. CASE UNCHANGED stored
  BY <1>1, <1>2, <1>3, StepAccounts DEF Early, Concluding
<1>4. CASE stored' = Unreserved(r) \/ stored' = [stored EXCEPT ![r].blob = TRUE]
  <2>1. /\ stored'[r].object = "none" /\ stored'[r].reservation # "committed"
        /\ stored[r].reservation = "released" => stored'[r].reservation = "released"
    BY <1>2, <1>4, Known DEF Unreserved, Storage
  <2> QED
    BY <1>1, <1>2, <2>1, Account DEF KeepsAccount, AccountOf, Accounted, Owned, Concluding, Spent, Early
<1>5. CASE /\ stored[r].reservation = "reserved" /\ importer[r].step = "commit"
           /\ stored' = [stored EXCEPT ![r].reservation = "committed", ![r].object = "active"]
           /\ GoOn(r, "attach") \/ GoOn(r, "unknown")
  <2>1. stored'[r].reservation = "committed" /\ stored'[r].object = "active"
    BY <1>5, Known DEF Storage
  <2>2. importer'[r].step \in {"attach", "unknown"}
    BY <1>5, Known, GoOnIs DEF ImportSteps
  <2>3. ~Spent(stored[r])
    BY <1>5 DEF Spent
  <2> QED
    BY <1>1, <1>5, <2>1, <2>2, <2>3, Account DEF KeepsAccount, AccountOf, Accounted, Owned, Concluding, Early
<1> QED
  BY <1>3, <1>4, <1>5 DEF Untrack, WriteObject, CommitStorage, StepOf

LEMMA DroppedAccounts ==
  ASSUME IngestionInv, StorageInv, NEW r \in Runs, DropUnattached(r) \/ Compensate(r)
  PROVE  KeepsAccount(r)
<1>1. /\ UNCHANGED run /\ run[r].status # "none"
      /\ \/ importer[r].step = "drop" /\ importer'[r].step = "unknown"
         \/ importer[r].step = "compensate" /\ importer'[r].step = "error"
  BY Known, GoOnIs DEF DropUnattached, Compensate, Dropped, StepOf, ImportSteps, Good
<1>2. CASE UNCHANGED stored
  BY <1>1, <1>2, Account, StepAccounts DEF Owned, Concluding, Early
<1>3. CASE /\ Releasable(r)
           /\ \/ stored' = [stored EXCEPT ![r].object = "deleted", ![r].blob = FALSE]
              \/ stored' = [stored EXCEPT ![r].object = "deleted"]
  <2>1. stored'[r].object = "deleted" /\ stored'[r].reservation = "committed"
    BY <1>3, Known, Account DEF Releasable, Accounted, Storage
  <2> QED
    BY <1>1, <2>1, Account DEF KeepsAccount, AccountOf, Accounted, Owned, Concluding, Spent, Early
<1> QED
  BY <1>2, <1>3 DEF DropUnattached, Compensate, Dropped

\* An object that a completion is tried for is the one that its run refers to.
LEMMA CompleteAccounts ==
  ASSUME IngestionInv, StorageInv, NEW r \in Runs,
         \/ Complete152(r) \/ RecoverCompletion(r) \/ ResolveAttachment(r) \/ HeartbeatFails(r)
  PROVE  KeepsAccount(r)
<1>1. UNCHANGED stored
  BY DEF Complete152, RecoverCompletion, ResolveAttachment, HeartbeatFails
<1>2. CASE Complete152(r)
  <2>1. importer[r].step = "complete" /\ importer'[r].step \in {"ok", "recover"}
    <3>1. CASE importer' = [importer EXCEPT ![r].step = "recover", ![r].late = TRUE]
      BY <1>2, <3>1, Known DEF Complete152, StepOf, Importer
    <3>2. CASE GoOn(r, "ok") \/ GoOn(r, "recover")
      BY <1>2, <3>2, Known, GoOnIs DEF Complete152, StepOf, ImportSteps
    <3> QED
      BY <1>2, <3>1, <3>2 DEF Complete152
  <2>2. CASE UNCHANGED run
    BY <1>1, <2>1, <2>2, Account, StepAccounts DEF Owned, Concluding, Early
  <2>3. CASE Committable(r) /\ CommitRun(r)
    <3>1. run'[r].status = "succeeded" /\ run'[r].object = run[r].object /\ run[r].object
      BY <2>3, Known, EndedRow DEF CommitRun, Committable
    <3>2. run[r].status = "processing"
      BY <2>3 DEF Committable, Leased
    <3> QED
      BY <1>1, <2>1, <3>1, <3>2, EndAccounts
  <2> QED
    BY <1>2, <2>2, <2>3 DEF Complete152
<1>3. CASE RecoverCompletion(r)
  <2>1. importer[r].step = "recover" /\ importer'[r].step \in {"ok", "compensate", "unknown"}
    BY <1>3, Known, GoOnIs DEF RecoverCompletion, StepOf, ImportSteps
  <2> QED
    BY <1>1, <1>3, <2>1, Account, StepAccounts DEF RecoverCompletion, Owned, Concluding, Early
<1>4. CASE ResolveAttachment(r)
  <2>1. /\ importer[r].step = "resolve" /\ importer'[r].step \in {"complete", "drop", "unknown"}
        /\ importer'[r].step = "complete" => run[r].object
    BY <1>4, Known, GoOnIs DEF ResolveAttachment, StepOf, ImportSteps
  <2> QED
    BY <1>1, <1>4, <2>1, StepAccounts DEF ResolveAttachment, Early, Concluding
<1>5. CASE HeartbeatFails(r)
  <2>1. /\ importer[r].step \in {"reserve", "write", "complete"}
        /\ importer'[r].step = IF importer[r].step = "write" THEN "untrack" ELSE "error"
    BY <1>5, Known, GoOnIs DEF HeartbeatFails, HeartbeatSteps, StepOf, ImportSteps
  <2>2. importer[r].step \in {"reserve", "write"} =>
          stored[r].reservation # "committed" /\ stored[r].object # "active"
    BY Account DEF Accounted, Early
  <2> QED
    BY <1>1, <1>5, <2>1, <2>2, Account, StepAccounts DEF HeartbeatFails, Owned, Concluding, Early
<1> QED
  BY <1>2, <1>3, <1>4, <1>5

LEMMA PipelineAccounts ==
  ASSUME IngestionInv, StorageInv, NEW r \in Runs, Pipeline(r)
  PROVE  KeepsAccount(r)
BY EarlyAccounts, TrackAccounts, WriteAccounts, DroppedAccounts, CompleteAccounts DEF Pipeline

----------------------------------------------------------------------------
(* Requests, and what goes on without them.                                *)

LEMMA ReserveRunAccounts ==
  ASSUME IngestionInv, StorageInv, NEW r \in Runs, NEW next \in {"fetch", "claim", "report"},
         ReserveRun(r, next)
  PROVE  KeepsAccount(r)
<1>1. stored[r].reservation = "none" /\ stored[r].object = "none"
  BY Known, Account DEF ReserveRun, Accounted, Good
<1>2. run'[r].status = "processing"
  BY Known DEF ReserveRun, NoRun
<1>3. importer'[r].step = next
  BY Known, GoOnIs DEF ReserveRun, ImportSteps
<1> QED
  BY <1>1, <1>2, <1>3 DEF ReserveRun, KeepsAccount, AccountOf, Accounted, Owned, Concluding, Spent

LEMMA FailRunAccounts ==
  ASSUME IngestionInv, StorageInv, NEW r \in Runs, NEW next \in {"idle", "report"},
         FailRun(r, next), importer[r].step # "idle",
         r \notin Unattended => importer[r].step = "error" /\ next = "idle"
  PROVE  KeepsAccount(r)
<1>1. importer'[r].step = next /\ UNCHANGED stored
  BY Known, GoOnIs DEF FailRun, ImportSteps
<1>2. CASE UNCHANGED run
  BY <1>1, <1>2, StepAccounts DEF Early, Concluding
<1>3. CASE Failable(r) /\ run' = [run EXCEPT ![r] = Ended(@, "failed")]
  <2>1. run'[r].status = "failed" /\ run'[r].object = run[r].object
    BY <1>3, Known, EndedRow
  <2>2. r \notin Unattended => stored[r].object # "active"
    BY <1>3, Account DEF Failable, Owned, Concluding
  <2> QED
    BY <1>1, <1>3, <2>1, <2>2, EndAccounts DEF Failable, Leased
<1> QED
  BY <1>2, <1>3 DEF FailRun

LEMMA RequestsAccount ==
  ASSUME IngestionInv, StorageInv, NEW r \in Runs,
         RequestImport(r) \/ FailImport(r) \/ AnswerImport(r) \/ ImporterDies(r)
  PROVE  KeepsAccount(r)
<1>1. CASE AnswerImport(r) \/ ImporterDies(r)
  <2>1. importer'[r].step = "idle" /\ importer[r].step # "idle" /\ UNCHANGED <<run, stored>>
    BY <1>1, Known, GoOnIs DEF AnswerImport, ImporterDies, Executing, ImportSteps
  <2> QED
    BY <2>1, StepAccounts DEF Early, Concluding
<1> QED
  BY <1>1, ReserveRunAccounts, FailRunAccounts DEF RequestImport, FailImport, FailStep, StepOf

LEMMA LateCompletionAccounts ==
  ASSUME IngestionInv, StorageInv, NEW r \in Runs, LateCompletion(r)
  PROVE  KeepsAccount(r)
<1>1. importer'[r].step = importer[r].step /\ UNCHANGED stored
  BY Known DEF LateCompletion, Importer
<1>2. CASE UNCHANGED run
  BY <1>1, <1>2, StepAccounts
<1>3. CASE Committable(r) /\ CommitRun(r)
  <2>1. run'[r].status = "succeeded" /\ run'[r].object = run[r].object /\ run[r].object
    BY <1>3, Known, EndedRow DEF CommitRun, Committable
  <2>2. run[r].status = "processing"
    BY <1>3 DEF Committable, Leased
  <2> QED
    BY <1>1, <2>1, <2>2, EndAccounts
<1> QED
  BY <1>2, <1>3 DEF LateCompletion

LEMMA StaleAccounts ==
  ASSUME IngestionInv, StorageInv, NEW r \in Runs, ClaimStale(r) \/ RunLeaseEnds(r)
  PROVE  KeepsAccount(r) /\ (UNCHANGED reconciler \/ SettlesSpent')
<1>1. UNCHANGED <<stored, importer>>
  BY DEF ClaimStale, RunLeaseEnds
<1>2. run' = [run EXCEPT ![r] = Taken(run[r])] \/ run' = [run EXCEPT ![r] = [run[r] EXCEPT !.expired = TRUE]]
  BY Known, RunColumns DEF ClaimStale, RunLeaseEnds
<1>3. run'[r].status = run[r].status /\ run'[r].object = run[r].object
  <2>1. run[r] \in RunRow /\ run \in [Runs -> RunRow]
    BY Known
  <2>2. CASE run' = [run EXCEPT ![r] = Taken(run[r])]
    BY <2>1, <2>2, RowsOfRecovery
  <2>3. CASE run' = [run EXCEPT ![r] = [run[r] EXCEPT !.expired = TRUE]]
    BY <2>1, <2>3 DEF RunRow
  <2> QED
    BY <1>2, <2>2, <2>3
<1>4. UNCHANGED reconciler \/ reconciler'.step = "look"
  BY Known DEF ClaimStale, RunLeaseEnds, Reconciler
<1> QED
  BY <1>1, <1>3, <1>4, RowAccounts DEF SettlesSpent, ReconcilerAt

----------------------------------------------------------------------------
(* The reconciler.                                                         *)

\* What a step of the reconciler does to the storage, and when it goes on to a failure.
Settling == KeepsAccount(reconciler.run) /\ SettlesSpent'

\* What Settles and its like write.
LEMMA ReconcilerSettles ==
  ASSUME reconciler \in Reconciler
  PROVE  /\ \A outcome \in {"failed", "ambiguous"} : Settles(outcome) =>
              reconciler'.outcome = outcome /\ reconciler'.run = reconciler.run
         /\ GivesUp => reconciler'.outcome = "ambiguous"
BY DEF Settles, GivesUp, Reconciler

LEMMA LookSettles ==
  ASSUME IngestionInv, StorageInv, Look
  PROVE  Settling
<1> PICK r \in Runs : r = reconciler.run
  BY ReconcilerRun
<1>1. UNCHANGED <<run, stored, importer>>
  BY DEF Look
<1>2. KeepsAccount(r)
  BY <1>1, StepAccounts
<1>3. CASE Settles("failed") /\ stored[r].reservation = "released"
  <2>1. Spent(stored[r])
    BY <1>3, Known, Account DEF Accounted, Spent, Storage
  <2> QED
    BY <1>1, <1>2, <1>3, <2>1, Known, ReconcilerSettles DEF Settling, SettlesSpent
<1>4. CASE Settles("ambiguous") \/ GivesUp
  BY <1>2, <1>4, Known, ReconcilerSettles DEF Settling, SettlesSpent
<1>5. CASE ReconcilerGoes("unreserve") \/ ReconcilerGoes("adopt")
  <2>1. reconciler'.step # "settle"
    BY <1>5, Known DEF ReconcilerGoes, Reconciler
  <2> QED
    BY <1>2, <2>1 DEF Settling, SettlesSpent, ReconcilerAt
<1> QED
  BY <1>3, <1>4, <1>5 DEF Look

LEMMA UnreserveSettles ==
  ASSUME IngestionInv, StorageInv, UnreserveStale
  PROVE  Settling
<1> PICK r \in Runs : r = reconciler.run
  BY ReconcilerRun
<1>1. UNCHANGED <<run, importer>>
  BY DEF UnreserveStale
<1>2. CASE UNCHANGED stored /\ (GivesUp \/ Settles("ambiguous"))
  <2>1. KeepsAccount(r)
    BY <1>1, <1>2, StepAccounts
  <2> QED
    BY <1>2, <2>1, Known, ReconcilerSettles DEF Settling, SettlesSpent
<1>3. CASE /\ stored[r].reservation = "reserved"
           /\ stored' = Unreserved(r) \/ stored' = [Unreserved(r) EXCEPT ![r].blob = FALSE]
           /\ GivesUp \/ Settles("failed")
  <2>1. stored[r].object = "none"
    BY <1>3, Known DEF Good
  <2>2. stored'[r].reservation = "released" /\ stored'[r].object = "none"
    BY <1>3, <2>1, Known DEF Unreserved, Storage
  <2>3. KeepsAccount(r)
    BY <1>1, <1>3, <2>2, Account DEF KeepsAccount, AccountOf, Accounted, Owned, Concluding, Spent
  <2>4. Spent(stored'[r])
    BY <2>2 DEF Spent
  <2> QED
    BY <1>3, <2>3, <2>4, Known, ReconcilerSettles DEF Settling, SettlesSpent
<1> QED
  BY <1>2, <1>3 DEF UnreserveStale

LEMMA AdoptSettles ==
  ASSUME IngestionInv, StorageInv, Adopt
  PROVE  Settling
<1> PICK r \in Runs : r = reconciler.run
  BY ReconcilerRun
<1>1. UNCHANGED <<stored, importer>>
  BY DEF Adopt
<1>2. run'[r].status = run[r].status /\ (run[r].object => run'[r].object)
  BY Known DEF Adopt, RunRow
<1>3. KeepsAccount(r)
  BY <1>1, <1>2, RowAccounts
<1>4. CASE Settles("ambiguous") \/ GivesUp
  BY <1>3, <1>4, Known, ReconcilerSettles DEF Settling, SettlesSpent
<1>5. CASE ReconcilerGoes("release")
  <2>1. reconciler'.step # "settle"
    BY <1>5, Known DEF ReconcilerGoes, Reconciler
  <2> QED
    BY <1>3, <2>1 DEF Settling, SettlesSpent, ReconcilerAt
<1> QED
  BY <1>4, <1>5 DEF Adopt

LEMMA ReleaseSettles ==
  ASSUME IngestionInv, StorageInv, ReleaseStale
  PROVE  Settling
<1> PICK r \in Runs : r = reconciler.run
  BY ReconcilerRun
<1>1. UNCHANGED <<run, importer>>
  BY DEF ReleaseStale
<1>2. CASE GivesUp /\ UNCHANGED stored
  <2>1. KeepsAccount(r)
    BY <1>1, <1>2, StepAccounts
  <2> QED
    BY <1>2, <2>1, Known, ReconcilerSettles DEF Settling, SettlesSpent
<1>3. CASE /\ stored[r].object = "deleted" \/ Releasable(r)
           /\ stored' = [stored EXCEPT ![r].object = "deleted"]
           /\ ReconcilerGoes("erase")
  <2>1. stored[r].reservation = "committed"
    BY <1>3, Account DEF Releasable, Accounted
  <2>2. stored'[r].object = "deleted" /\ stored'[r].reservation = "committed"
    BY <1>3, <2>1, Known DEF Storage
  <2>3. KeepsAccount(r)
    BY <1>1, <2>1, <2>2, Account DEF KeepsAccount, AccountOf, Accounted, Owned, Concluding, Spent
  <2>4. reconciler'.step # "settle"
    BY <1>3, Known DEF ReconcilerGoes, Reconciler
  <2> QED
    BY <2>3, <2>4 DEF Settling, SettlesSpent, ReconcilerAt
<1> QED
  BY <1>2, <1>3 DEF ReleaseStale

LEMMA EraseSettles ==
  ASSUME IngestionInv, StorageInv, EraseStale
  PROVE  Settling
<1> PICK r \in Runs : r = reconciler.run
  BY ReconcilerRun
<1>1. UNCHANGED <<run, importer>> /\ stored[r].object = "deleted" /\ stored[r].reservation = "committed"
  BY Account DEF EraseStale, IngestionInv, ErasingDeleted, Accounted
<1>2. stored'[r].object = "deleted" /\ stored'[r].reservation = "committed"
  BY <1>1, Known DEF EraseStale, Storage
<1>3. KeepsAccount(r)
  BY <1>1, <1>2, Account DEF KeepsAccount, AccountOf, Accounted, Owned, Concluding, Spent
<1>4. Spent(stored'[r])
  BY <1>2 DEF Spent
<1>5. reconciler'.run = r
  BY Known, ReconcilerIs DEF EraseStale
<1> QED
  BY <1>3, <1>4, <1>5 DEF Settling, SettlesSpent

LEMMA SettleSettles ==
  ASSUME IngestionInv, StorageInv, SettleStale
  PROVE  Settling
<1> PICK r \in Runs : r = reconciler.run
  BY ReconcilerRun
<1>1. UNCHANGED <<stored, importer>> /\ ReconcilerAt("settle")
  BY DEF SettleStale
<1>2. reconciler'.step = "idle"
  BY Known DEF SettleStale, ReconcilerGoes, Reconciler
<1>3. KeepsAccount(r)
  <2>1. CASE UNCHANGED run
    BY <1>1, <2>1, StepAccounts
  <2>2. CASE /\ run[r].status = "processing" /\ reconciler.outcome = "failed"
             /\ run' = [run EXCEPT ![r] = Ended(run[r], "failed")]
    <3>1. run'[r].status = "failed" /\ run'[r].object = run[r].object
      BY <2>2, Known, EndedRow
    <3>2. Spent(stored[r])
      BY <1>1, <2>2 DEF StorageInv, SettlesSpent
    <3> QED
      BY <1>1, <2>2, <3>1, <3>2, EndAccounts DEF Spent
  <2>3. CASE run' = [run EXCEPT ![r].state = "ambiguous"]
    <3>1. run'[r].status = run[r].status /\ run'[r].object = run[r].object
      BY <2>3, Known DEF RunRow
    <3> QED
      BY <1>1, <3>1, RowAccounts
  <2> QED
    BY <2>1, <2>2, <2>3, Known DEF SettleStale
<1> QED
  BY <1>2, <1>3 DEF Settling, SettlesSpent, ReconcilerAt

----------------------------------------------------------------------------
(* The storage invariant is kept.                                          *)

LEMMA NothingAccounts ==
  ASSUME IngestionInv, StorageInv, UNCHANGED <<run, stored, importer>>,
         UNCHANGED reconciler \/ reconciler'.step = "idle"
  PROVE  StorageInv'
<1>1. KeepsAccount(reconciler.run) /\ Only(reconciler.run)
  BY ReconcilerRun, StepAccounts DEF Only
<1>2. UNCHANGED reconciler \/ SettlesSpent'
  BY DEF SettlesSpent, ReconcilerAt
<1> QED
  BY <1>1, <1>2, ReconcilerRun, AccountsKept

LEMMA PipelineKeepsStorage ==
  ASSUME IngestionInv, StorageInv, NEW r \in Runs, Pipeline(r)
  PROVE  StorageInv'
<1>1. UNCHANGED reconciler
  BY DEF Pipeline, Fetch, CompleteNoop, ReserveStorage, TrackReservation, Untrack, WriteObject,
     CommitStorage, AttachObject, ResolveAttachment, DropUnattached, Complete152, RecoverCompletion,
     Compensate, HeartbeatFails
<1> QED
  BY <1>1, PipelineMoves, PipelineAccounts, MovesOnly, AccountsKept

LEMMA RecoveryKeepsStorage ==
  ASSUME IngestionInv, StorageInv, Recovery
  PROVE  StorageInv'
<1>1. ASSUME NEW r \in Runs, LateCompletion(r) PROVE StorageInv'
  BY <1>1, LateCompletionMoves, LateCompletionAccounts, MovesOnly, AccountsKept DEF LateCompletion
<1>2. ASSUME NEW r \in Runs, ImporterDies(r) PROVE StorageInv'
  BY <1>2, RequestsMove, RequestsAccount, MovesOnly, AccountsKept DEF ImporterDies
<1>3. ASSUME NEW r \in Runs, ClaimStale(r) \/ RunLeaseEnds(r) PROVE StorageInv'
  BY <1>3, StaleKept, StaleAccounts, MovesOnly, AccountsKept
<1>4. CASE ReconcileStale
  <2>1. Reconciles
    BY <1>4, LookReconciles, UnreserveReconciles, AdoptReconciles, ReleaseReconciles, EraseReconciles,
       SettleReconciles DEF ReconcileStale
  <2>2. Settling
    BY <1>4, LookSettles, UnreserveSettles, AdoptSettles, ReleaseSettles, EraseSettles, SettleSettles
       DEF ReconcileStale
  <2> QED
    BY <2>1, <2>2, ReconcilerRun, MovesOnly, AccountsKept DEF Reconciles, Settling
<1>5. CASE ReconcilerDies \/ ProviderChanges
  <2>1. UNCHANGED reconciler \/ reconciler'.step = "idle"
    BY <1>5, ReconcilerRun, Known DEF ReconcilerDies, ProviderChanges, ReconcilerGoes, Reconciler
  <2> QED
    BY <1>5, <2>1, NothingAccounts DEF ReconcilerDies, ProviderChanges
<1> QED
  BY <1>1, <1>2, <1>3, <1>4, <1>5 DEF Recovery

LEMMA ImportsKeepStorage == IngestionInv /\ StorageInv /\ [IngestionNext]_ingestionVars => StorageInv'
<1> SUFFICES ASSUME IngestionInv, StorageInv, [IngestionNext]_ingestionVars PROVE StorageInv'
  OBVIOUS
<1>1. ASSUME NEW r \in Runs, RequestImport(r) \/ FailImport(r) \/ AnswerImport(r) PROVE StorageInv'
  <2>1. UNCHANGED reconciler
    BY <1>1 DEF RequestImport, ReserveRun, FailImport, FailRun, AnswerImport
  <2> QED
    BY <1>1, <2>1, RequestsMove, RequestsAccount, MovesOnly, AccountsKept
<1>2. CASE UNCHANGED ingestionVars
  BY <1>2, NothingAccounts DEF ingestionVars
<1> QED
  BY <1>1, <1>2, PipelineKeepsStorage, RecoveryKeepsStorage DEF IngestionNext

LEMMA StorageInit == IngestionInit => StorageInv
BY DEF IngestionInit, StorageInv, AccountOf, Accounted, Owned, Concluding, SettlesSpent, ReconcilerAt,
   NoRun, NoStorage, IdleImporter

LEMMA StorageIsSafe == StorageInv => NoStorageLeft
BY DEF StorageInv, AccountOf, Owned, Concluding, NoStorageLeft

\* A failed import of a user leaves no storage object counted against the quota, however
\* compensations, recoveries, late commits and interrupted reconciliations fall.
THEOREM FailedImportLeavesNothing == IngestionSpec => []NoStorageLeft
BY InitInv, StepKeepsInv, StorageInit, ImportsKeepStorage, StorageIsSafe, PTL DEF IngestionSpec

----------------------------------------------------------------------------
(* The automatic synchronization.                                          *)

LEMMA ClaimNumbers == Unattended \subseteq Runs /\ Unattended \subseteq Nat \ {0}
<1>1. \A n \in Unattended : n \in 1 .. Cardinality(Unattended)
  BY AutomaticAssumption
<1>2. \A n \in Unattended : n \in Nat \ {0}
  BY <1>1
<1> QED
  BY <1>2, BoundsAreNatural

----------------------------------------------------------------------------
(* The invariant of the schedule.                                          *)

Schedule == [status : {"disabled", "waiting", "leased"}, due : BOOLEAN, expired : BOOLEAN,
             fence : Nat, attached : {0} \cup Unattended, success : {0} \cup Unattended]

Scheduled ==
  /\ schedule \in Schedule
  /\ schedule.status # "leased" => schedule.attached = 0 /\ ~schedule.expired
  /\ schedule.attached # 0 => schedule.attached = schedule.fence

\* The keys of the claims to come.
Unbegun(n) == run[n].status = "none" /\ importer[n].step = "idle"

AutomaticInv ==
  /\ IngestionInv
  /\ Scheduled
  /\ \A n \in Unattended : n > schedule.fence => Unbegun(n)
  /\ SuccessIsCommitted

\* What no step does to the rows: a success is undone, or a key is used without its claim.
RowsAge ==
  /\ \A r \in Runs : run[r].status = "succeeded" => run'[r].status = "succeeded"
  /\ \A n \in Unattended : Unbegun(n) => Unbegun(n)'

----------------------------------------------------------------------------
(* The steps of SourceIngestion.                                           *)

\* A step of one run that was neither unused nor over, or that keeps its status.
LEMMA OneAges ==
  ASSUME IngestionInv, NEW r \in Runs,
         run' = [run EXCEPT ![r] = run'[r]], importer' = [importer EXCEPT ![r] = importer'[r]],
         run[r].status = "succeeded" => run'[r].status = "succeeded",
         r \in Unattended /\ Unbegun(r) => Unbegun(r)'
  PROVE  RowsAge
BY Known, BoundsAreNatural DEF RowsAge, Unbegun

\* A step that ends a run, or keeps its status.
LEMMA StatusAges ==
  ASSUME IngestionInv, NEW r \in Runs,
         \/ UNCHANGED run
         \/ /\ run' = [run EXCEPT ![r] = run'[r]]
            /\ run[r].status = "processing" \/ run'[r].status = run[r].status,
         \/ UNCHANGED importer
         \/ /\ importer' = [importer EXCEPT ![r] = importer'[r]]
            /\ importer[r].step # "idle" \/ importer'[r].step = importer[r].step
  PROVE  RowsAge
<1>1. run' = [run EXCEPT ![r] = run'[r]] /\ importer' = [importer EXCEPT ![r] = importer'[r]]
  BY Known
<1>2. run[r].status = "succeeded" => run'[r].status = "succeeded"
  OBVIOUS
<1>3. Unbegun(r) => Unbegun(r)'
  BY DEF Unbegun
<1> QED
  BY <1>1, <1>2, <1>3, OneAges

LEMMA PipelineAges ==
  ASSUME IngestionInv, NEW r \in Runs, Pipeline(r)
  PROVE  RowsAge
<1>1. importer[r].step # "idle"
  BY DEF Pipeline, Fetch, CompleteNoop, ReserveStorage, TrackReservation, Untrack, WriteObject,
     CommitStorage, AttachObject, ResolveAttachment, DropUnattached, Complete152, RecoverCompletion,
     Compensate, HeartbeatFails, HeartbeatSteps, StepOf
<1>2. importer' = [importer EXCEPT ![r] = importer'[r]]
  BY PipelineMoves DEF Moves
<1>3. \/ UNCHANGED run
      \/ run[r].status = "processing" /\ \E row : run' = [run EXCEPT ![r] = row]
      \/ run' = [run EXCEPT ![r].tracked = TRUE]
      \/ run' = [run EXCEPT ![r].object = TRUE, ![r].tracked = TRUE]
  BY DEF Pipeline, Fetch, CompleteNoop, ReserveStorage, TrackReservation, Untrack, WriteObject,
     CommitStorage, AttachObject, ResolveAttachment, DropUnattached, Complete152, RecoverCompletion,
     Compensate, HeartbeatFails, Leased, Committable, CommitRun
<1>4. \/ UNCHANGED run
      \/ /\ run' = [run EXCEPT ![r] = run'[r]]
         /\ run[r].status = "processing" \/ run'[r].status = run[r].status
  BY <1>3, Known DEF RunRow
<1> QED
  BY <1>1, <1>2, <1>4, StatusAges

LEMMA RequestsAge ==
  ASSUME IngestionInv, NEW r \in Runs,
         RequestImport(r) \/ FailImport(r) \/ AnswerImport(r) \/ ImporterDies(r)
  PROVE  RowsAge
<1>1. importer' = [importer EXCEPT ![r] = importer'[r]] /\ run' = [run EXCEPT ![r] = run'[r]]
  BY RequestsMove DEF Moves
<1>2. CASE RequestImport(r)
  BY <1>1, <1>2, OneAges DEF RequestImport, ReserveRun
<1>3. CASE FailImport(r) \/ AnswerImport(r) \/ ImporterDies(r)
  <2>1. importer[r].step # "idle"
    BY <1>3 DEF FailImport, FailStep, AnswerImport, ImporterDies, Executing, StepOf
  <2>2. UNCHANGED run \/ run[r].status = "processing"
    BY <1>3 DEF FailImport, FailRun, Failable, Leased, AnswerImport, ImporterDies
  <2> QED
    BY <1>1, <2>1, <2>2, StatusAges
<1> QED
  BY <1>2, <1>3

LEMMA RecoveryAges ==
  ASSUME IngestionInv, Recovery
  PROVE  RowsAge
<1>1. ASSUME NEW r \in Runs, ImporterDies(r) PROVE RowsAge
  BY <1>1, RequestsAge
<1>2. ASSUME NEW r \in Runs, LateCompletion(r) PROVE RowsAge
  <2>1. importer' = [importer EXCEPT ![r] = importer'[r]] /\ importer'[r].step = importer[r].step
    BY <1>2, Known DEF LateCompletion, Importer
  <2>2. run' = [run EXCEPT ![r] = run'[r]]
    BY <1>2, LateCompletionMoves DEF Moves
  <2>3. UNCHANGED run \/ run[r].status = "processing"
    BY <1>2 DEF LateCompletion, Committable, Leased
  <2> QED
    BY <2>1, <2>2, <2>3, StatusAges
<1>3. ASSUME NEW r \in Runs, ClaimStale(r) \/ RunLeaseEnds(r) PROVE RowsAge
  <2>1. run' = [run EXCEPT ![r] = run'[r]] /\ UNCHANGED importer /\ run[r].status = "processing"
    BY <1>3, StaleKept DEF ClaimStale, RunLeaseEnds, Stale, Moves
  <2> QED
    BY <2>1, StatusAges
<1>4. CASE ReconcileStale
  <2> DEFINE r == reconciler.run
  <2>1. r \in Runs
    BY ReconcilerRun
  <2>2. UNCHANGED importer
    BY <1>4 DEF ReconcileStale, Look, UnreserveStale, Adopt, ReleaseStale, EraseStale, SettleStale
  <2>3. \/ UNCHANGED run \/ run' = [run EXCEPT ![r].object = TRUE]
        \/ run[r].status = "processing" /\ run' = [run EXCEPT ![r] = Ended(@, "failed")]
        \/ run[r].status = "processing" /\ run' = [run EXCEPT ![r].state = "ambiguous"]
    BY <1>4, <2>1, Known
       DEF ReconcileStale, Look, UnreserveStale, Adopt, ReleaseStale, EraseStale, SettleStale, RunRow
  <2>4. \/ UNCHANGED run
        \/ /\ run' = [run EXCEPT ![r] = run'[r]]
           /\ run[r].status = "processing" \/ run'[r].status = run[r].status
    BY <2>1, <2>3, Known DEF RunRow
  <2> HIDE DEF r
  <2> QED
    BY <2>1, <2>2, <2>4, StatusAges
<1>5. CASE ReconcilerDies \/ ProviderChanges
  BY <1>5, ReconcilerRun, StatusAges DEF ReconcilerDies, ProviderChanges
<1> QED
  BY <1>1, <1>2, <1>3, <1>4, <1>5 DEF Recovery

LEMMA ImportsAge ==
  ASSUME IngestionInv, IngestionNext
  PROVE  RowsAge
BY PipelineAges, RequestsAge, RecoveryAges DEF IngestionNext

----------------------------------------------------------------------------
(* The steps of the automatic synchronization.                             *)

\* A step beside the schedule.
LEMMA BesideSchedule ==
  ASSUME AutomaticInv, IngestionInv', RowsAge, UNCHANGED schedule
  PROVE  AutomaticInv'
<1>1. schedule.success # 0 => schedule.success \in Runs
  BY ClaimNumbers DEF AutomaticInv, Scheduled, Schedule
<1> QED
  BY <1>1 DEF AutomaticInv, Scheduled, RowsAge, SuccessIsCommitted

\* A step of the schedule that does not touch the rows.
LEMMA ScheduleMoves ==
  ASSUME AutomaticInv, IngestionInv', RowsAge, schedule' \in Schedule,
         schedule'.fence = schedule.fence,
         schedule'.status # "leased" => schedule'.attached = 0 /\ ~schedule'.expired,
         schedule'.attached # 0 => schedule'.attached = schedule'.fence,
         \/ schedule'.success = schedule.success
         \/ schedule'.success \in Unattended /\ run[schedule'.success].status = "succeeded"
  PROVE  AutomaticInv'
<1>1. /\ schedule.success # 0 => schedule.success \in Runs
      /\ schedule'.success # 0 => schedule'.success \in Runs
  BY ClaimNumbers DEF AutomaticInv, Scheduled, Schedule
<1>2. SuccessIsCommitted'
  BY <1>1 DEF AutomaticInv, RowsAge, SuccessIsCommitted
<1> QED
  BY <1>2 DEF AutomaticInv, Scheduled, RowsAge

LEMMA UnleasedIs ==
  ASSUME schedule \in Schedule
  PROVE  /\ Unleased(schedule) \in Schedule /\ Unleased(schedule).fence = schedule.fence
         /\ Unleased(schedule).attached = 0 /\ ~Unleased(schedule).expired
         /\ Unleased(schedule).success = schedule.success
         /\ Unleased(schedule).status = "waiting"
BY DEF Unleased, Schedule

LEMMA SucceededIs ==
  ASSUME schedule \in Schedule, NEW n \in Unattended
  PROVE  /\ Succeeded(schedule, n) \in Schedule /\ Succeeded(schedule, n).fence = schedule.fence
         /\ Succeeded(schedule, n).attached = 0 /\ ~Succeeded(schedule, n).expired
         /\ Succeeded(schedule, n).success = n
BY DEF Unleased, Succeeded, Schedule

LEMMA Steady ==
  ASSUME AutomaticInv, UNCHANGED <<run, stored, importer, resource, listed, reconciler>>,
         Faulty \/ UNCHANGED faults
  PROVE  IngestionInv' /\ RowsAge
<1>1. IngestionInv
  BY DEF AutomaticInv
<1>2. Moves(reconciler.run)
  BY <1>1, ReconcilerRun, Known, NothingMoves
<1>3. IngestionInv'
  BY <1>1, <1>2, ReconcilerRun, MovesKeepsInv
<1>4. RowsAge
  BY DEF RowsAge, Unbegun
<1> QED
  BY <1>3, <1>4

LEMMA ConfigureSyncKeeps ==
  ASSUME AutomaticInv, ConfigureSync
  PROVE  AutomaticInv'
<1>1. IngestionInv' /\ RowsAge
  BY Steady DEF ConfigureSync, ingestionVars
<1>2. PICK enabled \in BOOLEAN :
        schedule' = [Unleased(schedule) EXCEPT !.status = IF enabled THEN "waiting" ELSE "disabled",
                                               !.due = enabled]
  BY DEF ConfigureSync
<1>3. /\ schedule' \in Schedule /\ schedule'.fence = schedule.fence /\ schedule'.attached = 0
      /\ ~schedule'.expired /\ schedule'.success = schedule.success
  BY <1>2, UnleasedIs DEF AutomaticInv, Scheduled, Schedule
<1> QED
  BY <1>1, <1>3, ScheduleMoves

LEMMA ReconcileExpiredKeeps ==
  ASSUME AutomaticInv, ReconcileExpired
  PROVE  AutomaticInv'
<1>1. IngestionInv' /\ RowsAge
  BY Steady DEF ReconcileExpired, ingestionVars
<1>2. CASE RunOver(schedule.attached)
  <2>1. /\ schedule.attached \in Unattended /\ schedule.attached = schedule.fence
        /\ run[schedule.attached].status = "succeeded" /\ schedule' = Succeeded(schedule, schedule.fence)
    BY <1>2 DEF RunOver, AutomaticInv, Scheduled, Schedule, ReconcileExpired, Recovered
  <2>2. schedule \in Schedule
    BY DEF AutomaticInv, Scheduled
  <2> QED
    BY <1>1, <2>1, <2>2, SucceededIs, ScheduleMoves
<1>3. CASE ~RunOver(schedule.attached)
  <2>1. schedule' = Unleased(schedule) /\ schedule \in Schedule
    BY <1>3 DEF ReconcileExpired, Recovered, AutomaticInv, Scheduled
  <2> QED
    BY <1>1, <2>1, UnleasedIs, ScheduleMoves
<1> QED
  BY <1>2, <1>3

LEMMA TimePassesKeeps ==
  ASSUME AutomaticInv, SyncFallsDue \/ SyncLeaseEnds
  PROVE  AutomaticInv'
<1>1. IngestionInv' /\ RowsAge
  BY Steady DEF SyncFallsDue, SyncLeaseEnds, ingestionVars
<1>2. \/ schedule' = [schedule EXCEPT !.due = TRUE]
      \/ schedule.status = "leased" /\ schedule' = [schedule EXCEPT !.expired = TRUE]
  BY DEF SyncFallsDue, SyncLeaseEnds
<1>3. /\ schedule' \in Schedule /\ schedule'.fence = schedule.fence
      /\ schedule'.attached = schedule.attached /\ schedule'.success = schedule.success
      /\ schedule'.status = schedule.status
      /\ schedule'.expired = schedule.expired \/ schedule.status = "leased"
  BY <1>2 DEF AutomaticInv, Scheduled, Schedule
<1> QED
  BY <1>1, <1>3, ScheduleMoves DEF AutomaticInv, Scheduled

\* A claim takes a key that nobody has used.
LEMMA ClaimSyncKeeps ==
  ASSUME AutomaticInv, ClaimSync
  PROVE  AutomaticInv'
<1> DEFINE n == schedule.fence + 1
<1>1. /\ n \in Unattended /\ n \in Runs /\ GoOn(n, "begin") /\ schedule.status = "waiting"
      /\ UNCHANGED <<run, stored, resource, listed, reconciler, faults>>
  BY ClaimNumbers DEF ClaimSync, Claimable156
<1>2. IngestionInv /\ schedule \in Schedule /\ schedule.fence \in Nat /\ n \in Nat /\ n > schedule.fence
  BY DEF AutomaticInv, Scheduled, Schedule
<1>3. Unbegun(n)
  BY <1>1, <1>2 DEF AutomaticInv
<1>4. /\ importer' = [importer EXCEPT ![n] = importer'[n]] /\ importer'[n] \in Importer
      /\ importer'[n].step = "begin"
  BY <1>1, <1>2, Known, GoOnIs DEF ImportSteps
<1>5. stored[n].object = "none"
  BY <1>1, <1>2, <1>3, Known DEF Unbegun, Good
<1>6. schedule' = [schedule EXCEPT !.status = "leased", !.fence = n, !.expired = FALSE, !.due = FALSE]
  BY DEF ClaimSync
<1> HIDE DEF n
<1>7. IngestionInv'
  <2>1. Moves(n)
    BY <1>1, <1>2, <1>4, <1>5, Known, StepMoves DEF Early
  <2> QED
    BY <1>1, <1>2, <2>1, MovesKeepsInv
<1>8. /\ schedule' \in Schedule /\ schedule'.fence = n /\ schedule'.attached = 0
      /\ schedule'.success = schedule.success /\ schedule'.status = "leased"
  <2>1. schedule.attached = 0
    BY <1>1 DEF AutomaticInv, Scheduled
  <2> QED
    BY <1>2, <1>6, <2>1 DEF Schedule
<1>9. \A m \in Unattended : m > schedule'.fence => Unbegun(m)'
  <2> SUFFICES ASSUME NEW m \in Unattended, m > schedule'.fence PROVE Unbegun(m)'
    OBVIOUS
  <2>1. m \in Nat /\ m > schedule.fence /\ m # n /\ m \in Runs
    BY <1>2, <1>8, ClaimNumbers
  <2>2. Unbegun(m)
    BY <2>1 DEF AutomaticInv
  <2> QED
    BY <1>1, <1>2, <1>4, <2>1, <2>2, Known DEF Unbegun
<1>10. SuccessIsCommitted'
  BY <1>1, <1>8 DEF AutomaticInv, SuccessIsCommitted
<1> QED
  BY <1>7, <1>8, <1>9, <1>10 DEF AutomaticInv, Scheduled

----------------------------------------------------------------------------
(* execute_claim.                                                          *)

LEMMA ClaimKnown ==
  ASSUME AutomaticInv, NEW n \in Unattended
  PROVE  /\ IngestionInv /\ n \in Runs /\ schedule \in Schedule
         /\ run[n].status = "none" => importer[n].step \in {"idle", "begin", "report"}
         /\ run \in [Runs -> RunRow] /\ importer \in [Runs -> Importer]
BY ClaimNumbers, Known DEF AutomaticInv, Scheduled, Good

\* A step that changes the importer alone, to a step before which nothing is stored.
LEMMA ClaimStep ==
  ASSUME AutomaticInv, NEW n \in Unattended, NEW step \in ImportSteps, GoOn(n, step),
         importer[n].step # "idle",
         UNCHANGED <<run, stored, resource, listed, reconciler>>, Faulty \/ UNCHANGED faults,
         step \in {"idle", "report"} \/ run[n].status # "none",
         step \in Early => stored[n].object = "none",
         step # "commit"
  PROVE  IngestionInv' /\ RowsAge
<1>1. /\ importer' = [importer EXCEPT ![n] = importer'[n]] /\ importer'[n] \in Importer
      /\ importer'[n].step = step
  BY ClaimKnown, GoOnIs
<1>2. Moves(n)
  BY <1>1, ClaimKnown, Known, StepMoves
<1>3. IngestionInv'
  BY <1>2, ClaimKnown, MovesKeepsInv
<1>4. RowsAge
  BY <1>1, ClaimKnown, StatusAges
<1> QED
  BY <1>3, <1>4

LEMMA BeginSyncKeeps ==
  ASSUME AutomaticInv, NEW n \in Unattended, BeginSync(n)
  PROVE  AutomaticInv'
<1>1. importer[n].step = "begin" /\ UNCHANGED schedule
  BY DEF BeginSync, StepOf
<1>2. CASE \E next \in {"claim", "report"} : ReserveRun(n, next) /\ (Faulty \/ UNCHANGED faults)
  <2>1. Moves(n) /\ UNCHANGED reconciler
    BY <1>2, ClaimKnown, ReserveRunMoves DEF ReserveRun
  <2>2. IngestionInv'
    BY <2>1, ClaimKnown, MovesKeepsInv
  <2>3. /\ importer' = [importer EXCEPT ![n] = importer'[n]] /\ run' = [run EXCEPT ![n] = run'[n]]
        /\ run[n].status = "none"
    BY <1>2, <2>1 DEF Moves, ReserveRun
  <2>4. RowsAge
    BY <1>1, <2>3, ClaimKnown, OneAges DEF Unbegun
  <2> QED
    BY <1>1, <2>2, <2>4, BesideSchedule
<1>3. CASE /\ GoOn(n, "report") /\ (Faulty \/ UNCHANGED faults)
           /\ UNCHANGED <<run, stored, resource, listed, reconciler>>
  <2>1. "report" \in ImportSteps /\ "report" \notin Early
    BY DEF ImportSteps, Early
  <2> QED
    BY <1>1, <1>3, <2>1, ClaimStep, BesideSchedule
<1> QED
  BY <1>2, <1>3 DEF BeginSync

LEMMA AttachSyncKeeps ==
  ASSUME AutomaticInv, NEW n \in Unattended, AttachSync(n)
  PROVE  AutomaticInv'
<1>1. /\ importer[n].step = "claim" /\ UNCHANGED <<run, stored, resource, listed, reconciler>>
      /\ Faulty \/ UNCHANGED faults
  BY DEF AttachSync, StepOf
<1>2. run[n].status # "none" /\ stored[n].object = "none"
  BY <1>1, ClaimKnown, Known DEF Good, Early
<1>3. PICK step \in {"fetch", "error"} : GoOn(n, step)
  BY DEF AttachSync
<1>4. step \in ImportSteps /\ step # "commit"
  BY DEF ImportSteps
<1>5. IngestionInv' /\ RowsAge
  BY <1>1, <1>2, <1>3, <1>4, ClaimStep
<1>6. CASE UNCHANGED schedule
  BY <1>5, <1>6, BesideSchedule
<1>7. CASE HasClaim(n) /\ schedule' = [schedule EXCEPT !.attached = n]
  <2>1. /\ schedule' \in Schedule /\ schedule'.fence = schedule.fence /\ schedule'.status = "leased"
        /\ schedule'.attached = schedule'.fence /\ schedule'.success = schedule.success
    BY <1>7, ClaimKnown DEF HasClaim, Schedule
  <2> QED
    BY <1>5, <2>1, ScheduleMoves
<1> QED
  BY <1>6, <1>7 DEF AttachSync

LEMMA ClaimHeartbeatFailsKeeps ==
  ASSUME AutomaticInv, NEW n \in Unattended, ClaimHeartbeatFails(n)
  PROVE  AutomaticInv'
<1>1. run[n].status # "none" /\ importer[n].step # "idle"
  BY ClaimKnown DEF ClaimHeartbeatFails, HeartbeatSteps
<1>2. "error" \in ImportSteps /\ "error" \notin Early
  BY DEF ImportSteps, Early
<1> QED
  BY <1>1, <1>2, ClaimStep, BesideSchedule DEF ClaimHeartbeatFails

LEMMA CompleteSyncKeeps ==
  ASSUME AutomaticInv, NEW n \in Unattended, NEW step \in {"ok", "again"}, NEW next \in {"error", "fail"},
         CompleteSync(n, step, next)
  PROVE  AutomaticInv'
<1>1. /\ importer[n].step = step /\ UNCHANGED <<run, stored, resource, listed, reconciler>>
      /\ Faulty \/ UNCHANGED faults
  BY DEF CompleteSync, StepOf
<1>2. run[n].status # "none"
  BY <1>1, ClaimKnown
<1>3. PICK to \in {"idle", next} : GoOn(n, to)
  BY DEF CompleteSync
<1>4. to \in ImportSteps /\ to \notin Early /\ to # "commit"
  BY DEF ImportSteps, Early
<1>5. IngestionInv' /\ RowsAge
  BY <1>1, <1>2, <1>3, <1>4, ClaimStep
<1>6. CASE UNCHANGED schedule
  BY <1>5, <1>6, BesideSchedule
<1>7. CASE RunOver(n) /\ schedule' = Succeeded(schedule, n)
  BY <1>5, <1>7, ClaimKnown, SucceededIs, ScheduleMoves DEF RunOver
<1> QED
  BY <1>6, <1>7 DEF CompleteSync

LEMMA RecoverSyncKeeps ==
  ASSUME AutomaticInv, NEW n \in Unattended, RecoverSync(n)
  PROVE  AutomaticInv'
<1>1. /\ importer[n].step \in {"error", "unknown"} /\ UNCHANGED <<run, stored, resource, listed, reconciler>>
      /\ UNCHANGED schedule /\ (Faulty \/ UNCHANGED faults)
  BY DEF RecoverSync
<1>2. run[n].status # "none"
  BY <1>1, ClaimKnown
<1>3. PICK to \in {"again", "fail"} : GoOn(n, to)
  BY DEF RecoverSync
<1>4. to \in ImportSteps /\ to \notin Early
  BY DEF ImportSteps, Early
<1>5. IngestionInv' /\ RowsAge
  BY <1>1, <1>2, <1>3, <1>4, ClaimStep
<1> QED
  BY <1>1, <1>5, BesideSchedule

LEMMA FailSyncRunKeeps ==
  ASSUME AutomaticInv, NEW n \in Unattended, FailSyncRun(n)
  PROVE  AutomaticInv'
<1>1. importer[n].step = "fail" /\ FailRun(n, "report") /\ UNCHANGED schedule
  BY DEF FailSyncRun, StepOf
<1>2. Moves(n) /\ UNCHANGED reconciler
  BY <1>1, ClaimKnown, FailRunMoves DEF FailRun
<1>3. IngestionInv'
  BY <1>2, ClaimKnown, MovesKeepsInv
<1>4. UNCHANGED run \/ run[n].status = "processing"
  BY <1>1 DEF FailRun, Failable, Leased
<1>5. RowsAge
  BY <1>1, <1>2, <1>4, ClaimKnown, StatusAges DEF Moves
<1> QED
  BY <1>1, <1>3, <1>5, BesideSchedule

LEMMA FailSyncKeeps ==
  ASSUME AutomaticInv, NEW n \in Unattended, FailSync(n)
  PROVE  AutomaticInv'
<1>1. /\ importer[n].step = "report" /\ GoOn(n, "idle") /\ (Faulty \/ UNCHANGED faults)
      /\ UNCHANGED <<run, stored, resource, listed, reconciler>>
  BY DEF FailSync, StepOf
<1>2. "idle" \in ImportSteps /\ "idle" \notin Early
  BY DEF ImportSteps, Early
<1>3. IngestionInv' /\ RowsAge
  BY <1>1, <1>2, ClaimStep
<1>4. CASE UNCHANGED schedule
  BY <1>3, <1>4, BesideSchedule
<1>5. CASE schedule' = Unleased(schedule)
  BY <1>3, <1>5, ClaimKnown, UnleasedIs, ScheduleMoves
<1> QED
  BY <1>4, <1>5 DEF FailSync

LEMMA ExecuteClaimKeeps ==
  ASSUME AutomaticInv, NEW n \in Unattended, ExecuteClaim(n)
  PROVE  AutomaticInv'
<1>1. CASE Pipeline(n) /\ UNCHANGED schedule
  BY <1>1, ClaimKnown, ImportsKeepInv, PipelineAges, BesideSchedule
<1> QED
  BY <1>1, BeginSyncKeeps, AttachSyncKeeps, ClaimHeartbeatFailsKeeps, CompleteSyncKeeps,
     RecoverSyncKeeps, FailSyncRunKeeps, FailSyncKeeps DEF ExecuteClaim

----------------------------------------------------------------------------
(* The theorems.                                                           *)

LEMMA AutomaticInitInv == AutomaticInit => AutomaticInv
<1> SUFFICES ASSUME AutomaticInit PROVE AutomaticInv
  OBVIOUS
<1>1. IngestionInv
  BY InitInv DEF AutomaticInit
<1>2. Scheduled
  BY DEF AutomaticInit, Scheduled, Schedule
<1>3. \A n \in Unattended : Unbegun(n)
  BY ClaimNumbers DEF AutomaticInit, IngestionInit, Unbegun, NoRun, IdleImporter
<1>4. SuccessIsCommitted
  BY DEF AutomaticInit, SuccessIsCommitted
<1> QED
  BY <1>1, <1>2, <1>3, <1>4 DEF AutomaticInv

LEMMA AutomaticStep == AutomaticInv /\ [AutomaticNext]_automaticVars => AutomaticInv'
<1> SUFFICES ASSUME AutomaticInv, [AutomaticNext]_automaticVars PROVE AutomaticInv'
  OBVIOUS
<1>1. CASE IngestionNext /\ UNCHANGED schedule
  <2>1. IngestionInv
    BY DEF AutomaticInv
  <2> QED
    BY <1>1, <2>1, StepKeepsInv, ImportsAge, BesideSchedule
<1>2. CASE ConfigureSync \/ ReconcileExpired \/ ClaimSync \/ SyncFallsDue \/ SyncLeaseEnds
  BY <1>2, ConfigureSyncKeeps, ReconcileExpiredKeeps, ClaimSyncKeeps, TimePassesKeeps
<1>3. CASE \E n \in Unattended : ExecuteClaim(n)
  BY <1>3, ExecuteClaimKeeps
<1>4. CASE UNCHANGED automaticVars
  BY <1>4, Steady, BesideSchedule DEF automaticVars, ingestionVars
<1> QED
  BY <1>1, <1>2, <1>3, <1>4 DEF AutomaticNext

LEMMA AutomaticInvIsSafe ==
  AutomaticInv => AutomaticTypeOK /\ SuccessIsCommitted /\ CommittedObjectKept /\ CursorStaysPut
BY InvIsSafe DEF AutomaticInv, AutomaticTypeOK, Scheduled, Schedule

\* Rows, importers, the reconciler and the schedule keep their types (migrations 150, 156).
THEOREM AutomaticTypeCorrect == AutomaticSpec => []AutomaticTypeOK
BY AutomaticInitInv, AutomaticStep, AutomaticInvIsSafe, PTL DEF AutomaticSpec

\* A claim is recorded as a success only if its own import was committed, by whatever
\* worker, recovery or expired lease it was recorded (complete_source_sync156,
\* reconcile_expired_source_syncs156).
THEOREM SuccessesAreCommitted == AutomaticSpec => []SuccessIsCommitted
BY AutomaticInitInv, AutomaticStep, AutomaticInvIsSafe, PTL DEF AutomaticSpec

\* Also beside the automatic synchronization the object of a committed run is kept, and no
\* import works for a cursor that another one has moved.
THEOREM ImportsBesideClaims == AutomaticSpec => [](CommittedObjectKept /\ CursorStaysPut)
BY AutomaticInitInv, AutomaticStep, AutomaticInvIsSafe, PTL DEF AutomaticSpec

----------------------------------------------------------------------------
(* The storage beside the automatic synchronization.                       *)

\* Of a claim's run nothing depends on what its importer is at.
LEMMA ClaimAccounts ==
  ASSUME AutomaticInv, StorageInv, NEW n \in Unattended, UNCHANGED <<run, stored, reconciler>>,
         NEW step \in ImportSteps, GoOn(n, step), step \notin {"track", "untrack", "write", "commit"},
         step \in Early => stored[n].reservation = "none"
  PROVE  StorageInv'
<1>1. IngestionInv /\ n \in Runs
  BY ClaimKnown
<1>2. importer' = [importer EXCEPT ![n] = importer'[n]] /\ importer'[n].step = step
  BY <1>1, Known, GoOnIs
<1>3. Only(n)
  BY <1>1, <1>2, Known DEF Only
<1>4. KeepsAccount(n)
  BY <1>1, <1>2, Account DEF KeepsAccount, AccountOf, Accounted
<1> QED
  BY <1>1, <1>3, <1>4, AccountsKept

LEMMA ClaimKeepsStorage ==
  ASSUME AutomaticInv, StorageInv, NEW n \in Unattended, ExecuteClaim(n)
  PROVE  StorageInv'
<1>1. IngestionInv /\ n \in Runs
  BY ClaimKnown
<1>2. ASSUME NEW next \in {"claim", "report"}, ReserveRun(n, next), Faulty \/ UNCHANGED faults
      PROVE  StorageInv'
  BY <1>1, <1>2, ReserveRunMoves, ReserveRunAccounts, MovesOnly, AccountsKept DEF ReserveRun
<1>3. CASE FailSyncRun(n)
  <2>1. importer[n].step = "fail" /\ FailRun(n, "report") /\ UNCHANGED reconciler
    BY <1>3 DEF FailSyncRun, FailRun, StepOf
  <2>2. importer[n].step \notin {"idle", "begin", "report"}
    BY <2>1
  <2>3. Moves(n)
    BY <1>1, <2>1, <2>2, FailRunMoves
  <2>4. KeepsAccount(n)
    BY <1>1, <2>1, <2>2, FailRunAccounts
  <2> QED
    BY <1>1, <2>1, <2>3, <2>4, MovesOnly, AccountsKept
<1>4. ASSUME UNCHANGED <<run, stored, reconciler>>,
             \E step \in {"report", "error", "idle", "fail", "again"} : GoOn(n, step)
      PROVE  StorageInv'
  BY <1>4, ClaimAccounts DEF ImportSteps, Early
<1>5. CASE AttachSync(n)
  <2>1. stored[n].reservation = "none" /\ "fetch" \in ImportSteps /\ UNCHANGED <<run, stored, reconciler>>
    BY <1>1, <1>5, Account DEF AttachSync, StepOf, Accounted, Early, ImportSteps
  <2> QED
    BY <1>4, <1>5, <2>1, ClaimAccounts DEF AttachSync
<1>6. CASE BeginSync(n)
  BY <1>2, <1>4, <1>6 DEF BeginSync
<1>7. CASE ClaimHeartbeatFails(n) \/ RecoverSync(n) \/ FailSync(n)
  BY <1>4, <1>7 DEF ClaimHeartbeatFails, RecoverSync, FailSync
<1>8. CASE CompleteSync(n, "ok", "error") \/ CompleteSync(n, "again", "fail")
  BY <1>4, <1>8 DEF CompleteSync
<1>9. CASE Pipeline(n)
  BY <1>1, <1>9, PipelineKeepsStorage
<1> QED
  BY <1>3, <1>5, <1>6, <1>7, <1>8, <1>9 DEF ExecuteClaim

LEMMA AutomaticKeepsStorage ==
  AutomaticInv /\ StorageInv /\ [AutomaticNext]_automaticVars => StorageInv'
<1> SUFFICES ASSUME AutomaticInv, StorageInv, [AutomaticNext]_automaticVars PROVE StorageInv'
  OBVIOUS
<1>1. IngestionInv
  BY DEF AutomaticInv
<1>2. CASE ClaimSync
  <2> PICK n \in Unattended : n = schedule.fence + 1 /\ GoOn(n, "begin")
    BY <1>2 DEF ClaimSync
  <2>1. n > schedule.fence
    BY <1>1, ClaimNumbers DEF AutomaticInv, Scheduled, Schedule
  <2>2. n \in Runs /\ run[n].status = "none"
    BY <2>1, ClaimNumbers DEF AutomaticInv, Unbegun
  <2>3. stored[n].reservation = "none" /\ "begin" \in ImportSteps
    BY <2>2, Account DEF Accounted, ImportSteps
  <2> QED
    BY <1>2, <2>3, ClaimAccounts DEF ClaimSync
<1>3. CASE ConfigureSync \/ ReconcileExpired \/ SyncFallsDue \/ SyncLeaseEnds \/ UNCHANGED automaticVars
  BY <1>1, <1>3, NothingAccounts
     DEF ConfigureSync, ReconcileExpired, SyncFallsDue, SyncLeaseEnds, automaticVars, ingestionVars
<1> QED
  BY <1>1, <1>2, <1>3, ImportsKeepStorage, ClaimKeepsStorage DEF AutomaticNext

\* Nor does it beside the automatic synchronization.
THEOREM FailedBesideClaims == AutomaticSpec => []NoStorageLeft
<1>1. AutomaticInit => StorageInv
  BY StorageInit DEF AutomaticInit
<1> QED
  BY <1>1, AutomaticInitInv, AutomaticStep, AutomaticKeepsStorage, StorageIsSafe, PTL DEF AutomaticSpec

----------------------------------------------------------------------------
(* Commits: each change of the resource is the end of one run.             *)

Over == {"succeeded", "failed"}

\* The steps of an importer that has fetched its listing and may still commit it.
Fetched == {"noop", "reserve", "track", "write", "commit", "attach", "resolve", "complete"}

CommitStep ==
  /\ \A r \in Runs : run[r].status \in Over => run'[r] = run[r]
  /\ resource' # resource =>
       /\ \E r \in Runs : run[r].status = "processing" /\ run'[r].status = "succeeded"
       /\ resource'.cursor >= resource.cursor
       /\ resource'.revision = resource.revision + 1

\* complete_incremental_ingestion152, fail_source_ingestion150 and the reconciler: the row of
\* a run that is over is never written again, and the resource changes only with the end
\* of a run, by one revision and not back to an older cursor, also when the database
\* carries out a completion that its caller has given up on. So a run is committed once.
CommitsOnce == [][CommitStep]_ingestionVars

\* What the importer of a run has seen, beside the cursor that its run began with.
SeenOf(r) ==
  /\ run[r].expected <= listed /\ importer[r].seen <= listed
  /\ importer[r].step \in Fetched \/ importer[r].late
       => run[r].expected <= importer[r].seen /\ run[r].status # "none"
  /\ importer[r].step = "noop" => importer[r].seen = run[r].expected

\* The run that the reconciler is at is under way, and its importer has lost it.
Investigated ==
  ReconcilerAt("idle") \/ (/\ run[reconciler.run].status = "processing"
                           /\ run[reconciler.run].holder = "reconciler")

CommitInv ==
  /\ resource.cursor <= listed
  /\ \A r \in Runs : SeenOf(r)
  /\ Investigated

LEMMA ChangesAreNumbers ==
  ASSUME IngestionInv, NEW r \in Runs
  PROVE  /\ run[r].expected \in Nat /\ importer[r].seen \in Nat /\ listed \in Nat
         /\ resource.cursor \in Nat /\ resource.revision \in Nat
BY Known DEF RunRow, Importer, Changes

LEMMA CommitInit == IngestionInit => CommitInv
<1> SUFFICES ASSUME IngestionInit PROVE CommitInv
  OBVIOUS
<1>1. \A r \in Runs : SeenOf(r)
  BY DEF IngestionInit, NoRun, IdleImporter, SeenOf, Fetched
<1> QED
  BY <1>1 DEF IngestionInit, CommitInv, Investigated, ReconcilerAt

\* A step of one run beside the reconciler.
LEMMA OneCommits ==
  ASSUME IngestionInv, CommitInv, NEW r \in Runs, Only(r), UNCHANGED <<listed, reconciler>>,
         run'[r] = run[r] \/ Leased(r) \/ run[r].status = "none",
         SeenOf(r)',
         \/ resource' = resource
         \/ /\ run[r].status = "processing" /\ run'[r].status = "succeeded"
            /\ resource'.cursor <= listed /\ resource'.cursor >= resource.cursor
            /\ resource'.revision = resource.revision + 1
  PROVE  CommitInv' /\ CommitStep
<1>1. \A s \in Runs : SeenOf(s)'
  <2> TAKE s \in Runs
  <2>1. CASE s # r
    BY <2>1 DEF Only, CommitInv, SeenOf
  <2> QED
    BY <2>1
<1>2. Investigated'
  <2>1. CASE reconciler.run = r
    BY <2>1 DEF CommitInv, Investigated, ReconcilerAt, Leased
  <2>2. CASE reconciler.run # r
    BY <2>2, ReconcilerRun DEF CommitInv, Investigated, ReconcilerAt, Only
  <2> QED
    BY <2>1, <2>2
<1>3. resource'.cursor <= listed'
  BY DEF CommitInv
<1>4. \A s \in Runs : run[s].status \in Over => run'[s] = run[s]
  BY DEF Only, Leased, Over
<1> QED
  BY <1>1, <1>2, <1>3, <1>4 DEF CommitInv, CommitStep

\* A step of an importer that neither fetches, ends a listing without changes, nor commits.
Walks(r) ==
  /\ \E step \in ImportSteps \ {"noop"} :
       GoOn(r, step) /\ (step \in Fetched => importer[r].step \in Fetched)
  /\ UNCHANGED <<resource, listed, reconciler>>
  /\ run' = run \/ (Leased(r) /\ run'[r].expected = run[r].expected /\ run'[r].status # "none")

LEMMA WalksCommit ==
  ASSUME IngestionInv, CommitInv, NEW r \in Runs, Moves(r), Walks(r)
  PROVE  CommitInv' /\ CommitStep
<1>1. PICK step \in ImportSteps \ {"noop"} :
        GoOn(r, step) /\ (step \in Fetched => importer[r].step \in Fetched)
  BY DEF Walks
<1>2. /\ importer'[r].step = step /\ importer'[r].seen = importer[r].seen
      /\ importer'[r].late = importer[r].late
  BY <1>1, Known DEF GoOn, Importer
<1>3. run'[r].expected = run[r].expected /\ (run[r].status # "none" => run'[r].status # "none")
  BY DEF Walks
<1>4. SeenOf(r)'
  BY <1>1, <1>2, <1>3 DEF CommitInv, SeenOf, Walks
<1>5. run'[r] = run[r] \/ Leased(r)
  BY DEF Walks
<1> QED
  BY <1>4, <1>5, MovesOnly, OneCommits DEF Walks

LEMMA FetchCommits ==
  ASSUME IngestionInv, CommitInv, NEW r \in Runs, Fetch(r)
  PROVE  CommitInv' /\ CommitStep
<1>1. Only(r) /\ run[r].status # "none"
  BY FetchMoves, MovesOnly, Known DEF Fetch, StepOf, Good, Early
<1>2. CASE GoOn(r, "error")
  <2>1. Walks(r)
    BY <1>2 DEF Fetch, Walks, ImportSteps, Fetched
  <2> QED
    BY <2>1, FetchMoves, WalksCommit
<1>3. CASE importer' = [importer EXCEPT ![r].seen = listed,
                          ![r].step = IF listed = run[r].expected THEN "noop" ELSE "reserve"]
  <2>1. /\ importer'[r].seen = listed
        /\ importer'[r].step = IF listed = run[r].expected THEN "noop" ELSE "reserve"
    BY <1>3, Known DEF Importer
  <2>2. SeenOf(r)'
    BY <1>1, <2>1, ChangesAreNumbers DEF CommitInv, SeenOf, Fetch
  <2> QED
    BY <1>1, <2>2, OneCommits DEF Fetch
<1> QED
  BY <1>2, <1>3 DEF Fetch

\* The end of a run as a success for the row and the importer.
LEMMA EndSeen ==
  ASSUME IngestionInv, CommitInv, NEW r \in Runs, run' = [run EXCEPT ![r] = Ended(@, "succeeded")],
         importer'[r].seen = importer[r].seen, UNCHANGED listed,
         run[r].status = "processing",
         importer'[r].step \notin Fetched \/ importer[r].step = "noop" \/ importer'[r] = importer[r],
         importer'[r].late => importer[r].late \/ importer[r].step = "complete",
         importer'[r].step # "noop" \/ importer'[r].step = importer[r].step
  PROVE  SeenOf(r)' /\ run'[r].status = "succeeded"
<1>1. run'[r].status = "succeeded" /\ run'[r].expected = run[r].expected
  BY Known DEF Ended, RunRow
<1> QED
  BY <1>1 DEF CommitInv, SeenOf, Fetched

LEMMA NoopCommits ==
  ASSUME IngestionInv, CommitInv, NEW r \in Runs, CompleteNoop(r)
  PROVE  CommitInv' /\ CommitStep
<1>1. Only(r)
  BY CompleteNoopMoves, MovesOnly
<1>2. CASE UNCHANGED <<run, resource>>
  <2>1. Walks(r)
    BY <1>2 DEF CompleteNoop, Walks, ImportSteps, Fetched
  <2> QED
    BY <2>1, CompleteNoopMoves, WalksCommit
<1>3. CASE /\ Leased(r) /\ resource.cursor = run[r].expected
           /\ run' = [run EXCEPT ![r] = Ended(@, "succeeded")]
           /\ resource' = [resource EXCEPT !.cursor = importer[r].seen]
  <2>1. importer[r].seen = resource.cursor
    BY <1>3 DEF CompleteNoop, StepOf, CommitInv, SeenOf
  <2>2. resource' = resource
    BY <1>3, <2>1, Known
  <2>3. /\ importer'[r].step \in {"ok", "error"} /\ importer'[r].seen = importer[r].seen
        /\ importer'[r].late = importer[r].late /\ UNCHANGED <<listed, reconciler>>
    BY Known DEF CompleteNoop, GoOn, Importer
  <2>4. SeenOf(r)'
    BY <1>3, <2>3, EndSeen DEF Leased, Fetched
  <2> QED
    BY <1>1, <1>3, <2>2, <2>3, <2>4, OneCommits
<1> QED
  BY <1>2, <1>3 DEF CompleteNoop

\* What a completion does, in time or late.
LEMMA CommitCommits ==
  ASSUME IngestionInv, CommitInv, NEW r \in Runs, Only(r), Committable(r), CommitRun(r),
         importer[r].step = "complete" \/ importer[r].late,
         UNCHANGED <<listed, reconciler>>, SeenOf(r)'
  PROVE  CommitInv' /\ CommitStep
<1>1. /\ run[r].status = "processing" /\ Leased(r) /\ resource.cursor = run[r].expected
      /\ resource' = [cursor |-> importer[r].seen, revision |-> resource.revision + 1]
      /\ run' = [run EXCEPT ![r] = Ended(@, "succeeded")]
  BY DEF Committable, CommitRun, Leased
<1>2. run[r].expected <= importer[r].seen /\ importer[r].seen <= listed
  BY DEF CommitInv, SeenOf, Fetched
<1>3. /\ resource'.cursor = importer[r].seen /\ resource'.revision = resource.revision + 1
      /\ run'[r].status = "succeeded"
  BY <1>1, Known, EndedRow
<1>4. resource'.cursor <= listed /\ resource'.cursor >= resource.cursor
  BY <1>1, <1>2, <1>3, ChangesAreNumbers
<1> QED
  BY <1>1, <1>3, <1>4, OneCommits

LEMMA CompleteCommits ==
  ASSUME IngestionInv, CommitInv, NEW r \in Runs, Complete152(r)
  PROVE  CommitInv' /\ CommitStep
<1>1. Only(r) /\ UNCHANGED <<listed, reconciler>> /\ importer[r].step = "complete"
  BY Complete152Moves, MovesOnly DEF Complete152, StepOf
<1>2. importer'[r].step \in {"ok", "recover"} /\ importer'[r].seen = importer[r].seen
  BY Known DEF Complete152, GoOn, Importer
<1>3. CASE UNCHANGED <<run, resource>>
  <2>1. SeenOf(r)'
    BY <1>1, <1>2, <1>3 DEF CommitInv, SeenOf, Fetched
  <2> QED
    BY <1>1, <1>3, <2>1, OneCommits
<1>4. CASE Committable(r) /\ CommitRun(r)
  <2>1. SeenOf(r)'
    BY <1>1, <1>2, <1>4, EndSeen DEF Committable, CommitRun, Leased, Fetched
  <2> QED
    BY <1>1, <1>4, <2>1, CommitCommits
<1> QED
  BY <1>3, <1>4 DEF Complete152

LEMMA LateCommits ==
  ASSUME IngestionInv, CommitInv, NEW r \in Runs, LateCompletion(r)
  PROVE  CommitInv' /\ CommitStep
<1>1. Only(r) /\ UNCHANGED <<listed, reconciler>> /\ importer[r].late
  BY LateCompletionMoves, MovesOnly DEF LateCompletion
<1>2. /\ importer'[r].step = importer[r].step /\ importer'[r].seen = importer[r].seen
      /\ ~importer'[r].late
  BY Known DEF LateCompletion, Importer
<1>3. CASE ~Committable(r)
  <2>1. UNCHANGED <<run, resource>>
    BY <1>3 DEF LateCompletion
  <2>2. SeenOf(r)'
    BY <1>1, <1>2, <2>1 DEF CommitInv, SeenOf
  <2> QED
    BY <1>1, <2>1, <2>2, OneCommits
<1>4. CASE Committable(r)
  <2>1. CommitRun(r)
    BY <1>4 DEF LateCompletion
  <2>2. run'[r].status = "succeeded" /\ run'[r].expected = run[r].expected
    BY <2>1, Known DEF CommitRun, Ended, RunRow
  <2>3. SeenOf(r)'
    BY <1>1, <1>2, <2>2 DEF CommitInv, SeenOf
  <2> QED
    BY <1>1, <1>4, <2>1, <2>3, CommitCommits
<1> QED
  BY <1>3, <1>4

LEMMA ReserveCommits ==
  ASSUME IngestionInv, CommitInv, NEW r \in Runs, NEW next \in {"fetch", "claim", "report"},
         ReserveRun(r, next), Faulty \/ UNCHANGED faults
  PROVE  CommitInv' /\ CommitStep
<1>1. Only(r) /\ UNCHANGED <<resource, listed, reconciler>> /\ run[r].status = "none"
  BY ReserveRunMoves, MovesOnly DEF ReserveRun
<1>2. /\ importer'[r].step = next /\ importer'[r].seen = importer[r].seen
      /\ importer'[r].late = importer[r].late
  BY Known DEF ReserveRun, GoOn, Importer
<1>3. run'[r].expected = resource.cursor
  BY Known DEF ReserveRun, NoRun
<1>4. SeenOf(r)'
  BY <1>1, <1>2, <1>3 DEF CommitInv, SeenOf, Fetched
<1> QED
  BY <1>1, <1>4, OneCommits

LEMMA FailRunCommits ==
  ASSUME IngestionInv, CommitInv, NEW r \in Runs, NEW next \in {"idle", "report"},
         FailRun(r, next), importer[r].step \notin {"idle", "begin", "report"}
  PROVE  CommitInv' /\ CommitStep
<1>1. CASE UNCHANGED run
  <2>1. Walks(r)
    BY <1>1 DEF FailRun, Walks, ImportSteps, Fetched
  <2> QED
    BY <2>1, FailRunMoves, WalksCommit
<1>2. CASE Failable(r) /\ run' = [run EXCEPT ![r] = Ended(@, "failed")]
  <2>1. run'[r].expected = run[r].expected /\ run'[r].status = "failed"
    BY <1>2, Known DEF Ended, RunRow
  <2>2. Walks(r)
    BY <1>2, <2>1 DEF FailRun, Failable, Walks, ImportSteps, Fetched
  <2> QED
    BY <2>2, FailRunMoves, WalksCommit
<1> QED
  BY <1>1, <1>2 DEF FailRun

LEMMA PipelineCommits ==
  ASSUME IngestionInv, CommitInv, NEW r \in Runs, Pipeline(r)
  PROVE  CommitInv' /\ CommitStep
<1>1. Moves(r)
  BY PipelineMoves
<1>2. ASSUME ReserveStorage(r) \/ Untrack(r) \/ WriteObject(r) \/ CommitStorage(r)
             \/ ResolveAttachment(r) \/ DropUnattached(r) \/ RecoverCompletion(r)
             \/ Compensate(r) \/ HeartbeatFails(r)
      PROVE  Walks(r)
  BY <1>2 DEF ReserveStorage, Untrack, WriteObject, CommitStorage, ResolveAttachment, DropUnattached,
              Dropped, RecoverCompletion, Compensate, HeartbeatFails, HeartbeatSteps, StepOf, Walks,
              ImportSteps, Fetched
<1>3. ASSUME TrackReservation(r) PROVE Walks(r)
  <2>1. UNCHANGED run \/ (Leased(r) /\ run' = [run EXCEPT ![r].tracked = TRUE])
    BY <1>3 DEF TrackReservation
  <2>2. UNCHANGED run \/ (Leased(r) /\ run'[r].expected = run[r].expected /\ run'[r].status = run[r].status)
    BY <2>1, Known DEF RunRow
  <2> QED
    BY <1>3, <2>2 DEF TrackReservation, Leased, StepOf, Walks, ImportSteps, Fetched
<1>4. ASSUME AttachObject(r) PROVE Walks(r)
  <2>1. UNCHANGED run \/ (Leased(r) /\ run' = [run EXCEPT ![r].object = TRUE, ![r].tracked = TRUE])
    BY <1>4 DEF AttachObject
  <2>2. UNCHANGED run \/ (Leased(r) /\ run'[r].expected = run[r].expected /\ run'[r].status = run[r].status)
    BY <2>1, Known DEF RunRow
  <2> QED
    BY <1>4, <2>2 DEF AttachObject, Leased, StepOf, Walks, ImportSteps, Fetched
<1> QED
  BY <1>1, <1>2, <1>3, <1>4, WalksCommit, FetchCommits, NoopCommits, CompleteCommits DEF Pipeline

LEMMA RequestsCommit ==
  ASSUME IngestionInv, CommitInv, NEW r \in Runs,
         RequestImport(r) \/ FailImport(r) \/ AnswerImport(r) \/ ImporterDies(r)
  PROVE  CommitInv' /\ CommitStep
<1>1. CASE RequestImport(r)
  BY <1>1, ReserveCommits DEF RequestImport
<1>2. CASE FailImport(r)
  BY <1>2, FailRunCommits DEF FailImport, FailStep, StepOf
<1>3. CASE AnswerImport(r) \/ ImporterDies(r)
  <2>1. Walks(r)
    BY <1>3 DEF AnswerImport, ImporterDies, Walks, ImportSteps, Fetched
  <2> QED
    BY <1>3, <2>1, RequestsMove, WalksCommit
<1> QED
  BY <1>1, <1>2, <1>3

\* The reconciler and time leave the importers, the resource and the runs that are over.
LEMMA RowsCommit ==
  ASSUME IngestionInv, CommitInv, UNCHANGED <<importer, resource>>, Investigated',
         listed' = listed \/ listed' = listed + 1,
         \A r \in Runs : \/ run'[r] = run[r]
                         \/ /\ run[r].status = "processing" /\ run'[r].status # "none"
                            /\ run'[r].expected = run[r].expected
  PROVE  CommitInv' /\ CommitStep
<1>1. \A r \in Runs : SeenOf(r)'
  <2> TAKE r \in Runs
  <2>1. listed \in Nat /\ importer[r].seen \in Nat /\ run[r].expected \in Nat
    BY ChangesAreNumbers
  <2>2. run'[r].expected = run[r].expected /\ (run[r].status # "none" => run'[r].status # "none")
    OBVIOUS
  <2> QED
    BY <2>1, <2>2 DEF CommitInv, SeenOf
<1>2. resource'.cursor <= listed'
  BY ReconcilerRun, ChangesAreNumbers DEF CommitInv
<1> QED
  BY <1>1, <1>2 DEF CommitInv, CommitStep, Over

LEMMA RecoveryCommits ==
  ASSUME IngestionInv, CommitInv, Recovery
  PROVE  CommitInv' /\ CommitStep
<1>0. reconciler \in Reconciler /\ reconciler.run \in Runs /\ Investigated
  BY ReconcilerRun, Known DEF CommitInv
<1>1. ASSUME NEW r \in Runs, LateCompletion(r) \/ ImporterDies(r) PROVE CommitInv' /\ CommitStep
  BY <1>1, LateCommits, RequestsCommit
<1>2. ASSUME NEW r \in Runs, ClaimStale(r) PROVE CommitInv' /\ CommitStep
  <2>1. /\ run' = [run EXCEPT ![r] = Taken(run[r])] /\ run[r].status = "processing"
        /\ UNCHANGED <<importer, resource, listed>>
    BY <1>2 DEF ClaimStale, Stale
  <2>2. /\ run'[r].status = "processing" /\ run'[r].holder = "reconciler"
        /\ run'[r].expected = run[r].expected
    BY <2>1, Known DEF Taken, RunRow
  <2>3. reconciler'.run = r
    BY <1>0, <1>2 DEF ClaimStale, Reconciler
  <2> QED
    BY <2>1, <2>2, <2>3, Known, RowsCommit DEF Investigated
<1>3. ASSUME NEW r \in Runs, RunLeaseEnds(r) PROVE CommitInv' /\ CommitStep
  <2>1. /\ run' = [run EXCEPT ![r].expired = TRUE] /\ run[r].status = "processing"
        /\ UNCHANGED <<importer, resource, listed, reconciler>>
        /\ reconciler.run # r \/ ReconcilerAt("idle")
    BY <1>3 DEF RunLeaseEnds
  <2>2. run'[r].status = "processing" /\ run'[r].expected = run[r].expected
    BY <2>1, Known DEF RunRow
  <2>3. Investigated'
    BY <1>0, <2>1, Known DEF Investigated, ReconcilerAt
  <2> QED
    BY <2>1, <2>2, <2>3, Known, RowsCommit
<1>4. CASE Look \/ UnreserveStale \/ ReleaseStale \/ EraseStale \/ ReconcilerDies
  <2>1. UNCHANGED <<run, importer, resource, listed>> /\ ~ReconcilerAt("idle")
    BY <1>4 DEF Look, UnreserveStale, ReleaseStale, EraseStale, ReconcilerDies, ReconcilerAt
  <2>2. reconciler'.run = reconciler.run
    BY <1>0, <1>4 DEF Look, UnreserveStale, ReleaseStale, EraseStale, ReconcilerDies, GivesUp, Settles,
                      ReconcilerGoes, Reconciler
  <2> QED
    BY <1>0, <2>1, <2>2, RowsCommit DEF Investigated
<1>5. CASE Adopt
  <2> DEFINE r == reconciler.run
  <2>1. /\ UNCHANGED <<importer, resource, listed>> /\ reconciler'.run = r
        /\ run' = run \/ run' = [run EXCEPT ![r].object = TRUE]
    BY <1>0, <1>5 DEF Adopt, GivesUp, Settles, ReconcilerGoes, Reconciler
  <2>2. run[r].status = "processing" /\ run[r].holder = "reconciler"
    BY <1>0, <1>5 DEF Investigated, Adopt, ReconcilerAt
  <2>3. /\ run'[r].status = "processing" /\ run'[r].holder = "reconciler"
        /\ run'[r].expected = run[r].expected /\ \A q \in Runs : q # r => run'[q] = run[q]
    BY <1>0, <2>1, <2>2, Known DEF RunRow
  <2> QED
    BY <2>1, <2>2, <2>3, RowsCommit DEF Investigated
<1>6. CASE SettleStale
  <2> DEFINE r == reconciler.run
  <2>1. /\ UNCHANGED <<importer, resource, listed>> /\ reconciler'.step = "idle"
        /\ \/ run' = run
           \/ run' = [run EXCEPT ![r] = Ended(run[r], "failed")]
           \/ run' = [run EXCEPT ![r] = [run[r] EXCEPT !.state = "ambiguous"]]
    BY <1>0, <1>6, Known DEF SettleStale, ReconcilerGoes, Reconciler, RunRow
  <2>2. run[r].status = "processing"
    BY <1>0, <1>6 DEF Investigated, SettleStale, ReconcilerAt
  <2>3. /\ run'[r].status # "none" /\ run'[r].expected = run[r].expected
        /\ \A q \in Runs : q # r => run'[q] = run[q]
    <3> DEFINE over == Ended(run[r], "failed")
               open == [run[r] EXCEPT !.state = "ambiguous"]
    <3>1. run[r] \in RunRow /\ run \in [Runs -> RunRow]
      BY <1>0, Known
    <3>2. over.status = "failed" /\ over.expected = run[r].expected
      BY <3>1 DEF Ended, RunRow
    <3>3. open.status = run[r].status /\ open.expected = run[r].expected
      BY <3>1, RowsOfRecovery
    <3>4. run' = run \/ run' = [run EXCEPT ![r] = over] \/ run' = [run EXCEPT ![r] = open]
      BY <2>1
    <3> HIDE DEF over, open
    <3> QED
      BY <1>0, <2>2, <3>1, <3>2, <3>3, <3>4
  <2> QED
    BY <2>1, <2>2, <2>3, RowsCommit DEF Investigated, ReconcilerAt
<1>7. CASE ProviderChanges
  BY <1>0, <1>7, RowsCommit DEF ProviderChanges, Investigated, ReconcilerAt
<1> QED
  BY <1>1, <1>2, <1>3, <1>4, <1>5, <1>6, <1>7 DEF Recovery, ReconcileStale

LEMMA NothingCommits ==
  ASSUME IngestionInv, CommitInv, UNCHANGED ingestionVars
  PROVE  CommitInv'
BY DEF ingestionVars, CommitInv, SeenOf, Investigated, ReconcilerAt

LEMMA ImportsCommit ==
  IngestionInv /\ CommitInv /\ [IngestionNext]_ingestionVars
    => CommitInv' /\ [CommitStep]_ingestionVars
<1> SUFFICES ASSUME IngestionInv, CommitInv, [IngestionNext]_ingestionVars
             PROVE  CommitInv' /\ [CommitStep]_ingestionVars
  OBVIOUS
<1>1. CASE IngestionNext
  BY <1>1, PipelineCommits, RequestsCommit, RecoveryCommits DEF IngestionNext
<1> QED
  BY <1>1, NothingCommits

\* A run is over once, moves the resource at most once and never back, however often its
\* commit is answered late, repeated, recovered or reconciled.
THEOREM CommittedOnce == IngestionSpec => CommitsOnce
BY InitInv, StepKeepsInv, CommitInit, ImportsCommit, PTL DEF IngestionSpec, CommitsOnce

\* A step of a claim beside its import.
LEMMA ClaimWalks ==
  ASSUME AutomaticInv, CommitInv, NEW n \in Unattended,
         UNCHANGED <<run, stored, resource, listed, reconciler>>, Faulty \/ UNCHANGED faults,
         NEW step \in ImportSteps \ Fetched, GoOn(n, step)
  PROVE  CommitInv' /\ CommitStep
<1>1. IngestionInv /\ n \in Runs
  BY ClaimKnown
<1>2. /\ importer' = [importer EXCEPT ![n] = importer'[n]] /\ importer'[n].step = step
      /\ importer'[n].seen = importer[n].seen /\ importer'[n].late = importer[n].late
  BY <1>1, Known DEF GoOn, Importer
<1>3. Only(n)
  BY <1>1, <1>2, Known DEF Only
<1>4. SeenOf(n)'
  BY <1>1, <1>2 DEF CommitInv, SeenOf, Fetched
<1> QED
  BY <1>1, <1>3, <1>4, OneCommits

LEMMA ClaimCommits ==
  ASSUME AutomaticInv, CommitInv, NEW n \in Unattended, ExecuteClaim(n)
  PROVE  CommitInv' /\ CommitStep
<1>1. IngestionInv /\ n \in Runs
  BY ClaimKnown
<1>2. ASSUME UNCHANGED <<run, stored, resource, listed, reconciler>>, Faulty \/ UNCHANGED faults,
             \E step \in {"report", "error", "idle", "fail", "again", "fetch"} : GoOn(n, step)
      PROVE  CommitInv' /\ CommitStep
  BY <1>2, ClaimWalks DEF ImportSteps, Fetched
<1>3. CASE BeginSync(n)
  BY <1>1, <1>2, <1>3, ReserveCommits DEF BeginSync
<1>4. CASE FailSyncRun(n)
  BY <1>1, <1>4, FailRunCommits DEF FailSyncRun, StepOf
<1>5. CASE AttachSync(n) \/ ClaimHeartbeatFails(n) \/ RecoverSync(n) \/ FailSync(n)
  BY <1>2, <1>5 DEF AttachSync, ClaimHeartbeatFails, RecoverSync, FailSync
<1>6. CASE CompleteSync(n, "ok", "error") \/ CompleteSync(n, "again", "fail")
  BY <1>2, <1>6 DEF CompleteSync
<1>7. CASE Pipeline(n)
  BY <1>1, <1>7, PipelineCommits
<1> QED
  BY <1>3, <1>4, <1>5, <1>6, <1>7 DEF ExecuteClaim

LEMMA AutomaticCommits ==
  AutomaticInv /\ CommitInv /\ [AutomaticNext]_automaticVars
    => CommitInv' /\ [CommitStep]_ingestionVars
<1> SUFFICES ASSUME AutomaticInv, CommitInv, [AutomaticNext]_automaticVars
             PROVE  CommitInv' /\ [CommitStep]_ingestionVars
  OBVIOUS
<1>0. IngestionInv
  BY DEF AutomaticInv
<1>1. CASE IngestionNext
  BY <1>0, <1>1, ImportsCommit
<1>2. CASE ClaimSync
  <2> PICK n \in Unattended : n = schedule.fence + 1 /\ GoOn(n, "begin")
    BY <1>2 DEF ClaimSync
  <2> QED
    BY <1>2, ClaimWalks DEF ClaimSync, ImportSteps, Fetched
<1>3. CASE UNCHANGED ingestionVars
  BY <1>0, <1>3, NothingCommits
<1>4. CASE SyncLeaseEnds
  <2>1. /\ UNCHANGED <<run, importer, resource, listed, reconciler>>
    BY <1>4 DEF SyncLeaseEnds
  <2>2. Investigated'
    BY <2>1 DEF CommitInv, Investigated, ReconcilerAt
  <2> QED
    BY <1>0, <2>1, <2>2, RowsCommit
<1> QED
  BY <1>1, <1>2, <1>3, <1>4, ClaimCommits
     DEF AutomaticNext, automaticVars, ConfigureSync, ReconcileExpired, SyncFallsDue

\* Nor does a run that a claim of the schedule executes, also when the claim was lost.
THEOREM CommittedOnceBesideClaims == AutomaticSpec => CommitsOnce
<1>1. AutomaticInit => CommitInv
  BY CommitInit DEF AutomaticInit
<1> QED
  BY <1>1, AutomaticInitInv, AutomaticStep, AutomaticCommits, PTL DEF AutomaticSpec, CommitsOnce
=============================================================================
