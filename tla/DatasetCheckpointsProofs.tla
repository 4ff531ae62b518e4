---------------------- MODULE DatasetCheckpointsProofs ----------------------
(***************************************************************************)
(* Proofs about DatasetCheckpoints, for every number of revisions,         *)
(* processes, attempts and breaks.                                         *)
(*                                                                         *)
(* A step of a process changes one row, or what one attempt has stored,    *)
(* and the process itself: RowMoves, FileMoves and StepMoves say when the  *)
(* invariant survives that.  At the end: what a write may do to a row, and *)
(* that every process comes to the end of its attempt (StepsLeft).         *)
(***************************************************************************)
EXTENDS DatasetCheckpoints, TLAPS

LEMMA BoundsAreNatural ==
  /\ Revisions \subseteq Nat \ {0} /\ NoBuilder \notin Builders
  /\ MaxMaterializations \in Nat \ {0} /\ MaxBreaks \in Nat
BY CheckpointAssumption

USE BoundsAreNatural

----------------------------------------------------------------------------
(* The invariant.                                                          *)

Row == [status : {"none", "pending", "materializing", "ready", "failed", "ambiguous"},
        holder : Builders \cup {NoBuilder}, expired : BOOLEAN, attempts : 0 .. MaxMaterializations,
        prepared : BOOLEAN, reservation : 0 .. MaxMaterializations,
        object : 0 .. MaxMaterializations]
Transfer == [reservation : {"none", "reserved", "committed", "released"}, private : BOOLEAN,
             object : {"none", "active", "deleted"}, blob : BOOLEAN]
Process == [step : BuilderSteps, revision : Revisions \cup {0}, attempt : 0 .. MaxMaterializations]

Leased(row) == (row.status = "materializing") = (row.holder # NoBuilder)

Typed ==
  /\ checkpoint \in [Revisions -> Row] /\ transfer \in [Files -> Transfer]
  /\ builder \in [Builders -> Process]
  /\ latest \in Revisions \cup {0} /\ breaks \in 0 .. MaxBreaks
  /\ \A c \in Revisions : Leased(checkpoint[c])

\* The steps at which a process has not yet written what its attempt stores.
BeforeWrite == {"prepare", "reserve", "track", "write"}
FileSteps ==
  BeforeWrite \cup {"untrack", "discard", "commit", "attach", "resolve", "drop", "publish",
                    "inspect", "verify", "finish", "adopt", "unreserve"}

\* An object in the accounts has a committed reservation, and is in the bucket while it
\* is active.
Whole(file) ==
  /\ file.object # "none" => file.reservation = "committed"
  /\ file.object = "active" => file.blob

\* What a process relies on: nothing is in the bucket, or reserved, before it has put it
\* there itself, and what is about to be committed is in the bucket.
Sound(process, file, attempts) ==
  /\ process.step # "idle" => process.revision \in Revisions
  /\ process.step \in FileSteps => process.attempt \in Attempts
  /\ process.step \in BeforeWrite => ~file.blob /\ process.attempt <= attempts
  /\ process.step \in {"prepare", "reserve"} => file.reservation = "none"
  /\ process.step \in {"verify", "commit", "finish"} => file.reservation # "none"
  /\ process.step \in {"commit", "finish"} /\ file.reservation = "reserved" => file.blob

\* Attempts that have not begun have stored nothing.
Untouched ==
  \A c \in Revisions, n \in Attempts : n > checkpoint[c].attempts => transfer[<<c, n>>] = NoTransfer

\* An attempt is made by one process.
Alone ==
  \A b, d \in Builders :
    builder[b].step \in BeforeWrite /\ builder[d].step \in BeforeWrite /\ File(b) = File(d) => b = d

\* A published row refers to an active object.
Kept ==
  \A c \in Revisions :
    checkpoint[c].status = "ready" =>
      checkpoint[c].object # 0 /\ transfer[<<c, checkpoint[c].object>>].object = "active"

CheckpointInv ==
  /\ Typed
  /\ \A f \in Files : Whole(transfer[f])
  /\ \A b \in Builders : Sound(builder[b], Stored(b), RowOf(b).attempts)
  /\ Untouched /\ Alone /\ Kept /\ LatestIsNewest

LEMMA InitInv == CheckpointInit => CheckpointInv
<1> SUFFICES ASSUME CheckpointInit PROVE CheckpointInv
  OBVIOUS
<1>1. NoCheckpoint \in Row /\ NoTransfer \in Transfer /\ IdleBuilder \in Process
  BY DEF NoCheckpoint, NoTransfer, IdleBuilder, Row, Transfer, Process, BuilderSteps
<1>2. Typed
  BY <1>1 DEF CheckpointInit, Typed, Leased, NoCheckpoint
<1>3. Whole(NoTransfer)
  BY DEF Whole, NoTransfer
<1>4. \A file, attempts : Sound(IdleBuilder, file, attempts)
  BY DEF Sound, IdleBuilder, BeforeWrite, FileSteps
<1>5. \A b \in Builders : Sound(builder[b], Stored(b), RowOf(b).attempts)
  BY <1>4 DEF CheckpointInit
<1>6. Untouched /\ Alone /\ Kept /\ LatestIsNewest
  BY DEF CheckpointInit, Untouched, Alone, Kept, LatestIsNewest, NoCheckpoint, IdleBuilder,
         BeforeWrite, Files
<1> QED
  BY <1>2, <1>3, <1>5, <1>6 DEF CheckpointInit, CheckpointInv

----------------------------------------------------------------------------
(* The steps of a process.                                                 *)

LEMMA BreaksTyped ==
  ASSUME breaks \in 0 .. MaxBreaks, Break \/ UNCHANGED breaks
  PROVE  breaks' \in 0 .. MaxBreaks
BY DEF Break

\* Where a process may go on to, with what its attempt has then stored.
Allowed(b, step, file) ==
  /\ step \in BeforeWrite => builder[b].step \in BeforeWrite /\ ~file.blob
  /\ step \in FileSteps => builder[b].step \in FileSteps
  /\ step \in {"prepare", "reserve"} => file.reservation = "none"
  /\ step \in {"verify", "commit", "finish"} => file.reservation # "none"
  /\ step \in {"commit", "finish"} /\ file.reservation = "reserved" => file.blob

LEMMA ToStepIs ==
  ASSUME CheckpointInv, NEW b \in Builders, NEW step \in BuilderSteps, ToStep(b, step),
         ~Doing(b, "idle"), Allowed(b, step, transfer'[File(b)]),
         \A c \in Revisions : checkpoint'[c].attempts = checkpoint[c].attempts
  PROVE  /\ builder' \in [Builders -> Process]
         /\ \A d \in Builders : d # b => builder'[d] = builder[d]
         /\ Sound(builder'[b], Stored(b)', RowOf(b)'.attempts)
         /\ Alone'
<1>1. Sound(builder[b], Stored(b), RowOf(b).attempts) /\ builder \in [Builders -> Process]
  BY DEF CheckpointInv, Typed
<1>2. CASE step = "idle"
  <2>1. builder' = [builder EXCEPT ![b] = IdleBuilder] /\ IdleBuilder \in Process
    BY <1>2 DEF ToStep, IdleBuilder, Process, BuilderSteps
  <2>2. \A file, attempts : Sound(IdleBuilder, file, attempts)
    BY DEF Sound, IdleBuilder, BeforeWrite, FileSteps
  <2>3. \A d \in Builders : d # b => builder'[d] = builder[d]
    BY <1>1, <2>1
  <2>4. Alone'
    BY <1>1, <2>1, <2>3 DEF CheckpointInv, Alone, File, Target, IdleBuilder, BeforeWrite
  <2> QED
    BY <1>1, <2>1, <2>2, <2>3, <2>4
<1>3. CASE step # "idle"
  <2>1. builder' = [builder EXCEPT ![b] = [@ EXCEPT !.step = step]]
    BY <1>3 DEF ToStep
  <2>2. /\ builder'[b] = [builder[b] EXCEPT !.step = step]
        /\ \A d \in Builders : d # b => builder'[d] = builder[d]
    BY <1>1, <2>1
  <2>3. /\ builder'[b] \in Process /\ builder'[b].step = step
        /\ builder'[b].revision = builder[b].revision /\ builder'[b].attempt = builder[b].attempt
    BY <1>1, <2>2 DEF Process
  <2>4. builder' \in [Builders -> Process]
    BY <1>1, <2>1, <2>2, <2>3
  <2>5. Target(b)' = Target(b) /\ File(b)' = File(b) /\ Target(b) \in Revisions
    BY <1>1, <2>3 DEF Target, File, Sound, Doing
  <2>6. Stored(b)' = transfer'[File(b)] /\ RowOf(b)'.attempts = RowOf(b).attempts
    BY <2>5 DEF Stored, RowOf
  <2>7. Sound(builder'[b], Stored(b)', RowOf(b)'.attempts)
    BY <1>1, <2>3, <2>5, <2>6 DEF Sound, Allowed, Doing, Target
  <2>8. \A d \in Builders :
          builder'[d].step \in BeforeWrite =>
            builder[d].step \in BeforeWrite /\ File(d)' = File(d)
    BY <2>2, <2>3, <2>5 DEF Allowed, File, Target
  <2>9. Alone'
    BY <2>8 DEF CheckpointInv, Alone
  <2> QED
    BY <2>2, <2>4, <2>7, <2>9
<1> QED
  BY <1>2, <1>3

\* A step that changes neither a row nor a file.
LEMMA StepMoves ==
  ASSUME CheckpointInv, NEW b \in Builders, NEW step \in BuilderSteps, ToStep(b, step),
         ~Doing(b, "idle"), Allowed(b, step, Stored(b)),
         UNCHANGED <<checkpoint, transfer, latest>>, Break \/ UNCHANGED breaks
  PROVE  CheckpointInv'
<1>1. Allowed(b, step, transfer'[File(b)])
  BY DEF Stored
<1>2. /\ builder' \in [Builders -> Process]
      /\ \A d \in Builders : d # b => builder'[d] = builder[d]
      /\ Sound(builder'[b], Stored(b)', RowOf(b)'.attempts)
      /\ Alone'
  BY <1>1, ToStepIs
<1>3. Typed'
  BY <1>2, BreaksTyped DEF CheckpointInv, Typed
<1>4. \A d \in Builders : Sound(builder'[d], Stored(d)', RowOf(d)'.attempts)
  BY <1>2 DEF CheckpointInv, Stored, RowOf, File, Target
<1>5. Untouched' /\ Kept' /\ LatestIsNewest' /\ \A f \in Files : Whole(transfer'[f])
  BY DEF CheckpointInv, Untouched, Kept, LatestIsNewest
<1> QED
  BY <1>2, <1>3, <1>4, <1>5 DEF CheckpointInv

\* What a step of b may turn the file of its attempt into.
Advances(b, old, new) ==
  /\ new \in Transfer /\ Whole(new)
  /\ old.reservation = "none" => builder[b].step = "reserve"
  /\ new.reservation # "none"
  /\ new.blob => old.blob \/ builder[b].step = "write"
  /\ new.reservation = "reserved" /\ old.reservation # "none" =>
       old.reservation = "reserved" /\ (old.blob => new.blob)
  /\ old.object = "active" => new.object = "active" \/ Droppable(b)

\* A step that changes what the attempt has stored.
LEMMA FileMoves ==
  ASSUME CheckpointInv, NEW b \in Builders, NEW step \in BuilderSteps, ToStep(b, step),
         builder[b].step \in FileSteps, NEW new,
         transfer' = [transfer EXCEPT ![File(b)] = new],
         Advances(b, Stored(b), new), Allowed(b, step, new),
         UNCHANGED <<checkpoint, latest>>, Break \/ UNCHANGED breaks
  PROVE  CheckpointInv'
<1>1. Sound(builder[b], Stored(b), RowOf(b).attempts) /\ ~Doing(b, "idle")
  BY DEF CheckpointInv, Doing, FileSteps, BeforeWrite
<1>2. Target(b) \in Revisions /\ builder[b].attempt \in Attempts /\ File(b) \in Files
  BY <1>1 DEF Sound, Doing, Target, File, Files
<1>3. /\ transfer \in [Files -> Transfer] /\ transfer' \in [Files -> Transfer]
      /\ transfer'[File(b)] = new /\ \A f \in Files : f # File(b) => transfer'[f] = transfer[f]
  BY <1>2 DEF CheckpointInv, Typed, Advances
<1>4. /\ builder' \in [Builders -> Process]
      /\ \A d \in Builders : d # b => builder'[d] = builder[d]
      /\ Sound(builder'[b], Stored(b)', RowOf(b)'.attempts)
      /\ Alone'
  BY <1>1, <1>3, ToStepIs
<1>5. Typed'
  BY <1>3, <1>4, BreaksTyped DEF CheckpointInv, Typed
<1>6. \A f \in Files : Whole(transfer'[f])
  BY <1>3 DEF CheckpointInv, Advances
<1>7. \A d \in Builders : Sound(builder'[d], Stored(d)', RowOf(d)'.attempts)
  <2> SUFFICES ASSUME NEW d \in Builders, d # b
               PROVE  Sound(builder'[d], Stored(d)', RowOf(d)'.attempts)
    BY <1>4
  <2>1. builder'[d] = builder[d] /\ Sound(builder[d], Stored(d), RowOf(d).attempts)
    BY <1>4 DEF CheckpointInv
  <2>2. RowOf(d)'.attempts = RowOf(d).attempts /\ File(d)' = File(d)
    BY <2>1 DEF RowOf, Target, File
  <2>3. CASE builder[d].step \in FileSteps /\ File(d) = File(b)
    <3>1. Stored(d)' = new /\ Stored(d) = Stored(b)
      BY <1>3, <2>2, <2>3 DEF Stored
    <3>2. builder[d].step \in BeforeWrite => builder[b].step \notin BeforeWrite
      BY <2>3 DEF CheckpointInv, Alone
    <3>3. builder[d].step \in {"prepare", "reserve"} => FALSE
      BY <2>1, <3>1, <3>2 DEF Sound, Advances, BeforeWrite
    <3>4. builder[d].step \in {"commit", "finish"} /\ new.reservation = "reserved" => new.blob
      BY <2>1, <3>1 DEF Sound, Advances
    <3>5. builder[d].step \in BeforeWrite => ~new.blob
      BY <1>3, <2>1, <3>1, <3>2 DEF Sound, Advances, BeforeWrite, Transfer
    <3> QED
      BY <2>1, <2>2, <3>1, <3>3, <3>4, <3>5 DEF Sound, Advances
  <2>4. CASE builder[d].step \in FileSteps /\ File(d) # File(b)
    <3>1. File(d) \in Files
      BY <2>1, <2>4 DEF Sound, File, Files, Target, FileSteps, BeforeWrite
    <3>2. Stored(d)' = Stored(d)
      BY <1>3, <2>2, <2>4, <3>1 DEF Stored
    <3> QED
      BY <2>1, <2>2, <3>2
  <2>5. CASE builder[d].step \notin FileSteps
    BY <2>1, <2>5 DEF Sound, FileSteps, BeforeWrite
  <2> QED
    BY <2>3, <2>4, <2>5
<1>8. Untouched'
  <2> SUFFICES ASSUME NEW c \in Revisions, NEW n \in Attempts, n > checkpoint[c].attempts
               PROVE  transfer'[<<c, n>>] = NoTransfer
    BY DEF Untouched
  <2>1. transfer[<<c, n>>] = NoTransfer
    BY DEF CheckpointInv, Untouched
  <2>2. <<c, n>> # File(b)
    <3> SUFFICES ASSUME <<c, n>> = File(b) PROVE FALSE
      OBVIOUS
    <3>1. c = Target(b) /\ n = builder[b].attempt
      BY DEF File
    <3>2. Stored(b) = NoTransfer
      BY <2>1 DEF Stored
    <3>3. builder[b].step = "reserve"
      BY <3>2 DEF Advances, NoTransfer
    <3>4. n <= checkpoint[c].attempts
      BY <1>1, <3>1, <3>3 DEF Sound, BeforeWrite, RowOf
    <3> QED
      BY <1>2, <3>1, <3>4 DEF CheckpointInv, Typed, Row, Attempts
  <2> QED
    BY <1>3, <2>1, <2>2 DEF Files
<1>9. Kept'
  <2> SUFFICES ASSUME NEW c \in Revisions, checkpoint[c].status = "ready"
               PROVE  checkpoint[c].object # 0 /\ transfer'[<<c, checkpoint[c].object>>].object = "active"
    BY DEF Kept
  <2>1. checkpoint[c].object # 0 /\ transfer[<<c, checkpoint[c].object>>].object = "active"
    BY DEF CheckpointInv, Kept
  <2>2. <<c, checkpoint[c].object>> \in Files
    BY <2>1 DEF CheckpointInv, Typed, Row, Files, Attempts
  <2>3. CASE <<c, checkpoint[c].object>> = File(b)
    <3>1. ~Droppable(b) /\ Stored(b).object = "active"
      BY <2>1, <2>3 DEF Droppable, RowOf, File, Stored
    <3> QED
      BY <1>3, <2>1, <2>3, <3>1 DEF Advances
  <2> QED
    BY <1>3, <2>1, <2>2, <2>3
<1> QED
  BY <1>4, <1>5, <1>6, <1>7, <1>8, <1>9 DEF CheckpointInv, LatestIsNewest

\* What a change of a row may be that does not publish it.
Reworked(old, new) ==
  /\ new \in Row /\ Leased(new)
  /\ new.attempts >= old.attempts
  /\ old.status # "ready" /\ new.status # "ready"

\* What the change of one row leaves as it is.
LEMMA RowKeeps ==
  ASSUME CheckpointInv, NEW c \in Revisions, NEW new, Reworked(checkpoint[c], new),
         checkpoint' = [checkpoint EXCEPT ![c] = new], UNCHANGED <<transfer, latest>>
  PROVE  /\ checkpoint' \in [Revisions -> Row] /\ \A e \in Revisions : Leased(checkpoint'[e])
         /\ \A e \in Revisions : checkpoint'[e].attempts >= checkpoint[e].attempts
         /\ \A f \in Files : Whole(transfer'[f])
         /\ Untouched' /\ Kept' /\ LatestIsNewest'
<1>1. checkpoint'[c] = new /\ \A e \in Revisions : e # c => checkpoint'[e] = checkpoint[e]
  BY DEF CheckpointInv, Typed
<1>2. /\ checkpoint' \in [Revisions -> Row] /\ \A e \in Revisions : Leased(checkpoint'[e])
      /\ \A e \in Revisions : checkpoint'[e].attempts >= checkpoint[e].attempts
  BY <1>1 DEF CheckpointInv, Typed, Reworked, Row
<1>3. Untouched'
  <2> SUFFICES ASSUME NEW e \in Revisions, NEW n \in Attempts, n > checkpoint'[e].attempts
               PROVE  transfer[<<e, n>>] = NoTransfer
    BY DEF Untouched
  <2>1. n > checkpoint[e].attempts
    BY <1>2 DEF CheckpointInv, Typed, Row, Attempts
  <2> QED
    BY <2>1 DEF CheckpointInv, Untouched
<1>4. Kept'
  BY <1>1 DEF CheckpointInv, Kept, Reworked
<1>5. LatestIsNewest'
  BY <1>1 DEF CheckpointInv, LatestIsNewest, Reworked, Typed
<1> QED
  BY <1>2, <1>3, <1>4, <1>5 DEF CheckpointInv

\* A process changes its row and goes on.
LEMMA RowMoves ==
  ASSUME CheckpointInv, NEW b \in Builders, NEW step \in BuilderSteps, ToStep(b, step),
         ~Doing(b, "idle"), Allowed(b, step, Stored(b)),
         NEW new, checkpoint' = [checkpoint EXCEPT ![Target(b)] = new],
         Reworked(RowOf(b), new), new.attempts = RowOf(b).attempts,
         UNCHANGED <<transfer, latest>>, Break \/ UNCHANGED breaks
  PROVE  CheckpointInv'
<1>1. Target(b) \in Revisions
  BY DEF CheckpointInv, Sound, Doing, Target
<1>2. /\ checkpoint' \in [Revisions -> Row] /\ \A e \in Revisions : Leased(checkpoint'[e])
      /\ \A f \in Files : Whole(transfer'[f])
      /\ Untouched' /\ Kept' /\ LatestIsNewest'
  BY <1>1, RowKeeps DEF RowOf
<1>3. \A e \in Revisions : checkpoint'[e].attempts = checkpoint[e].attempts
  BY <1>1 DEF CheckpointInv, Typed, RowOf
<1>4. Allowed(b, step, transfer'[File(b)])
  BY DEF Stored
<1>5. /\ builder' \in [Builders -> Process]
      /\ \A d \in Builders : d # b => builder'[d] = builder[d]
      /\ Sound(builder'[b], Stored(b)', RowOf(b)'.attempts)
      /\ Alone'
  BY <1>3, <1>4, ToStepIs
<1>6. Typed'
  BY <1>2, <1>5, BreaksTyped DEF CheckpointInv, Typed
<1>7. \A d \in Builders : Sound(builder'[d], Stored(d)', RowOf(d)'.attempts)
  <2> SUFFICES ASSUME NEW d \in Builders, d # b
               PROVE  Sound(builder'[d], Stored(d)', RowOf(d)'.attempts)
    BY <1>5
  <2>1. builder'[d] = builder[d] /\ Sound(builder[d], Stored(d), RowOf(d).attempts)
    BY <1>5 DEF CheckpointInv
  <2>2. Stored(d)' = Stored(d) /\ Target(d)' = Target(d)
    BY <2>1 DEF Stored, File, Target
  <2>3. builder[d].step # "idle" => RowOf(d)'.attempts = RowOf(d).attempts
    BY <1>3, <2>1, <2>2 DEF RowOf, Sound, Target
  <2> QED
    BY <2>1, <2>2, <2>3 DEF Sound, BeforeWrite
<1> QED
  BY <1>2, <1>5, <1>6, <1>7 DEF CheckpointInv

\* An idle process takes the row c, and with it the file of the attempt n.
LEMMA ClaimMoves ==
  ASSUME CheckpointInv, NEW b \in Builders, NEW c \in Revisions, Doing(b, "idle"),
         NEW new, Reworked(checkpoint[c], new), checkpoint' = [checkpoint EXCEPT ![c] = new],
         NEW process \in Process, builder' = [builder EXCEPT ![b] = process],
         process.revision = c, process.step \in FileSteps => process.attempt \in Attempts,
         process.step \notin {"verify", "commit", "finish"},
         process.step \in BeforeWrite =>
           process.attempt = new.attempts /\ new.attempts = checkpoint[c].attempts + 1,
         UNCHANGED <<transfer, latest, breaks>>
  PROVE  CheckpointInv'
<1>1. /\ checkpoint' \in [Revisions -> Row] /\ \A e \in Revisions : Leased(checkpoint'[e])
      /\ \A e \in Revisions : checkpoint'[e].attempts >= checkpoint[e].attempts
      /\ \A f \in Files : Whole(transfer'[f])
      /\ Untouched' /\ Kept' /\ LatestIsNewest'
  BY RowKeeps
<1>2. /\ builder' \in [Builders -> Process] /\ builder'[b] = process
      /\ \A d \in Builders : d # b => builder'[d] = builder[d]
      /\ checkpoint'[c] = new
  BY DEF CheckpointInv, Typed
<1>3. Typed'
  BY <1>1, <1>2 DEF CheckpointInv, Typed
<1>4. process.step \in BeforeWrite =>
        /\ transfer[<<c, process.attempt>>] = NoTransfer
        /\ process.attempt > checkpoint[c].attempts
  BY DEF CheckpointInv, Untouched, FileSteps, Typed, Row
<1>5. Sound(builder'[b], Stored(b)', RowOf(b)'.attempts)
  <2>1. Stored(b)' = transfer[<<c, process.attempt>>] /\ RowOf(b)' = new
    BY <1>2 DEF Stored, RowOf, File, Target
  <2>2. process.step \in BeforeWrite => process.attempt <= new.attempts
    BY DEF Reworked, Row
  <2> QED
    BY <1>2, <1>4, <2>1, <2>2 DEF Sound, NoTransfer, BeforeWrite
<1>6. \A d \in Builders : Sound(builder'[d], Stored(d)', RowOf(d)'.attempts)
  <2> SUFFICES ASSUME NEW d \in Builders, d # b
               PROVE  Sound(builder'[d], Stored(d)', RowOf(d)'.attempts)
    BY <1>5
  <2>1. builder'[d] = builder[d] /\ Sound(builder[d], Stored(d), RowOf(d).attempts)
    BY <1>2 DEF CheckpointInv
  <2>2. Stored(d)' = Stored(d) /\ Target(d)' = Target(d)
    BY <2>1 DEF Stored, File, Target
  <2>3. builder[d].step \in BeforeWrite => builder[d].attempt <= RowOf(d)'.attempts
    <3> SUFFICES ASSUME builder[d].step \in BeforeWrite
                 PROVE  builder[d].attempt <= RowOf(d)'.attempts
      OBVIOUS
    <3>1. Target(d) \in Revisions /\ builder[d].attempt <= RowOf(d).attempts
      BY <2>1 DEF Sound, BeforeWrite, Target
    <3>2. RowOf(d)'.attempts >= RowOf(d).attempts
      BY <1>1, <2>2, <3>1 DEF RowOf
    <3> QED
      BY <1>1, <2>2, <3>1, <3>2 DEF CheckpointInv, Typed, Row, RowOf, Process
  <2> QED
    BY <2>1, <2>2, <2>3 DEF Sound
<1>7. Alone'
  <2>1. \A d \in Builders : d # b /\ builder[d].step \in BeforeWrite /\ process.step \in BeforeWrite
                              => File(d) # <<c, process.attempt>>
    BY <1>4 DEF CheckpointInv, Sound, File, Target, RowOf, Typed, Row, Process
  <2>2. File(b)' = <<c, process.attempt>> /\ \A d \in Builders : d # b => File(d)' = File(d)
    BY <1>2 DEF File, Target
  <2> QED
    BY <1>2, <2>1, <2>2 DEF CheckpointInv, Alone
<1> QED
  BY <1>1, <1>3, <1>6, <1>7 DEF CheckpointInv

\* A publication, by the process that made the artifact or by a reconciliation.
LEMMA PublishMoves ==
  ASSUME CheckpointInv, NEW b \in Builders, NEW step \in {"idle", "recover"}, ToStep(b, step),
         ~Doing(b, "idle"), Publishable(b), Publish153(b), UNCHANGED transfer,
         Break \/ UNCHANGED breaks
  PROVE  CheckpointInv'
<1>1. Target(b) \in Revisions
  BY DEF CheckpointInv, Sound, Doing, Target
<1>2. step \in BuilderSteps /\ \A file : Allowed(b, step, file)
  BY DEF BuilderSteps, Allowed, BeforeWrite, FileSteps
<1>3. CASE RowOf(b).status = "ready"
  BY <1>2, <1>3, StepMoves DEF Publish153
<1>4. CASE RowOf(b).status # "ready"
  <2> DEFINE c == Target(b)
             new == [checkpoint[c] EXCEPT !.status = "ready", !.holder = NoBuilder, !.expired = FALSE]
  <2>1. /\ checkpoint' = [checkpoint EXCEPT ![c] = new]
        /\ latest' = IF Newer(c) THEN c ELSE latest
    BY <1>1, <1>4 DEF Publish153, CheckpointInv, Typed, Row
  <2>2. /\ RowOf(b).object # 0 /\ transfer[<<c, RowOf(b).object>>].object = "active"
        /\ RowOf(b).status = "materializing"
    BY <1>4 DEF Publishable, HasLeaseInTime, HasLease
  <2>3. checkpoint \in [Revisions -> Row] /\ checkpoint[c] \in Row
    BY <1>1 DEF CheckpointInv, Typed
  <2>4. /\ new \in Row /\ new.status = "ready" /\ new.holder = NoBuilder
        /\ new.attempts = checkpoint[c].attempts /\ new.object = checkpoint[c].object
    BY <2>3 DEF Row
  <2> HIDE DEF new
  <2>5. checkpoint'[c] = new /\ \A e \in Revisions : e # c => checkpoint'[e] = checkpoint[e]
    BY <1>1, <2>1, <2>3
  <2>6. \A e \in Revisions : checkpoint'[e].attempts = checkpoint[e].attempts
    BY <2>4, <2>5
  <2>7. /\ builder' \in [Builders -> Process]
        /\ \A d \in Builders : d # b => builder'[d] = builder[d]
        /\ Sound(builder'[b], Stored(b)', RowOf(b)'.attempts)
        /\ Alone'
    BY <1>2, <2>6, ToStepIs
  <2>8. Typed'
    <3>1. checkpoint' \in [Revisions -> Row] /\ latest' \in Revisions \cup {0}
      BY <1>1, <2>1, <2>3, <2>4 DEF CheckpointInv, Typed
    <3>2. \A e \in Revisions : Leased(checkpoint'[e])
      BY <2>4, <2>5 DEF CheckpointInv, Typed, Leased
    <3> QED
      BY <2>7, <3>1, <3>2, BreaksTyped DEF CheckpointInv, Typed
  <2>9. \A d \in Builders : Sound(builder'[d], Stored(d)', RowOf(d)'.attempts)
    <3> SUFFICES ASSUME NEW d \in Builders, d # b
                 PROVE  Sound(builder'[d], Stored(d)', RowOf(d)'.attempts)
      BY <2>7
    <3>1. builder'[d] = builder[d] /\ Sound(builder[d], Stored(d), RowOf(d).attempts)
      BY <2>7 DEF CheckpointInv
    <3>2. Stored(d)' = Stored(d) /\ Target(d)' = Target(d)
      BY <3>1 DEF Stored, File, Target
    <3>3. builder[d].step # "idle" => RowOf(d)'.attempts = RowOf(d).attempts
      BY <2>6, <3>1, <3>2 DEF RowOf, Sound, Target
    <3> QED
      BY <3>1, <3>2, <3>3 DEF Sound, BeforeWrite
  <2>10. Untouched' /\ \A f \in Files : Whole(transfer'[f])
    BY <2>6 DEF CheckpointInv, Untouched
  <2>11. Kept'
    BY <2>2, <2>4, <2>5 DEF CheckpointInv, Kept, RowOf
  <2>12. LatestIsNewest'
    <3>1. /\ \A e \in Revisions : checkpoint[e].status = "ready" => e <= latest
          /\ latest # 0 => checkpoint[latest].status = "ready"
          /\ latest \in Nat /\ Revisions \subseteq Nat /\ 0 \notin Revisions
      BY DEF CheckpointInv, LatestIsNewest, Typed
    <3>2. CASE c >= latest
      <4>1. latest' = c
        BY <2>1, <3>2 DEF Newer
      <4>2. ASSUME NEW e \in Revisions, checkpoint'[e].status = "ready" PROVE e <= c
        <5>1. e \in Nat /\ c \in Nat /\ (e = c \/ e <= latest)
          BY <1>1, <2>5, <3>1, <4>2
        <5> QED
          BY <3>1, <3>2, <5>1
      <4> QED
        BY <1>1, <2>4, <2>5, <4>1, <4>2 DEF LatestIsNewest
    <3>3. CASE ~(c >= latest)
      <4>1. latest' = latest
        BY <2>1, <3>3 DEF Newer
      <4>2. ASSUME NEW e \in Revisions, checkpoint'[e].status = "ready" PROVE e <= latest
        <5>1. e \in Nat /\ c \in Nat /\ (e = c \/ e <= latest)
          BY <1>1, <2>5, <3>1, <4>2
        <5> QED
          BY <3>1, <3>3, <5>1
      <4>3. latest # 0 => checkpoint'[latest].status = "ready"
        BY <2>4, <2>5, <3>1 DEF CheckpointInv, Typed
      <4> QED
        BY <4>1, <4>2, <4>3 DEF LatestIsNewest
    <3> QED
      BY <3>2, <3>3
  <2> QED
    BY <2>7, <2>8, <2>9, <2>10, <2>11, <2>12 DEF CheckpointInv
<1> QED
  BY <1>3, <1>4

----------------------------------------------------------------------------
(* The actions.                                                            *)

LEMMA RequestInv ==
  ASSUME CheckpointInv, NEW c \in Revisions, RequestCheckpoint(c)
  PROVE  CheckpointInv'
<1> DEFINE new == [checkpoint[c] EXCEPT !.status = "pending"]
<1>1. checkpoint' = [checkpoint EXCEPT ![c] = new]
  BY DEF RequestCheckpoint, CheckpointInv, Typed, Row
<1>2. Reworked(checkpoint[c], new)
  BY DEF RequestCheckpoint, CheckpointInv, Typed, Row, Leased, Reworked
<1>3. /\ checkpoint' \in [Revisions -> Row] /\ \A e \in Revisions : Leased(checkpoint'[e])
      /\ \A e \in Revisions : checkpoint'[e].attempts >= checkpoint[e].attempts
      /\ \A f \in Files : Whole(transfer'[f])
      /\ Untouched' /\ Kept' /\ LatestIsNewest'
  BY <1>1, <1>2, RowKeeps DEF RequestCheckpoint
<1>4. \A e \in Revisions : checkpoint'[e].attempts = checkpoint[e].attempts
  BY <1>1 DEF CheckpointInv, Typed, Row
<1>5. \A d \in Builders : Sound(builder[d], Stored(d), RowOf(d)'.attempts)
  BY <1>4 DEF CheckpointInv, Sound, RowOf, Target, BeforeWrite, RequestCheckpoint
<1> QED
  BY <1>3, <1>5 DEF CheckpointInv, Typed, Alone, File, Stored, Target, RequestCheckpoint

LEMMA LeaseEndsInv ==
  ASSUME CheckpointInv, NEW c \in Revisions, CheckpointLeaseEnds(c)
  PROVE  CheckpointInv'
<1> DEFINE new == [checkpoint[c] EXCEPT !.expired = TRUE]
<1>1. checkpoint' = [checkpoint EXCEPT ![c] = new]
  BY DEF CheckpointLeaseEnds, CheckpointInv, Typed, Row
<1>2. Reworked(checkpoint[c], new)
  <2>1. checkpoint[c] \in Row /\ Leased(checkpoint[c]) /\ checkpoint[c].attempts \in Nat
    BY DEF CheckpointInv, Typed, Row
  <2>2. new \in Row /\ new.attempts = checkpoint[c].attempts
    BY <2>1 DEF Row
  <2>3. new.status = "materializing" /\ new.holder # NoBuilder /\ checkpoint[c].status = "materializing"
    BY <2>1 DEF CheckpointLeaseEnds, Row, Leased
  <2> QED
    BY <2>1, <2>2, <2>3 DEF Leased, Reworked
<1>3. /\ checkpoint' \in [Revisions -> Row] /\ \A e \in Revisions : Leased(checkpoint'[e])
      /\ \A e \in Revisions : checkpoint'[e].attempts >= checkpoint[e].attempts
      /\ \A f \in Files : Whole(transfer'[f])
      /\ Untouched' /\ Kept' /\ LatestIsNewest'
  BY <1>1, <1>2, RowKeeps DEF CheckpointLeaseEnds
<1>4. \A e \in Revisions : checkpoint'[e].attempts = checkpoint[e].attempts
  BY <1>1 DEF CheckpointInv, Typed, Row
<1>5. \A d \in Builders : Sound(builder[d], Stored(d), RowOf(d)'.attempts)
  BY <1>4 DEF CheckpointInv, Sound, RowOf, Target, BeforeWrite, CheckpointLeaseEnds
<1>6. breaks' \in 0 .. MaxBreaks
  BY BreaksTyped DEF CheckpointInv, Typed, CheckpointLeaseEnds
<1> QED
  BY <1>3, <1>5, <1>6 DEF CheckpointInv, Typed, Alone, File, Stored, Target, CheckpointLeaseEnds

LEMMA ClaimInv ==
  ASSUME CheckpointInv, NEW b \in Builders, NEW c \in Revisions, ClaimCheckpoint(b, c)
  PROVE  CheckpointInv'
<1> DEFINE n == checkpoint[c].attempts + 1
           new == [checkpoint[c] EXCEPT !.status = "materializing", !.holder = b,
                                        !.expired = FALSE, !.attempts = n]
           process == [step |-> "prepare", revision |-> c, attempt |-> n]
<1>1. /\ Doing(b, "idle") /\ checkpoint[c].status = "pending" /\ n \in Attempts
      /\ checkpoint' = [checkpoint EXCEPT ![c] = new]
      /\ builder' = [builder EXCEPT ![b] = process]
      /\ UNCHANGED <<transfer, latest, breaks>>
  BY DEF ClaimCheckpoint, CheckpointInv, Typed, Row
<1>2. Reworked(checkpoint[c], new) /\ new.attempts = n
  <2>1. checkpoint[c] \in Row /\ checkpoint[c].attempts \in Nat
    BY DEF CheckpointInv, Typed, Row
  <2>2. n \in 0 .. MaxMaterializations /\ n >= checkpoint[c].attempts
    BY <1>1, <2>1 DEF Attempts
  <2> HIDE DEF n
  <2>3. new \in Row /\ new.attempts = n
    BY <2>1, <2>2 DEF Row
  <2>4. new.status = "materializing" /\ new.holder # NoBuilder
    BY <2>1 DEF Row
  <2> QED
    BY <1>1, <2>1, <2>2, <2>3, <2>4 DEF Leased, Reworked
<1>3. process \in Process /\ process.revision = c /\ process.step = "prepare" /\ process.attempt = n
  BY <1>1 DEF Process, BuilderSteps, Attempts
<1> HIDE DEF new, process
<1> QED
  BY <1>1, <1>2, <1>3, ClaimMoves

LEMMA ClaimExpiredInv ==
  ASSUME CheckpointInv, NEW b \in Builders, NEW c \in Revisions, ClaimExpired(b, c)
  PROVE  CheckpointInv'
<1> DEFINE new == [checkpoint[c] EXCEPT !.holder = b, !.expired = FALSE]
           process == [step |-> ReconcileStep(checkpoint[c]), revision |-> c,
                       attempt |-> checkpoint[c].reservation]
<1>1. /\ Doing(b, "idle") /\ checkpoint[c].status = "materializing"
      /\ checkpoint' = [checkpoint EXCEPT ![c] = new]
      /\ builder' = [builder EXCEPT ![b] = process]
      /\ UNCHANGED <<transfer, latest, breaks>>
  BY DEF ClaimExpired, CheckpointInv, Typed, Row
<1>2. Reworked(checkpoint[c], new)
  <2>1. checkpoint[c] \in Row /\ checkpoint[c].attempts \in Nat
    BY DEF CheckpointInv, Typed, Row
  <2>2. new \in Row /\ new.attempts = checkpoint[c].attempts
    BY <1>1, <2>1 DEF Row
  <2>3. new.status = "materializing" /\ new.holder # NoBuilder
    BY <1>1, <2>1 DEF Row
  <2> QED
    BY <1>1, <2>1, <2>2, <2>3 DEF Leased, Reworked
<1>3. /\ process.step \in {"republish", "ambiguous", "inspect", "retry"}
      /\ process.step = "inspect" => process.attempt # 0
      /\ process.revision = c
  BY DEF ReconcileStep
<1>4. process \in Process
  BY <1>3 DEF CheckpointInv, Typed, Row, Process, BuilderSteps
<1>5. process.step \in FileSteps => process.attempt \in Attempts
  BY <1>3, <1>4 DEF FileSteps, BeforeWrite, Process, Attempts
<1>6. process.step \notin BeforeWrite \cup {"verify", "commit", "finish"}
  BY <1>3 DEF BeforeWrite
<1> HIDE DEF new, process
<1> QED
  BY <1>1, <1>2, <1>3, <1>4, <1>5, <1>6, ClaimMoves

\* The facts about a process that its actions use.
LEMMA AtWorkOn ==
  ASSUME CheckpointInv, NEW b \in Builders, ~Doing(b, "idle")
  PROVE  /\ Target(b) \in Revisions /\ RowOf(b) \in Row /\ Leased(RowOf(b))
         /\ RowOf(b).attempts \in Nat
         /\ Sound(builder[b], Stored(b), RowOf(b).attempts)
         /\ builder[b].attempt \in 0 .. MaxMaterializations
         /\ builder[b].step \in FileSteps =>
              builder[b].attempt \in Attempts /\ File(b) \in Files
              /\ Stored(b) \in Transfer /\ Whole(Stored(b))
<1>1. Target(b) \in Revisions /\ Sound(builder[b], Stored(b), RowOf(b).attempts)
  BY DEF CheckpointInv, Sound, Target, Doing
<1>2. RowOf(b) \in Row /\ Leased(RowOf(b))
  BY <1>1 DEF RowOf, CheckpointInv, Typed
<1>3. RowOf(b).attempts \in Nat
  BY <1>2 DEF Row
<1>4. builder[b].attempt \in 0 .. MaxMaterializations
  BY DEF CheckpointInv, Typed, Process
<1>5. builder[b].step \in FileSteps => builder[b].attempt \in Attempts /\ File(b) \in Files
  BY <1>1 DEF Sound, File, Files, Target
<1> QED
  BY <1>1, <1>2, <1>3, <1>4, <1>5 DEF CheckpointInv, Typed, Stored

\* The steps at which nothing is claimed of what is stored.
LEMMA LaterSteps ==
  ASSUME CheckpointInv, NEW b \in Builders, builder[b].step \in FileSteps,
         NEW step \in BuilderSteps \ (BeforeWrite \cup {"verify", "commit", "finish"}), NEW file
  PROVE  Allowed(b, step, file)
BY DEF Allowed, BeforeWrite

LEMMA OtherSteps ==
  ASSUME NEW b \in Builders, NEW step \in BuilderSteps \ FileSteps, NEW file
  PROVE  Allowed(b, step, file)
BY DEF Allowed, BeforeWrite, FileSteps

LEMMA StepNames ==
  /\ FileSteps \subseteq BuilderSteps
  /\ BuilderSteps \ FileSteps =
       {"idle", "recover", "http", "limit", "retry", "fail", "republish", "ambiguous"}
BY DEF FileSteps, BeforeWrite, BuilderSteps

LEMMA SettleInv ==
  ASSUME CheckpointInv, NEW b \in Builders, SettleCheckpoint(b)
  PROVE  CheckpointInv'
<1>1. ~Doing(b, "idle") /\ "idle" \in BuilderSteps /\ ToStep(b, "idle")
      /\ UNCHANGED <<transfer, latest>> /\ (Break \/ UNCHANGED breaks)
  BY DEF SettleCheckpoint, Doing, BuilderSteps
<1>2. Allowed(b, "idle", Stored(b))
  BY OtherSteps, StepNames
<1>3. CASE UNCHANGED checkpoint
  BY <1>1, <1>2, <1>3, StepMoves
<1>4. CASE /\ HasLease(b)
           /\ checkpoint' = [checkpoint EXCEPT ![Target(b)] = SettledAs(@, builder[b].step)]
  <2> DEFINE new == SettledAs(RowOf(b), builder[b].step)
  <2>1. checkpoint' = [checkpoint EXCEPT ![Target(b)] = new]
    BY <1>1, <1>4, AtWorkOn DEF RowOf, CheckpointInv, Typed
  <2>2. Reworked(RowOf(b), new) /\ new.attempts = RowOf(b).attempts
    <3>1. RowOf(b) \in Row /\ RowOf(b).attempts \in Nat /\ RowOf(b).status = "materializing"
      BY <1>1, <1>4, AtWorkOn DEF HasLease
    <3>2. /\ new \in Row /\ new.attempts = RowOf(b).attempts
          /\ new.status \in {"pending", "failed", "ambiguous"} /\ new.holder = NoBuilder
      BY <3>1 DEF SettledAs, Row
    <3> QED
      BY <3>1, <3>2 DEF Leased, Reworked
  <2> HIDE DEF new
  <2> QED
    BY <1>1, <1>2, <2>1, <2>2, RowMoves
<1> QED
  BY <1>3, <1>4 DEF SettleCheckpoint

LEMMA PrepareInv ==
  ASSUME CheckpointInv, NEW b \in Builders, Prepare(b)
  PROVE  CheckpointInv'
<1>1. ~Doing(b, "idle") /\ UNCHANGED <<transfer, latest>> /\ builder[b].step = "prepare"
  BY DEF Prepare, Doing
<1>2. builder[b].step \in BeforeWrite /\ builder[b].step \in FileSteps
  BY <1>1 DEF BeforeWrite, FileSteps
<1>3. \A step \in {"reserve", "retry", "http", "limit"} :
        step \in BuilderSteps /\ Allowed(b, step, Stored(b))
  BY <1>1, <1>2, AtWorkOn DEF Sound, Allowed, BuilderSteps, FileSteps, BeforeWrite
<1>4. PICK step \in {"reserve", "retry", "http", "limit"} :
        /\ ToStep(b, step) /\ (Break \/ UNCHANGED breaks)
        /\ \/ UNCHANGED checkpoint
           \/ /\ HasLeaseInTime(b)
              /\ checkpoint' = [checkpoint EXCEPT ![Target(b)].prepared = TRUE]
  BY DEF Prepare, Rpc
<1>5. CASE UNCHANGED checkpoint
  BY <1>1, <1>3, <1>4, <1>5, StepMoves
<1>6. CASE /\ HasLeaseInTime(b)
           /\ checkpoint' = [checkpoint EXCEPT ![Target(b)].prepared = TRUE]
  <2> DEFINE new == [RowOf(b) EXCEPT !.prepared = TRUE]
  <2>1. checkpoint' = [checkpoint EXCEPT ![Target(b)] = new]
    BY <1>1, <1>6, AtWorkOn DEF RowOf, CheckpointInv, Typed, Row
  <2>2. Reworked(RowOf(b), new) /\ new.attempts = RowOf(b).attempts
    <3>1. /\ RowOf(b) \in Row /\ RowOf(b).attempts \in Nat /\ RowOf(b).status = "materializing"
          /\ Leased(RowOf(b)) /\ builder[b].attempt \in 0 .. MaxMaterializations
      BY <1>1, <1>6, AtWorkOn DEF HasLeaseInTime, HasLease
    <3>2. /\ new \in Row /\ new.attempts = RowOf(b).attempts
          /\ new.status = RowOf(b).status /\ new.holder = RowOf(b).holder
      BY <3>1 DEF Row
    <3> QED
      BY <3>1, <3>2 DEF Leased, Reworked
  <2> HIDE DEF new
  <2> QED
    BY <1>1, <1>3, <1>4, <2>1, <2>2, RowMoves
<1> QED
  BY <1>4, <1>5, <1>6

LEMMA TrackInv ==
  ASSUME CheckpointInv, NEW b \in Builders, Track(b)
  PROVE  CheckpointInv'
<1>1. ~Doing(b, "idle") /\ UNCHANGED <<transfer, latest>> /\ builder[b].step = "track"
  BY DEF Track, Doing
<1>2. builder[b].step \in BeforeWrite /\ builder[b].step \in FileSteps
  BY <1>1 DEF BeforeWrite, FileSteps
<1>3. \A step \in {"write", "untrack"} : step \in BuilderSteps /\ Allowed(b, step, Stored(b))
  BY <1>1, <1>2, AtWorkOn DEF Sound, Allowed, BuilderSteps, FileSteps, BeforeWrite
<1>4. PICK step \in {"write", "untrack"} :
        /\ ToStep(b, step) /\ (Break \/ UNCHANGED breaks)
        /\ \/ UNCHANGED checkpoint
           \/ /\ HasLeaseInTime(b)
              /\ checkpoint' = [checkpoint EXCEPT ![Target(b)].reservation = builder[b].attempt]
  BY DEF Track, Rpc
<1>5. CASE UNCHANGED checkpoint
  BY <1>1, <1>3, <1>4, <1>5, StepMoves
<1>6. CASE /\ HasLeaseInTime(b)
           /\ checkpoint' = [checkpoint EXCEPT ![Target(b)].reservation = builder[b].attempt]
  <2> DEFINE new == [RowOf(b) EXCEPT !.reservation = builder[b].attempt]
  <2>1. checkpoint' = [checkpoint EXCEPT ![Target(b)] = new]
    BY <1>1, <1>6, AtWorkOn DEF RowOf, CheckpointInv, Typed, Row
  <2>2. Reworked(RowOf(b), new) /\ new.attempts = RowOf(b).attempts
    <3>1. /\ RowOf(b) \in Row /\ RowOf(b).attempts \in Nat /\ RowOf(b).status = "materializing"
          /\ Leased(RowOf(b)) /\ builder[b].attempt \in 0 .. MaxMaterializations
      BY <1>1, <1>6, AtWorkOn DEF HasLeaseInTime, HasLease
    <3>2. /\ new \in Row /\ new.attempts = RowOf(b).attempts
          /\ new.status = RowOf(b).status /\ new.holder = RowOf(b).holder
      BY <3>1 DEF Row
    <3> QED
      BY <3>1, <3>2 DEF Leased, Reworked
  <2> HIDE DEF new
  <2> QED
    BY <1>1, <1>3, <1>4, <2>1, <2>2, RowMoves
<1> QED
  BY <1>4, <1>5, <1>6

\* The attachment of the object, by either side.
LEMMA AttachMoves ==
  ASSUME CheckpointInv, NEW b \in Builders, ~Doing(b, "idle"), NEW step \in BuilderSteps,
         ToStep(b, step), Allowed(b, step, Stored(b)), Attachable(b), Attached(b),
         UNCHANGED <<transfer, latest>>, Break \/ UNCHANGED breaks
  PROVE  CheckpointInv'
<1> DEFINE new == [RowOf(b) EXCEPT !.object = builder[b].attempt]
<1>1. checkpoint' = [checkpoint EXCEPT ![Target(b)] = new]
  BY AtWorkOn DEF Attached, RowOf, CheckpointInv, Typed, Row
<1>2. Reworked(RowOf(b), new) /\ new.attempts = RowOf(b).attempts
  BY AtWorkOn DEF Attachable, Reworked, HasLeaseInTime, HasLease, Row, Leased
<1> HIDE DEF new
<1> QED
  BY <1>1, <1>2, RowMoves

LEMMA AttachInv ==
  ASSUME CheckpointInv, NEW b \in Builders, Attach(b) \/ Adopt153(b)
  PROVE  CheckpointInv'
<1>1. ~Doing(b, "idle") /\ UNCHANGED <<transfer, latest>> /\ builder[b].step \in {"attach", "adopt"}
  BY DEF Attach, Adopt153, Doing
<1>2. builder[b].step \in FileSteps
  BY <1>1 DEF FileSteps
<1>3. \A step \in {"publish", "resolve", "republish", "idle"} :
        step \in BuilderSteps /\ Allowed(b, step, Stored(b))
  BY <1>2, LaterSteps DEF BuilderSteps, BeforeWrite
<1>4. PICK step \in {"publish", "resolve", "republish", "idle"} :
        /\ ToStep(b, step) /\ (Break \/ UNCHANGED breaks)
        /\ UNCHANGED checkpoint \/ (Attachable(b) /\ Attached(b))
  BY DEF Attach, Adopt153, Rpc
<1>5. CASE UNCHANGED checkpoint
  BY <1>1, <1>3, <1>4, <1>5, StepMoves
<1>6. CASE Attachable(b) /\ Attached(b)
  BY <1>1, <1>3, <1>4, <1>6, AttachMoves
<1> QED
  BY <1>4, <1>5, <1>6

LEMMA PublishInv ==
  ASSUME CheckpointInv, NEW b \in Builders, Publish(b) \/ Republish(b)
  PROVE  CheckpointInv'
<1>1. ~Doing(b, "idle") /\ UNCHANGED transfer
  BY DEF Publish, Republish, Doing
<1>2. PICK step \in {"idle", "recover"} :
        /\ ToStep(b, step) /\ (Break \/ UNCHANGED breaks)
        /\ UNCHANGED <<checkpoint, latest>> \/ (Publishable(b) /\ Publish153(b))
  BY DEF Publish, Republish, Rpc
<1>3. step \in BuilderSteps /\ Allowed(b, step, Stored(b))
  BY <1>2, OtherSteps, StepNames
<1>4. CASE UNCHANGED <<checkpoint, latest>>
  BY <1>1, <1>2, <1>3, <1>4, StepMoves
<1>5. CASE Publishable(b) /\ Publish153(b)
  BY <1>1, <1>2, <1>5, PublishMoves
<1> QED
  BY <1>2, <1>4, <1>5

\* The steps of a process that only decide where it goes on to.
LEMMA DecideInv ==
  ASSUME CheckpointInv, NEW b \in Builders,
         \/ BeatFails(b) \/ ResolveObject(b) \/ Recover(b) \/ HandleError(b)
         \/ Inspect(b) \/ Verify(b) \/ BuilderDies(b)
  PROVE  CheckpointInv'
<1>1. ~Doing(b, "idle") /\ UNCHANGED <<checkpoint, transfer, latest>> /\ (Break \/ UNCHANGED breaks)
  BY DEF BeatFails, ResolveObject, Recover, HandleError, Inspect, Verify, BuilderDies, Doing
<1>2. \A step \in {"idle", "retry", "http", "fail", "ambiguous"} :
        step \in BuilderSteps /\ Allowed(b, step, Stored(b))
  BY OtherSteps, StepNames
<1>3. CASE \E step \in {"idle", "retry", "http", "fail", "ambiguous"} : ToStep(b, step)
  BY <1>1, <1>2, <1>3, StepMoves
<1>4. CASE ResolveObject(b) /\ \E step \in {"publish", "drop"} : ToStep(b, step)
  <2>1. builder[b].step \in FileSteps
    BY <1>4 DEF ResolveObject, Doing, FileSteps
  <2>2. \A step \in {"publish", "drop"} : step \in BuilderSteps /\ Allowed(b, step, Stored(b))
    BY <2>1, LaterSteps DEF BuilderSteps, BeforeWrite
  <2> QED
    BY <1>1, <1>4, <2>2, StepMoves
<1>5. CASE Inspect(b) /\ \E step \in {"verify", "adopt", "unreserve"} : ToStep(b, step)
  <2>1. builder[b].step \in FileSteps /\ Stored(b) \in Transfer
    BY <1>1, <1>5, AtWorkOn DEF Inspect, Doing, FileSteps
  <2>2. \A step \in {"adopt", "unreserve"} : step \in BuilderSteps /\ Allowed(b, step, Stored(b))
    BY <2>1, LaterSteps DEF BuilderSteps, BeforeWrite
  <2>3. CASE ToStep(b, "verify") /\ Stored(b).reservation # "none"
    <3>1. "verify" \in BuilderSteps /\ Allowed(b, "verify", Stored(b))
      BY <2>1, <2>3 DEF BuilderSteps, Allowed, BeforeWrite, FileSteps
    <3> QED
      BY <1>1, <2>3, <3>1, StepMoves
  <2>4. CASE InspectStep(Stored(b)) # "verify"
    <3>1. \E step \in {"adopt", "unreserve", "retry", "ambiguous"} : ToStep(b, step)
      BY <1>5, <2>4 DEF Inspect, InspectStep
    <3> QED
      BY <1>1, <1>2, <2>2, <3>1, StepMoves
  <2>5. CASE InspectStep(Stored(b)) = "verify"
    <3>1. Stored(b).reservation = "reserved"
      BY <2>1, <2>5 DEF InspectStep, Transfer
    <3> QED
      BY <1>5, <2>3, <2>5, <3>1 DEF Inspect
  <2> QED
    BY <2>4, <2>5
<1>6. CASE Verify(b) /\ \E step \in {"finish", "unreserve"} : ToStep(b, step)
  <2>1. builder[b].step = "verify" /\ builder[b].step \in FileSteps
    BY <1>6 DEF Verify, Doing, FileSteps
  <2>2. "unreserve" \in BuilderSteps /\ Allowed(b, "unreserve", Stored(b))
    BY <2>1, LaterSteps DEF BuilderSteps, BeforeWrite
  <2>3. Stored(b).blob => "finish" \in BuilderSteps /\ Allowed(b, "finish", Stored(b))
    BY <1>1, <2>1, AtWorkOn DEF BuilderSteps, Allowed, BeforeWrite, FileSteps, Sound
  <2>4. \/ ToStep(b, "unreserve") \/ (ToStep(b, "finish") /\ Stored(b).blob)
        \/ ToStep(b, "ambiguous")
    BY <1>6 DEF Verify
  <2> QED
    BY <1>1, <1>2, <2>2, <2>3, <2>4, StepMoves
<1>7. \/ \E step \in {"idle", "retry", "http", "fail", "ambiguous"} : ToStep(b, step)
      \/ ResolveObject(b) /\ \E step \in {"publish", "drop"} : ToStep(b, step)
      \/ Verify(b) /\ \E step \in {"finish", "unreserve"} : ToStep(b, step)
      \/ Inspect(b)
  BY DEF BeatFails, ResolveObject, Recover, HandleError, Verify, BuilderDies
<1>8. Inspect(b) => \/ \E step \in {"retry", "ambiguous"} : ToStep(b, step)
                    \/ \E step \in {"verify", "adopt", "unreserve"} : ToStep(b, step)
  <2> SUFFICES ASSUME Inspect(b)
               PROVE  \/ \E step \in {"retry", "ambiguous"} : ToStep(b, step)
                      \/ \E step \in {"verify", "adopt", "unreserve"} : ToStep(b, step)
    OBVIOUS
  <2>1. InspectStep(Stored(b)) \in {"retry", "ambiguous", "verify", "adopt", "unreserve"}
    BY DEF InspectStep
  <2> QED
    BY <2>1 DEF Inspect
<1> QED
  BY <1>3, <1>4, <1>5, <1>6, <1>7, <1>8

\* A step that changes nothing but where the process is.
LEMMA OnlyGoesOn ==
  ASSUME CheckpointInv, NEW b \in Builders, ~Doing(b, "idle"),
         NEW step \in {"idle", "retry", "http"}, ToStep(b, step),
         UNCHANGED <<checkpoint, transfer, latest>>, Break \/ UNCHANGED breaks
  PROVE  CheckpointInv'
<1>1. step \in BuilderSteps /\ Allowed(b, step, Stored(b))
  BY OtherSteps, StepNames
<1> QED
  BY <1>1, StepMoves

LEMMA ReserveInv ==
  ASSUME CheckpointInv, NEW b \in Builders, Reserve(b)
  PROVE  CheckpointInv'
<1>1. /\ ~Doing(b, "idle") /\ UNCHANGED <<checkpoint, latest>> /\ builder[b].step = "reserve"
      /\ builder[b].step \in BeforeWrite /\ builder[b].step \in FileSteps
  BY DEF Reserve, Doing, BeforeWrite, FileSteps
<1>2. PICK step \in {"track", "http"} :
        /\ ToStep(b, step) /\ (Break \/ UNCHANGED breaks)
        /\ \/ UNCHANGED transfer /\ step = "http"
           \/ transfer' = [transfer EXCEPT ![File(b)].reservation = "reserved"]
  BY DEF Reserve, Rpc
<1>3. CASE UNCHANGED transfer /\ step = "http"
  BY <1>1, <1>2, <1>3, OnlyGoesOn
<1>4. CASE transfer' = [transfer EXCEPT ![File(b)].reservation = "reserved"]
  <2> DEFINE new == [Stored(b) EXCEPT !.reservation = "reserved"]
  <2>1. /\ Stored(b) \in Transfer /\ Whole(Stored(b)) /\ File(b) \in Files
        /\ ~Stored(b).blob /\ Stored(b).reservation = "none"
    BY <1>1, AtWorkOn DEF Sound
  <2>2. transfer' = [transfer EXCEPT ![File(b)] = new]
    BY <1>4, <2>1 DEF Stored, CheckpointInv, Typed, Transfer
  <2>3. /\ new \in Transfer /\ new.reservation = "reserved"
        /\ new.object = Stored(b).object /\ new.blob = Stored(b).blob
    BY <2>1 DEF Transfer
  <2> HIDE DEF new
  <2>4. Advances(b, Stored(b), new)
    BY <1>1, <2>1, <2>3 DEF Advances, Whole
  <2>5. step \in BuilderSteps /\ Allowed(b, step, new)
    BY <1>1, <2>1, <2>3 DEF Allowed, BuilderSteps
  <2> QED
    BY <1>1, <1>2, <2>2, <2>4, <2>5, FileMoves
<1> QED
  BY <1>2, <1>3, <1>4

\* A reservation that is given back, by either side.
LEMMA ReleaseInv ==
  ASSUME CheckpointInv, NEW b \in Builders, GiveBack(b) \/ Unreserve(b)
  PROVE  CheckpointInv'
<1>1. /\ ~Doing(b, "idle") /\ UNCHANGED <<checkpoint, latest>> /\ builder[b].step \in FileSteps
  BY DEF GiveBack, Unreserve, Doing, FileSteps
<1>2. PICK step \in {"idle", "retry", "http"} :
        /\ ToStep(b, step) /\ (Break \/ UNCHANGED breaks)
        /\ \/ UNCHANGED transfer
           \/ /\ Stored(b).reservation = "reserved"
              /\ transfer' = [transfer EXCEPT ![File(b)].reservation = "released"]
  BY DEF GiveBack, Unreserve, Rpc
<1>3. CASE UNCHANGED transfer
  BY <1>1, <1>2, <1>3, OnlyGoesOn
<1>4. CASE /\ Stored(b).reservation = "reserved"
           /\ transfer' = [transfer EXCEPT ![File(b)].reservation = "released"]
  <2> DEFINE new == [Stored(b) EXCEPT !.reservation = "released"]
  <2>1. Stored(b) \in Transfer /\ Whole(Stored(b)) /\ File(b) \in Files
    BY <1>1, AtWorkOn
  <2>2. transfer' = [transfer EXCEPT ![File(b)] = new]
    BY <1>4, <2>1 DEF Stored, CheckpointInv, Typed, Transfer
  <2>3. /\ new \in Transfer /\ new.reservation = "released"
        /\ new.object = Stored(b).object /\ new.blob = Stored(b).blob
    BY <2>1 DEF Transfer
  <2> HIDE DEF new
  <2>4. Advances(b, Stored(b), new)
    BY <1>4, <2>1, <2>3 DEF Advances, Whole
  <2>5. step \in BuilderSteps /\ Allowed(b, step, new)
    BY <1>2, OtherSteps, StepNames
  <2> QED
    BY <1>1, <1>2, <1>4, <2>2, <2>4, <2>5, FileMoves
<1> QED
  BY <1>2, <1>3, <1>4

LEMMA WriteInv ==
  ASSUME CheckpointInv, NEW b \in Builders, Write(b)
  PROVE  CheckpointInv'
<1>1. /\ ~Doing(b, "idle") /\ UNCHANGED <<checkpoint, latest>> /\ builder[b].step = "write"
      /\ builder[b].step \in BeforeWrite /\ builder[b].step \in FileSteps
  BY DEF Write, Doing, BeforeWrite, FileSteps
<1>2. /\ Break \/ UNCHANGED breaks
      /\ \/ UNCHANGED transfer /\ ToStep(b, "http")
         \/ \E blob \in BOOLEAN, step \in {"commit", "discard", "http"} :
              /\ ToStep(b, step) /\ (step = "commit" => blob)
              /\ Stored(b).reservation = "reserved"
              /\ transfer' = [transfer EXCEPT ![File(b)].private = TRUE, ![File(b)].blob = blob]
  BY DEF Write
<1>3. CASE UNCHANGED transfer /\ ToStep(b, "http")
  BY <1>1, <1>2, <1>3, OnlyGoesOn
<1>4. ASSUME NEW blob \in BOOLEAN, NEW step \in {"commit", "discard", "http"},
             ToStep(b, step), step = "commit" => blob, Stored(b).reservation = "reserved",
             transfer' = [transfer EXCEPT ![File(b)].private = TRUE, ![File(b)].blob = blob]
      PROVE  CheckpointInv'
  <2> DEFINE new == [Stored(b) EXCEPT !.private = TRUE, !.blob = blob]
  <2>1. Stored(b) \in Transfer /\ Whole(Stored(b)) /\ File(b) \in Files /\ ~Stored(b).blob
    BY <1>1, AtWorkOn DEF Sound
  <2>2. transfer' = [transfer EXCEPT ![File(b)] = new]
    BY <1>4, <2>1 DEF Stored, CheckpointInv, Typed, Transfer
  <2>3. /\ new \in Transfer /\ new.reservation = Stored(b).reservation
        /\ new.object = Stored(b).object /\ new.blob = blob
    BY <2>1 DEF Transfer
  <2> HIDE DEF new
  <2>4. Advances(b, Stored(b), new)
    BY <1>1, <1>4, <2>1, <2>3 DEF Advances, Whole
  <2>5. step \in BuilderSteps /\ Allowed(b, step, new)
    BY <1>1, <1>4, <2>3 DEF Allowed, BuilderSteps, BeforeWrite
  <2> QED
    BY <1>1, <1>2, <1>4, <2>2, <2>4, <2>5, FileMoves
<1> QED
  BY <1>2, <1>3, <1>4

\* An object that is committed, by either side.
LEMMA CommitInv ==
  ASSUME CheckpointInv, NEW b \in Builders, Commit(b) \/ FinishObject(b)
  PROVE  CheckpointInv'
<1>1. /\ ~Doing(b, "idle") /\ UNCHANGED <<checkpoint, latest>>
      /\ builder[b].step \in {"commit", "finish"} /\ builder[b].step \in FileSteps
  BY DEF Commit, FinishObject, Doing, FileSteps
<1>2. PICK step \in {"attach", "adopt", "http", "idle"} :
        /\ ToStep(b, step) /\ (Break \/ UNCHANGED breaks)
        /\ \/ UNCHANGED transfer
           \/ Stored(b).reservation = "reserved" /\ Accounted(File(b))
  BY DEF Commit, FinishObject, Rpc
<1>3. step \in BuilderSteps /\ \A file : Allowed(b, step, file)
  BY <1>1, <1>2, LaterSteps DEF BuilderSteps, BeforeWrite
<1>4. CASE UNCHANGED transfer
  BY <1>1, <1>2, <1>3, <1>4, StepMoves
<1>5. CASE Stored(b).reservation = "reserved" /\ Accounted(File(b))
  <2> DEFINE new == [Stored(b) EXCEPT !.reservation = "committed", !.object = "active"]
  <2>1. Stored(b) \in Transfer /\ Whole(Stored(b)) /\ File(b) \in Files /\ Stored(b).blob
    BY <1>1, <1>5, AtWorkOn DEF Sound, Transfer
  <2>2. transfer' = [transfer EXCEPT ![File(b)] = new]
    BY <1>5, <2>1 DEF Accounted, Stored, CheckpointInv, Typed, Transfer
  <2>3. /\ new \in Transfer /\ new.reservation = "committed"
        /\ new.object = "active" /\ new.blob = Stored(b).blob
    BY <2>1 DEF Transfer
  <2> HIDE DEF new
  <2>4. Advances(b, Stored(b), new)
    BY <1>5, <2>1, <2>3 DEF Advances, Whole
  <2> QED
    BY <1>1, <1>2, <1>3, <2>2, <2>4, FileMoves
<1> QED
  BY <1>2, <1>4, <1>5

LEMMA DropInv ==
  ASSUME CheckpointInv, NEW b \in Builders, Drop(b)
  PROVE  CheckpointInv'
<1>1. /\ ~Doing(b, "idle") /\ UNCHANGED <<checkpoint, latest>> /\ ToStep(b, "http")
      /\ builder[b].step \in FileSteps /\ (Break \/ UNCHANGED breaks)
  BY DEF Drop, Doing, FileSteps
<1>2. CASE UNCHANGED transfer
  BY <1>1, <1>2, OnlyGoesOn
<1>3. ASSUME Droppable(b), NEW erased \in BOOLEAN,
             transfer' = [transfer EXCEPT ![File(b)].object = "deleted",
                                          ![File(b)].blob = @ /\ ~erased]
      PROVE  CheckpointInv'
  <2> DEFINE blob == Stored(b).blob /\ ~erased
             new == [Stored(b) EXCEPT !.object = "deleted", !.blob = blob]
  <2>1. /\ Stored(b) \in Transfer /\ Whole(Stored(b)) /\ File(b) \in Files
        /\ Stored(b).object = "active"
    BY <1>1, <1>3, AtWorkOn DEF Droppable
  <2>2. transfer' = [transfer EXCEPT ![File(b)] = new]
    BY <1>3, <2>1 DEF Stored, CheckpointInv, Typed, Transfer
  <2>3. blob \in BOOLEAN
    OBVIOUS
  <2>4. /\ new \in Transfer /\ new.reservation = "committed"
        /\ new.object = "deleted" /\ new.blob = blob
    BY <2>1, <2>3 DEF Transfer, Whole
  <2>5. new.blob => Stored(b).blob
    BY <2>4
  <2> HIDE DEF new, blob
  <2>6. Advances(b, Stored(b), new)
    BY <1>3, <2>1, <2>4, <2>5 DEF Advances, Whole
  <2>7. "http" \in BuilderSteps /\ Allowed(b, "http", new)
    BY OtherSteps, StepNames
  <2> QED
    BY <1>1, <2>2, <2>6, <2>7, FileMoves
<1> QED
  BY <1>2, <1>3 DEF Drop

----------------------------------------------------------------------------
(* The theorems.                                                           *)

LEMMA NextInv == CheckpointInv /\ [CheckpointNext]_checkpointVars => CheckpointInv'
<1> SUFFICES ASSUME CheckpointInv, [CheckpointNext]_checkpointVars PROVE CheckpointInv'
  OBVIOUS
<1>1. ASSUME NEW c \in Revisions, RequestCheckpoint(c) \/ CheckpointLeaseEnds(c)
      PROVE  CheckpointInv'
  BY <1>1, RequestInv, LeaseEndsInv
<1>2. ASSUME NEW b \in Builders, NEW c \in Revisions, ClaimCheckpoint(b, c) \/ ClaimExpired(b, c)
      PROVE  CheckpointInv'
  BY <1>2, ClaimInv, ClaimExpiredInv
<1>3. ASSUME NEW b \in Builders, Materialize(b)
      PROVE  CheckpointInv'
  BY <1>3, PrepareInv, DecideInv, ReserveInv, TrackInv, ReleaseInv, WriteInv, CommitInv, AttachInv,
     DropInv, PublishInv, SettleInv DEF Materialize
<1>4. ASSUME NEW b \in Builders, ReconcileExpiredCheckpoint(b)
      PROVE  CheckpointInv'
  BY <1>4, DecideInv, CommitInv, AttachInv, ReleaseInv, PublishInv DEF ReconcileExpiredCheckpoint
<1>5. ASSUME NEW b \in Builders, BuilderDies(b)
      PROVE  CheckpointInv'
  BY <1>5, DecideInv
<1>6. CASE UNCHANGED checkpointVars
  BY <1>6 DEF checkpointVars, CheckpointInv, Typed, Untouched, Alone, Kept, LatestIsNewest,
              Stored, RowOf, File, Target
<1> QED
  BY <1>1, <1>2, <1>3, <1>4, <1>5, <1>6 DEF CheckpointNext

\* The invariant holds in every state.
THEOREM CheckpointInvariant == CheckpointSpec => []CheckpointInv
BY InitInv, NextInv, PTL DEF CheckpointSpec

\* Every variable keeps its type, and a row is leased exactly while it is materializing
\* (data_dataset_checkpoints_lease_check153).
THEOREM CheckpointTypeCorrect == CheckpointSpec => []CheckpointTypeOK
<1>1. CheckpointInv => CheckpointTypeOK
  BY DEF CheckpointInv, CheckpointTypeOK, Typed, Row, Transfer, Process, Leased
<1> QED
  BY <1>1, CheckpointInvariant, PTL

\* The object of a published checkpoint is neither released nor erased, however many
\* attempts and reconciliations of the same row go on (protect_published_dataset_storage154).
THEOREM PublishedStays == CheckpointSpec => []PublishedObjectKept
<1>1. CheckpointInv => PublishedObjectKept
  <2> SUFFICES ASSUME CheckpointInv, NEW c \in Revisions, checkpoint[c].status = "ready"
               PROVE  LET file == transfer[<<c, checkpoint[c].object>>]
                      IN  file.object = "active" /\ file.blob
    BY DEF PublishedObjectKept
  <2>1. checkpoint[c].object # 0 /\ transfer[<<c, checkpoint[c].object>>].object = "active"
    BY DEF CheckpointInv, Kept
  <2>2. <<c, checkpoint[c].object>> \in Files
    BY <2>1 DEF CheckpointInv, Typed, Row, Files, Attempts
  <2> QED
    BY <2>1, <2>2 DEF CheckpointInv, Whole
<1> QED
  BY <1>1, CheckpointInvariant, PTL

\* The resource points at the newest published revision, in whatever order the processes
\* publish (publish_dataset_checkpoint153).
THEOREM NewestPublished == CheckpointSpec => []LatestIsNewest
<1>1. CheckpointInv => LatestIsNewest
  BY DEF CheckpointInv
<1> QED
  BY <1>1, CheckpointInvariant, PTL

----------------------------------------------------------------------------
(* Attempts and processes come to an end.                                  *)

\* What a write does to a row: a request, a claim that counts an attempt, or a write to a
\* row that is with a process, which goes back to the queue only with an attempt left.
RowWrite(old, new) ==
  \/ new = old
  \/ old.status = "none" /\ new.status = "pending" /\ new.attempts = old.attempts
  \/ /\ old.status = "pending" /\ new.status = "materializing"
     /\ new.attempts = old.attempts + 1 /\ new.attempts <= MaxMaterializations
  \/ /\ old.status = "materializing" /\ new.status # "none" /\ new.attempts = old.attempts
     /\ new.status = "pending" => new.attempts < MaxMaterializations

\* request, claim, publish and settle of migration 153: a checkpoint that is ready, failed or
\* ambiguous is never written again, by no late attempt and no reconciliation, and one
\* that is not has begun at most max_attempts attempts.
OutcomesStay == [][\A c \in Revisions : RowWrite(checkpoint[c], checkpoint'[c])]_checkpointVars

\* The most steps that a process still takes for its row.
StepsLeft(step) ==
  CASE step = "idle" -> 0
    [] step \in {"retry", "fail", "ambiguous", "republish"} -> 1
    [] step \in {"http", "limit", "unreserve", "adopt"} -> 2
    [] step \in {"recover", "drop", "untrack", "discard", "finish"} -> 3
    [] step \in {"publish", "verify"} -> 4
    [] step \in {"resolve", "inspect"} -> 5
    [] step = "attach" -> 6
    [] step = "commit" -> 7
    [] step = "write" -> 8
    [] step = "track" -> 9
    [] step = "reserve" -> 10
    [] step = "prepare" -> 11

\* materialize_claimed_checkpoint and reconcile_expired_checkpoints: a process that has a row
\* leaves it, or goes on nearer to leaving it, whatever fails and whatever others do.
Nearer(old, new) ==
  \/ new = old \/ new = IdleBuilder
  \/ /\ new.revision = old.revision /\ new.attempt = old.attempt
     /\ StepsLeft(new.step) < StepsLeft(old.step)

BuildersEnd ==
  [][\A b \in Builders : ~Doing(b, "idle") => Nearer(builder[b], builder'[b])]_checkpointVars

\* Rows that only a process with the lease writes, and that stay with it.
LEMMA HeldWrite ==
  ASSUME CheckpointInv, NEW c \in Revisions, checkpoint[c].status = "materializing", NEW new \in Row,
         checkpoint' = [checkpoint EXCEPT ![c] = new], new.attempts = checkpoint[c].attempts,
         new.status # "none", new.status = "pending" => new.attempts < MaxMaterializations
  PROVE  \A e \in Revisions : RowWrite(checkpoint[e], checkpoint'[e])
BY DEF CheckpointInv, Typed, RowWrite

LEMMA WriteOne ==
  ASSUME CheckpointInv, NEW b \in Builders, ~Doing(b, "idle"), HasLease(b),
         \/ checkpoint' = [checkpoint EXCEPT ![Target(b)].prepared = TRUE]
         \/ checkpoint' = [checkpoint EXCEPT ![Target(b)].reservation = builder[b].attempt]
         \/ checkpoint' = [checkpoint EXCEPT ![Target(b)].object = builder[b].attempt]
  PROVE  \A e \in Revisions : RowWrite(checkpoint[e], checkpoint'[e])
<1> DEFINE c == Target(b)
           n == builder[b].attempt
<1>1. /\ c \in Revisions /\ n \in 0 .. MaxMaterializations /\ checkpoint[c].status = "materializing"
      /\ checkpoint \in [Revisions -> Row]
  BY AtWorkOn DEF HasLease, RowOf, CheckpointInv, Typed
<1> HIDE DEF c, n
<1>2. PICK new \in {[checkpoint[c] EXCEPT !.prepared = TRUE], [checkpoint[c] EXCEPT !.reservation = n],
                    [checkpoint[c] EXCEPT !.object = n]} :
        checkpoint' = [checkpoint EXCEPT ![c] = new]
  BY <1>1 DEF c, n
<1>3. new \in Row /\ new.attempts = checkpoint[c].attempts /\ new.status = "materializing"
  BY <1>1 DEF Row
<1> QED
  BY <1>1, <1>2, <1>3, HeldWrite

LEMMA PublishWrites ==
  ASSUME CheckpointInv, NEW b \in Builders, ~Doing(b, "idle"), Publishable(b), Publish153(b)
  PROVE  \A e \in Revisions : RowWrite(checkpoint[e], checkpoint'[e])
<1>1. CASE RowOf(b).status = "ready"
  BY <1>1 DEF Publish153, RowWrite
<1>2. CASE RowOf(b).status # "ready"
  <2> DEFINE new == [RowOf(b) EXCEPT !.status = "ready", !.holder = NoBuilder, !.expired = FALSE]
  <2>1. Target(b) \in Revisions /\ RowOf(b) \in Row /\ RowOf(b).status = "materializing"
    BY <1>2, AtWorkOn DEF Publishable, HasLeaseInTime, HasLease
  <2>2. new \in Row /\ new.attempts = RowOf(b).attempts /\ new.status = "ready"
    BY <2>1 DEF Row
  <2>3. checkpoint' = [checkpoint EXCEPT ![Target(b)] = new]
    BY <1>2, <2>1 DEF Publish153, RowOf, CheckpointInv, Typed
  <2> HIDE DEF new
  <2> QED
    BY <2>1, <2>2, <2>3, HeldWrite DEF RowOf
<1> QED
  BY <1>1, <1>2

LEMMA SettleWrites ==
  ASSUME CheckpointInv, NEW b \in Builders, SettleCheckpoint(b)
  PROVE  \A e \in Revisions : RowWrite(checkpoint[e], checkpoint'[e])
<1>1. ~Doing(b, "idle")
  BY DEF SettleCheckpoint, Doing
<1>2. CASE UNCHANGED checkpoint
  BY <1>2 DEF RowWrite
<1>3. CASE /\ HasLease(b)
           /\ checkpoint' = [checkpoint EXCEPT ![Target(b)] = SettledAs(@, builder[b].step)]
  <2> DEFINE new == SettledAs(RowOf(b), builder[b].step)
  <2>1. Target(b) \in Revisions /\ RowOf(b) \in Row /\ RowOf(b).status = "materializing"
    BY <1>1, <1>3, AtWorkOn DEF HasLease
  <2>2. /\ new \in Row /\ new.attempts = RowOf(b).attempts /\ new.status # "none"
        /\ new.status = "pending" => new.attempts < MaxMaterializations
    BY <2>1 DEF SettledAs, Row
  <2>3. checkpoint' = [checkpoint EXCEPT ![Target(b)] = new]
    BY <1>3, <2>1 DEF RowOf, CheckpointInv, Typed
  <2> HIDE DEF new
  <2> QED
    BY <2>1, <2>2, <2>3, HeldWrite DEF RowOf
<1> QED
  BY <1>2, <1>3 DEF SettleCheckpoint

LEMMA RowsWritten ==
  ASSUME CheckpointInv, [CheckpointNext]_checkpointVars
  PROVE  \A e \in Revisions : RowWrite(checkpoint[e], checkpoint'[e])
<1> DEFINE Written == \A e \in Revisions : RowWrite(checkpoint[e], checkpoint'[e])
<1>0. checkpoint \in [Revisions -> Row]
  BY DEF CheckpointInv, Typed
<1>1. ASSUME UNCHANGED checkpoint PROVE Written
  BY <1>1 DEF RowWrite
<1>2. ASSUME NEW c \in Revisions, RequestCheckpoint(c) PROVE Written
  BY <1>0, <1>2 DEF RequestCheckpoint, RowWrite, Row
<1>3. ASSUME NEW c \in Revisions, CheckpointLeaseEnds(c) PROVE Written
  <2>1. [checkpoint[c] EXCEPT !.expired = TRUE] \in Row
    BY <1>0 DEF Row
  <2> QED
    BY <1>0, <1>3, <2>1, HeldWrite DEF CheckpointLeaseEnds, Row
<1>4. ASSUME NEW b \in Builders, NEW c \in Revisions, ClaimCheckpoint(b, c) PROVE Written
  <2> DEFINE new == [checkpoint[c] EXCEPT !.status = "materializing", !.holder = b, !.expired = FALSE,
                                          !.attempts = checkpoint[c].attempts + 1]
  <2>1. checkpoint[c].attempts + 1 \in Attempts /\ checkpoint[c].status = "pending"
        /\ checkpoint' = [checkpoint EXCEPT ![c] = new]
    BY <1>0, <1>4 DEF ClaimCheckpoint
  <2>2. new.status = "materializing" /\ new.attempts = checkpoint[c].attempts + 1
    BY <1>0 DEF Row
  <2> HIDE DEF new
  <2> QED
    BY <1>0, <2>1, <2>2 DEF RowWrite, Attempts
<1>5. ASSUME NEW b \in Builders, NEW c \in Revisions, ClaimExpired(b, c) PROVE Written
  <2> DEFINE new == [checkpoint[c] EXCEPT !.holder = b, !.expired = FALSE]
  <2>1. new \in Row /\ new.status = checkpoint[c].status /\ new.attempts = checkpoint[c].attempts
    BY <1>0 DEF Row
  <2>2. checkpoint' = [checkpoint EXCEPT ![c] = new] /\ checkpoint[c].status = "materializing"
    BY <1>0, <1>5 DEF ClaimExpired
  <2> HIDE DEF new
  <2> QED
    BY <2>1, <2>2, HeldWrite
<1>6. ASSUME NEW b \in Builders, Prepare(b) \/ Track(b) PROVE Written
  BY <1>1, <1>6, WriteOne DEF Prepare, Track, Rpc, HasLeaseInTime, Doing
<1>7. ASSUME NEW b \in Builders, Attach(b) \/ Adopt153(b) PROVE Written
  BY <1>1, <1>7, WriteOne DEF Attach, Adopt153, Attached, Attachable, Rpc, HasLeaseInTime, Doing
<1>8. ASSUME NEW b \in Builders, Publish(b) \/ Republish(b) PROVE Written
  BY <1>1, <1>8, PublishWrites DEF Publish, Republish, Rpc, Doing
<1>9. ASSUME NEW b \in Builders,
             \/ BeatFails(b) \/ Reserve(b) \/ GiveBack(b) \/ Write(b) \/ Commit(b) \/ ResolveObject(b)
             \/ Drop(b) \/ Recover(b) \/ HandleError(b) \/ Inspect(b) \/ Verify(b) \/ FinishObject(b)
             \/ Unreserve(b) \/ BuilderDies(b)
      PROVE  UNCHANGED checkpoint
  BY <1>9 DEF BeatFails, Reserve, GiveBack, Write, Commit, ResolveObject, Drop, Recover, HandleError,
              Inspect, Verify, FinishObject, Unreserve, BuilderDies
<1> HIDE DEF Written
<1>10. ASSUME NEW b \in Builders, Materialize(b) \/ ReconcileExpiredCheckpoint(b) \/ BuilderDies(b)
       PROVE  Written
  BY <1>1, <1>6, <1>7, <1>8, <1>9, <1>10, SettleWrites DEF Written, Materialize, ReconcileExpiredCheckpoint
<1> QED
  BY <1>1, <1>2, <1>3, <1>4, <1>5, <1>10 DEF Written, CheckpointNext, checkpointVars

\* What has become of a checkpoint stays so, and its attempts are bounded and each is counted.
THEOREM OutcomesFinal == CheckpointSpec => OutcomesStay
<1>1. CheckpointInv /\ [CheckpointNext]_checkpointVars
        => [\A c \in Revisions : RowWrite(checkpoint[c], checkpoint'[c])]_checkpointVars
  BY RowsWritten
<1> QED
  BY <1>1, CheckpointInvariant, PTL DEF CheckpointSpec, OutcomesStay

LEMMA LowerStep ==
  ASSUME CheckpointInv, NEW b \in Builders, NEW step \in BuilderSteps, ToStep(b, step),
         StepsLeft(step) < StepsLeft(builder[b].step)
  PROVE  \A d \in Builders : Nearer(builder[d], builder'[d])
<1>1. builder \in [Builders -> Process]
  BY DEF CheckpointInv, Typed
<1>2. CASE step = "idle"
  BY <1>1, <1>2 DEF ToStep, Nearer
<1>3. CASE step # "idle"
  <2>1. builder' = [builder EXCEPT ![b] = [builder[b] EXCEPT !.step = step]]
    BY <1>3 DEF ToStep
  <2>2. /\ builder'[b].revision = builder[b].revision /\ builder'[b].attempt = builder[b].attempt
        /\ builder'[b].step = step /\ \A d \in Builders : d # b => builder'[d] = builder[d]
    BY <1>1, <2>1 DEF Process
  <2> QED
    BY <2>2 DEF Nearer
<1> QED
  BY <1>2, <1>3

LEMMA StepsOf ==
  /\ StepsLeft("idle") = 0
  /\ \A step \in {"retry", "fail", "ambiguous", "republish"} : StepsLeft(step) = 1
  /\ \A step \in {"http", "limit", "unreserve", "adopt"} : StepsLeft(step) = 2
  /\ \A step \in {"recover", "drop", "untrack", "discard", "finish"} : StepsLeft(step) = 3
  /\ \A step \in {"publish", "verify"} : StepsLeft(step) = 4
  /\ \A step \in {"resolve", "inspect"} : StepsLeft(step) = 5
  /\ StepsLeft("attach") = 6 /\ StepsLeft("commit") = 7 /\ StepsLeft("write") = 8
  /\ StepsLeft("track") = 9 /\ StepsLeft("reserve") = 10 /\ StepsLeft("prepare") = 11
BY DEF StepsLeft

\* Where each step leads to.
LEMMA MaterializeLowers ==
  ASSUME NEW b \in Builders, Materialize(b)
  PROVE  \E step \in BuilderSteps : ToStep(b, step) /\ StepsLeft(step) < StepsLeft(builder[b].step)
<1> DEFINE Lower == \E step \in BuilderSteps :
                      ToStep(b, step) /\ StepsLeft(step) < StepsLeft(builder[b].step)
<1>1. CASE Prepare(b)
  <2>1. /\ builder[b].step = "prepare"
        /\ \E step \in {"reserve", "retry", "http", "limit"} : ToStep(b, step)
    BY <1>1 DEF Prepare, Rpc, Doing
  <2> QED
    BY <2>1, StepsOf DEF BuilderSteps
<1>2. CASE BeatFails(b)
  BY <1>2, StepsOf DEF BeatFails, BuilderSteps
<1>3. CASE Reserve(b)
  <2>1. builder[b].step = "reserve" /\ \E step \in {"track", "http"} : ToStep(b, step)
    BY <1>3 DEF Reserve, Rpc, Doing
  <2> QED
    BY <2>1, StepsOf DEF BuilderSteps
<1>4. CASE Track(b)
  <2>1. builder[b].step = "track" /\ \E step \in {"write", "untrack"} : ToStep(b, step)
    BY <1>4 DEF Track, Rpc, Doing
  <2> QED
    BY <2>1, StepsOf DEF BuilderSteps
<1>5. CASE GiveBack(b)
  <2>1. builder[b].step \in {"untrack", "discard"} /\ \E step \in {"http", "retry"} : ToStep(b, step)
    BY <1>5 DEF GiveBack, Rpc, Doing
  <2> QED
    BY <2>1, StepsOf DEF BuilderSteps
<1>6. CASE Write(b)
  <2>1. builder[b].step = "write" /\ \E step \in {"commit", "http", "discard"} : ToStep(b, step)
    BY <1>6 DEF Write, Doing
  <2> QED
    BY <2>1, StepsOf DEF BuilderSteps
<1>7. CASE Commit(b)
  <2>1. builder[b].step = "commit" /\ \E step \in {"attach", "http"} : ToStep(b, step)
    BY <1>7 DEF Commit, Rpc, Doing
  <2> QED
    BY <2>1, StepsOf DEF BuilderSteps
<1>8. CASE Attach(b)
  <2>1. builder[b].step = "attach" /\ \E step \in {"publish", "resolve"} : ToStep(b, step)
    BY <1>8 DEF Attach, Rpc, Doing
  <2> QED
    BY <2>1, StepsOf DEF BuilderSteps
<1>9. CASE ResolveObject(b)
  <2>1. builder[b].step = "resolve" /\ \E step \in {"publish", "drop", "http"} : ToStep(b, step)
    BY <1>9 DEF ResolveObject, Doing
  <2> QED
    BY <2>1, StepsOf DEF BuilderSteps
<1>10. CASE Drop(b)
  BY <1>10, StepsOf DEF Drop, Doing, BuilderSteps
<1>11. CASE Publish(b)
  <2>1. builder[b].step = "publish" /\ \E step \in {"idle", "recover"} : ToStep(b, step)
    BY <1>11 DEF Publish, Rpc, Doing
  <2> QED
    BY <2>1, StepsOf DEF BuilderSteps
<1>12. CASE Recover(b)
  <2>1. builder[b].step = "recover" /\ \E step \in {"idle", "http"} : ToStep(b, step)
    BY <1>12 DEF Recover, Doing
  <2> QED
    BY <2>1, StepsOf DEF BuilderSteps
<1>13. CASE HandleError(b)
  <2>1. /\ builder[b].step \in {"http", "limit"}
        /\ \E step \in {"idle", "fail", "retry"} : ToStep(b, step)
    BY <1>13 DEF HandleError
  <2> QED
    BY <2>1, StepsOf DEF BuilderSteps
<1>14. CASE SettleCheckpoint(b)
  BY <1>14, StepsOf DEF SettleCheckpoint, BuilderSteps
<1> HIDE DEF Lower
<1> QED
  BY <1>1, <1>2, <1>3, <1>4, <1>5, <1>6, <1>7, <1>8, <1>9, <1>10, <1>11, <1>12, <1>13, <1>14
     DEF Lower, Materialize

LEMMA ReconcileLowers ==
  ASSUME NEW b \in Builders, ReconcileExpiredCheckpoint(b)
  PROVE  \E step \in BuilderSteps : ToStep(b, step) /\ StepsLeft(step) < StepsLeft(builder[b].step)
<1>1. CASE Inspect(b)
  <2>1. InspectStep(Stored(b)) \in {"verify", "adopt", "ambiguous", "retry", "unreserve"}
    BY DEF InspectStep
  <2>2. builder[b].step = "inspect" /\ ToStep(b, InspectStep(Stored(b)))
    BY <1>1 DEF Inspect, Doing
  <2> QED
    BY <2>1, <2>2, StepsOf DEF BuilderSteps
<1>2. CASE Verify(b)
  <2>1. builder[b].step = "verify" /\ \E step \in {"finish", "unreserve", "ambiguous"} : ToStep(b, step)
    BY <1>2 DEF Verify, Doing
  <2> QED
    BY <2>1, StepsOf DEF BuilderSteps
<1>3. CASE FinishObject(b)
  <2>1. builder[b].step = "finish" /\ \E step \in {"adopt", "idle"} : ToStep(b, step)
    BY <1>3 DEF FinishObject, Doing
  <2> QED
    BY <2>1, StepsOf DEF BuilderSteps
<1>4. CASE Adopt153(b)
  <2>1. builder[b].step = "adopt" /\ \E step \in {"republish", "idle"} : ToStep(b, step)
    BY <1>4 DEF Adopt153, Doing
  <2> QED
    BY <2>1, StepsOf DEF BuilderSteps
<1>5. CASE Unreserve(b)
  <2>1. builder[b].step = "unreserve" /\ \E step \in {"retry", "idle"} : ToStep(b, step)
    BY <1>5 DEF Unreserve, Doing
  <2> QED
    BY <2>1, StepsOf DEF BuilderSteps
<1>6. CASE Republish(b)
  BY <1>6, StepsOf DEF Republish, Doing, BuilderSteps
<1> QED
  BY <1>1, <1>2, <1>3, <1>4, <1>5, <1>6 DEF ReconcileExpiredCheckpoint

LEMMA BuildersNearer ==
  ASSUME CheckpointInv, [CheckpointNext]_checkpointVars
  PROVE  \A b \in Builders : ~Doing(b, "idle") => Nearer(builder[b], builder'[b])
<1>1. ASSUME UNCHANGED builder
      PROVE  \A b \in Builders : Nearer(builder[b], builder'[b])
  BY <1>1 DEF Nearer
<1>2. ASSUME NEW c \in Revisions, RequestCheckpoint(c) \/ CheckpointLeaseEnds(c)
      PROVE  UNCHANGED builder
  BY <1>2 DEF RequestCheckpoint, CheckpointLeaseEnds
<1>3. ASSUME NEW b \in Builders, NEW c \in Revisions, ClaimCheckpoint(b, c) \/ ClaimExpired(b, c)
      PROVE  \A d \in Builders : ~Doing(d, "idle") => Nearer(builder[d], builder'[d])
  <2>1. Doing(b, "idle") /\ \E process : builder' = [builder EXCEPT ![b] = process]
    BY <1>3 DEF ClaimCheckpoint, ClaimExpired
  <2>2. \A d \in Builders : d # b => builder'[d] = builder[d]
    BY <2>1 DEF CheckpointInv, Typed
  <2> QED
    BY <2>1, <2>2 DEF Nearer
<1>4. ASSUME NEW b \in Builders, Materialize(b) \/ ReconcileExpiredCheckpoint(b)
      PROVE  \A d \in Builders : Nearer(builder[d], builder'[d])
  BY <1>4, MaterializeLowers, ReconcileLowers, LowerStep
<1>5. ASSUME NEW b \in Builders, BuilderDies(b)
      PROVE  \A d \in Builders : Nearer(builder[d], builder'[d])
  BY <1>5 DEF BuilderDies, ToStep, Nearer, CheckpointInv, Typed
<1> QED
  BY <1>1, <1>2, <1>3, <1>4, <1>5 DEF CheckpointNext, checkpointVars

\* An attempt and a reconciliation have at most eleven steps each, of which each may fail.
THEOREM EveryAttemptEnds == CheckpointSpec => BuildersEnd
<1>1. CheckpointInv /\ [CheckpointNext]_checkpointVars
        => [\A b \in Builders : ~Doing(b, "idle") => Nearer(builder[b], builder'[b])]_checkpointVars
  BY BuildersNearer
<1> QED
  BY <1>1, CheckpointInvariant, PTL DEF CheckpointSpec, BuildersEnd
=============================================================================
