---------------------------- MODULE NativeBatch ----------------------------
(* One native batch of the gateway's batch orchestrator
   (internal/gateway/batch_orchestrator.go): its creation, and the Get, Cancel
   and Results requests that share the stored record.

   A creation rewrites the input file through a chain of preparers, each of
   which may upload a file of its own; submits the batch; stores the record;
   and, when a step fails, undoes the earlier ones.  A request copies the
   record, calls the provider, edits its copy and writes the whole copy back:
   nothing locks the record in between, so a slow request puts an old copy
   over a newer one.

   The provider is external: any call to it, and any write to the store, may
   fail before or after it took effect.  A client that leaves makes every call
   after it fail, which is one of these cases.                               *)
EXTENDS Naturals, FiniteSets

CONSTANTS Pollers,     \* concurrent requests on the stored batch
          Preparers    \* how many preparers the chain has; file i is preparer i's

ASSUME PreparersAssumption == Preparers \in Nat

VARIABLES upstream,     \* the provider's status of the batch, "none" before it exists
          files,        \* rewritten input files the provider holds
          hints,        \* the adapter holds the batch's per-item endpoints
          record,       \* the stored batch, or NoRecord
          create,       \* the creation: where it is, and what it has rewritten
          call,         \* per request: its operation, place and copy of the record
          mishap        \* an undo step of the creation itself failed, or its answer was lost

batchVars == <<upstream, files, hints, record, create, call, mishap>>

FileIDs == 1..Preparers
NoFile == 0
NoRecord == [status |-> "none", rewritten |-> NoFile, hinted |-> FALSE]

Terminal == {"completed", "cancelled"}
Statuses == {"none", "running", "cancelling"} \cup Terminal

Records == [status : Statuses, rewritten : FileIDs \cup {NoFile},
            hinted : BOOLEAN]

IsTerminalBatchStatus(status) == status \in Terminal

\* The provider's status wins unless its answer carries none.
Merged(copy, status) == IF status = "" THEN copy ELSE [copy EXCEPT !.status = status]

BatchAnswers == {upstream, ""}

Creating == {"idle", "prepare", "supersede", "abandon", "submit", "store", "clear",
             "dropFile", "dropHints", "dropBatch", "ok", "failed"}

BatchTypeOK ==
  /\ upstream \in Statuses
  /\ files \subseteq FileIDs
  /\ hints \in BOOLEAN
  /\ record \in Records
  /\ create \in [at : Creating, stage : 0..Preparers,
                 old : FileIDs \cup {NoFile}, active : FileIDs \cup {NoFile},
                 named : BOOLEAN]
  /\ call \in [Pollers -> [op : {"get", "cancel", "results"},
                            at : {"idle", "call", "pending", "clean", "save"},
                            copy : Records, dirty : BOOLEAN]]
  /\ mishap \in BOOLEAN

AtRest == [op |-> "get", at |-> "idle", copy |-> NoRecord, dirty |-> FALSE]

BatchInit ==
  /\ upstream = "none"
  /\ files = {}
  /\ hints = FALSE
  /\ record = NoRecord
  /\ create = [at |-> "idle", stage |-> 0, old |-> NoFile, active |-> NoFile, named |-> FALSE]
  /\ call = [r \in Pollers |-> AtRest]
  /\ mishap = FALSE

-----------------------------------------------------------------------------
(* Creation. *)

Goes(at) == create' = [create EXCEPT !.at = at]

\* Selection, workflow and budget pass or the request ends with nothing done.
BeginBatch ==
  /\ create.at = "idle"
  /\ \/ Goes("prepare")
     \/ Goes("failed")
  /\ UNCHANGED <<upstream, files, hints, record, call, mishap>>

\* The next preparer leaves the input as it is.
PrepareKeeps ==
  /\ create.at = "prepare" /\ create.stage < Preparers
  /\ create' = [create EXCEPT !.stage = @ + 1]
  /\ UNCHANGED <<upstream, files, hints, record, call, mishap>>

\* It uploads a rewritten file, which replaces the one before.
PrepareUploads ==
  LET file == create.stage + 1 IN
  /\ create.at = "prepare" /\ create.stage < Preparers
  /\ files' = files \cup {file}
  /\ create' = [create EXCEPT !.stage = file, !.active = file, !.old = create.active,
                              !.at = IF create.active = NoFile THEN "prepare" ELSE "supersede"]
  /\ UNCHANGED <<upstream, hints, record, call, mishap>>

\* It fails; an upload whose answer is lost leaves a file nobody can name.
PrepareFails ==
  LET file == create.stage + 1 IN
  /\ create.at = "prepare" /\ create.stage < Preparers
  /\ \/ UNCHANGED <<files, mishap>>
     \/ files' = files \cup {file} /\ mishap' = TRUE
  /\ Goes("abandon")
  /\ UNCHANGED <<upstream, hints, record, call>>

\* A deletion by the creation: failures are logged, and the creation goes on.
Deletes(file) ==
  \/ /\ files' = files \ {file}
     /\ UNCHANGED mishap
  \/ /\ file # NoFile
     /\ files' \in {files, files \ {file}}
     /\ mishap' = TRUE

DropSuperseded ==
  /\ create.at = "supersede"
  /\ Deletes(create.old)
  /\ create' = [create EXCEPT !.at = "prepare", !.old = NoFile]
  /\ UNCHANGED <<upstream, hints, record, call>>

DropAbandoned ==
  /\ create.at = "abandon"
  /\ Deletes(create.active)
  /\ Goes("failed")
  /\ UNCHANGED <<upstream, hints, record, call>>

Prepared ==
  /\ create.at = "prepare" /\ create.stage = Preparers
  /\ Goes("submit")
  /\ UNCHANGED <<upstream, files, hints, record, call, mishap>>

\* The provider accepts the batch, and the adapter remembers its endpoints.
SubmitAccepted ==
  /\ create.at = "submit"
  /\ upstream' = "running"
  /\ hints' = TRUE
  /\ create' = [create EXCEPT !.at = "store", !.named = TRUE]
  /\ UNCHANGED <<files, record, call, mishap>>

\* An error, an empty answer or one without an id; the batch may exist all the
\* same, but the gateway has no name for it.
SubmitRefused ==
  /\ create.at = "submit"
  /\ \/ UNCHANGED <<upstream, mishap>>
     \/ upstream' = "running" /\ mishap' = TRUE
  /\ Goes("dropFile")
  /\ UNCHANGED <<files, hints, record, call>>

NewRecord == [status |-> "running", rewritten |-> create.active, hinted |-> TRUE]

StoreAccepted ==
  /\ create.at = "store"
  /\ record' = NewRecord
  /\ Goes("clear")
  /\ UNCHANGED <<upstream, files, hints, call, mishap>>

\* The store refuses the record, or keeps it and the answer is lost.
StoreRefused ==
  /\ create.at = "store"
  /\ \/ UNCHANGED <<record, mishap>>
     \/ record' = NewRecord /\ mishap' = TRUE
  /\ Goes("dropFile")
  /\ UNCHANGED <<upstream, files, hints, call>>

ClearBatchResultHints ==
  /\ create.at = "clear"
  /\ hints' = FALSE
  /\ Goes("ok")
  /\ UNCHANGED <<upstream, files, record, call, mishap>>

\* rollbackPreparedBatch: the file, then the hints, then the batch itself; the
\* last two only when the provider's id is known.
RollbackFile ==
  /\ create.at = "dropFile"
  /\ Deletes(create.active)
  /\ Goes(IF create.named THEN "dropHints" ELSE "failed")
  /\ UNCHANGED <<upstream, hints, record, call>>

RollbackHints ==
  /\ create.at = "dropHints"
  /\ hints' = FALSE
  /\ Goes("dropBatch")
  /\ UNCHANGED <<upstream, files, record, call, mishap>>

\* What a cancellation makes of the provider's status.
CancelledWith(status) == IF status \in {"running", "cancelling"} THEN {"cancelling", "cancelled"} ELSE {status}

RollbackBatch ==
  /\ create.at = "dropBatch"
  /\ \/ upstream' \in CancelledWith(upstream) /\ UNCHANGED mishap
     \/ upstream' \in {upstream} \cup CancelledWith(upstream) /\ mishap' = TRUE
  /\ Goes("failed")
  /\ UNCHANGED <<files, hints, record, call>>

-----------------------------------------------------------------------------
(* Pollers on the stored batch. *)

Edit(r, edited) == call' = [call EXCEPT ![r] = edited]
Leave(r) == Edit(r, AtRest)

\* Bug: an edited copy is written back at once, file and all.
AfterDirtyFirst(copy, dirty) ==
  IF dirty THEN "save"
  ELSE IF IsTerminalBatchStatus(copy.status) /\ copy.rewritten # NoFile THEN "clean" ELSE "idle"

\* Bug: a batch being cancelled is taken to have ended.
AfterCancelling(copy, dirty) ==
  IF copy.status \in Terminal \cup {"cancelling"} /\ copy.rewritten # NoFile THEN "clean"
  ELSE IF dirty THEN "save" ELSE "idle"

\* Where a request goes with the copy it has: it deletes the rewritten file of a
\* batch the copy calls terminal, then writes the copy back if it changed.
After(copy, dirty) ==
  IF IsTerminalBatchStatus(copy.status) /\ copy.rewritten # NoFile THEN "clean"
  ELSE IF dirty THEN "save" ELSE "idle"

Resume(r, copy, dirty) ==
  LET at == After(copy, dirty) IN
  IF at = "idle" THEN Leave(r)
  ELSE Edit(r, [call[r] EXCEPT !.at = at, !.copy = copy, !.dirty = dirty])

requireStoredBatch(r, op) ==
  /\ call[r].at = "idle"
  /\ record # NoRecord
  /\ Edit(r, [op |-> op, at |-> "call", copy |-> record, dirty |-> FALSE])
  /\ UNCHANGED <<upstream, files, hints, record, create, mishap>>

Calling(r, op) == call[r].at = "call" /\ call[r].op = op

GetAnswered(r) ==
  /\ Calling(r, "get")
  /\ \E status \in BatchAnswers : Resume(r, Merged(call[r].copy, status), TRUE)
  /\ UNCHANGED <<upstream, files, hints, record, create, mishap>>

CancelAnswered(r) ==
  /\ Calling(r, "cancel")
  /\ upstream' \in CancelledWith(upstream)
  /\ \E status \in {upstream', ""} : Resume(r, Merged(call[r].copy, status), TRUE)
  /\ UNCHANGED <<files, hints, record, create, mishap>>

\* The provider's call fails; a cancellation may have taken effect.
CallFails(r) ==
  /\ call[r].at = "call"
  /\ \/ UNCHANGED upstream
     \/ call[r].op = "cancel" /\ upstream' \in CancelledWith(upstream)
  /\ Leave(r)
  /\ UNCHANGED <<files, hints, record, create, mishap>>

\* Results exist once the batch has ended.  Logging their usage (whose entries
\* the usage store keeps once) makes the copy dirty; the copy keeps the status it
\* was read with.
ResultsAnswered(r) ==
  /\ Calling(r, "results")
  /\ IsTerminalBatchStatus(upstream)
  /\ \E logged \in BOOLEAN : Resume(r, call[r].copy, logged)
  /\ UNCHANGED <<upstream, files, hints, record, create, mishap>>

\* A 404 that may mean that the results are still being prepared.
ResultsNotFound(r) ==
  /\ Calling(r, "results")
  /\ ~IsTerminalBatchStatus(upstream)
  /\ Edit(r, [call[r] EXCEPT !.at = "pending"])
  /\ UNCHANGED <<upstream, files, hints, record, create, mishap>>

\* IsNativeBatchResultsPending asks for the batch: a terminal one is no longer
\* pending, and the 404 is the answer.
PendingAnswered(r) ==
  /\ call[r].at = "pending"
  /\ \E status \in BatchAnswers :
       IF IsTerminalBatchStatus(status) THEN Leave(r)
       ELSE Edit(r, [call[r] EXCEPT !.at = "save", !.copy = Merged(@, status), !.dirty = TRUE])
  /\ UNCHANGED <<upstream, files, hints, record, create, mishap>>

PendingFails(r) ==
  /\ call[r].at = "pending"
  /\ Leave(r)
  /\ UNCHANGED <<upstream, files, hints, record, create, mishap>>

\* cleanupStoredBatchRewrittenInputFile: the copy forgets the file once it is deleted.
CleanupDeletes(r) ==
  /\ call[r].at = "clean"
  /\ call[r].copy.rewritten \in files
  /\ files' = files \ {call[r].copy.rewritten}
  /\ Edit(r, [call[r] EXCEPT !.at = "save", !.copy.rewritten = NoFile])
  /\ UNCHANGED <<upstream, hints, record, create, mishap>>

\* Bug: the copy forgets the file although its deletion failed.
CleanupFailsForgets(r) ==
  /\ call[r].at = "clean"
  /\ files' \in {files, files \ {call[r].copy.rewritten}}
  /\ Edit(r, [call[r] EXCEPT !.at = "save", !.copy.rewritten = NoFile])
  /\ UNCHANGED <<upstream, hints, record, create, mishap>>

\* The deletion fails, or it is done and its answer is lost, or the file has gone.
CleanupFails(r) ==
  /\ call[r].at = "clean"
  /\ files' \in {files, files \ {call[r].copy.rewritten}}
  /\ IF call[r].dirty THEN Edit(r, [call[r] EXCEPT !.at = "save"]) ELSE Leave(r)
  /\ UNCHANGED <<upstream, hints, record, create, mishap>>

\* The whole copy replaces the record, or the store fails before or after that.
WriteBack(r) ==
  /\ call[r].at = "save"
  /\ record' \in {record, call[r].copy}
  /\ Leave(r)
  /\ UNCHANGED <<upstream, files, hints, create, mishap>>

-----------------------------------------------------------------------------
\* The provider ends the batch.
ProviderEnds ==
  /\ \/ upstream \in {"running", "cancelling"} /\ upstream' = "completed"
     \/ upstream = "cancelling" /\ upstream' = "cancelled"
  /\ UNCHANGED <<files, hints, record, create, call, mishap>>

CreateStep ==
  \/ BeginBatch \/ PrepareKeeps \/ PrepareUploads \/ PrepareFails
  \/ DropSuperseded \/ DropAbandoned \/ Prepared
  \/ SubmitAccepted \/ SubmitRefused \/ StoreAccepted \/ StoreRefused
  \/ ClearBatchResultHints \/ RollbackFile \/ RollbackHints \/ RollbackBatch

RequestStep(r) ==
  \/ GetAnswered(r) \/ CancelAnswered(r) \/ CallFails(r)
  \/ ResultsAnswered(r) \/ ResultsNotFound(r) \/ PendingAnswered(r) \/ PendingFails(r)
  \/ CleanupDeletes(r) \/ CleanupFails(r) \/ WriteBack(r)

BatchNext ==
  \/ CreateStep
  \/ \E r \in Pollers :
       \/ \E op \in {"get", "cancel", "results"} : requireStoredBatch(r, op)
       \/ RequestStep(r)
  \/ ProviderEnds

BatchSpec == BatchInit /\ [][BatchNext]_batchVars

(* A started request goes on, because each call it makes returns or times out.
   A deletion that is tried again and again is not refused for ever, which is an
   assumption about the provider; that a client polls is not assumed here but
   is the hypothesis of CleanedIfPolled.                                      *)
BatchFairness ==
  /\ WF_batchVars(CreateStep)
  /\ \A r \in Pollers : WF_batchVars(RequestStep(r)) /\ SF_batchVars(CleanupDeletes(r))

BatchLiveSpec == BatchSpec /\ BatchFairness

-----------------------------------------------------------------------------
(* Properties. *)

Stored == create.at \in {"clear", "ok"}

\* No rewritten file is lost track of: while the batch is kept, whatever file the
\* provider still holds is named by the record, whichever old copy was written
\* back last, and a failed creation has left no file, no running batch and no
\* hint; except where an undo call itself failed or an answer was lost.  And
\* the hints are never lost either: from the submission on they are in the
\* adapter until they are stored, and no write-back takes them out.
NothingOrphaned ==
  /\ create.at \in {"store", "clear", "ok"} => hints \/ record.hinted
  /\ ~mishap =>
    /\ Stored => files \subseteq {record.rewritten}
    /\ create.at = "failed" => files = {} /\ upstream \notin {"running"} /\ ~hints

\* The provider reads the rewritten file while it runs the batch: no request,
\* whatever its copy says, deletes the file before the batch has ended.
FileKeptWhileRunning ==
  Stored /\ ~IsTerminalBatchStatus(upstream) /\ create.active # NoFile => create.active \in files

\* Their inductive strengthening: how far the creation is decides what it can have
\* left behind; and every copy of the record, old or new, names the file while it
\* exists and knows an end of the batch only once there is one.
Named == create.at \in {"store", "clear", "ok", "dropHints"} \/ (create.at = "dropFile" /\ create.named)
Unsubmitted == create.at \in {"idle", "prepare", "supersede", "abandon", "submit"}

CreationInv ==
  /\ create.active <= create.stage
  /\ create.at = "idle" => create.active = NoFile
  /\ create.at = "supersede" => create.old < create.active
  /\ Unsubmitted => upstream = "none" /\ ~create.named
  /\ Unsubmitted \/ create.at = "store" => record = NoRecord
  /\ create.at \in {"prepare", "supersede", "submit", "store"} /\ create.active # NoFile => create.active \in files
  /\ create.at \in {"clear", "ok"} => record # NoRecord
  /\ hints => Named
  /\ create.at = "store" => hints /\ create.named
  /\ ~mishap =>
       /\ files \subseteq {create.active} \cup (IF create.at = "supersede" THEN {create.old} ELSE {})
       /\ create.at \in {"dropHints", "dropBatch", "failed"} => files = {}
       /\ create.at = "dropFile" /\ ~create.named => upstream # "running"
       /\ create.at = "failed" => upstream # "running"

GoodCopy(copy) ==
  /\ copy.hinted
  /\ copy.rewritten \in {create.active, NoFile}
  /\ IsTerminalBatchStatus(copy.status) => IsTerminalBatchStatus(upstream)
  /\ create.active \in files => copy.rewritten = create.active

CopiesInv ==
  /\ record # NoRecord => GoodCopy(record)
  /\ \A r \in Pollers : call[r].at # "idle" => record # NoRecord /\ GoodCopy(call[r].copy)
  /\ \A r \in Pollers : call[r].at = "clean" =>
       IsTerminalBatchStatus(call[r].copy.status) /\ call[r].copy.rewritten # NoFile
  /\ FileKeptWhileRunning

BatchInv == BatchTypeOK /\ CreationInv /\ CopiesInv

\* A client that keeps polling a stored batch gets its rewritten file deleted
\* once the batch has ended, whatever other requests write back meanwhile.
CleanedIfPolled ==
  \A r \in Pollers :
    []<><<GetAnswered(r) /\ IsTerminalBatchStatus(call'[r].copy.status)>>_batchVars
      => (Stored /\ ~mishap ~> files = {})

=============================================================================
