----------------------------- MODULE BatchRunner -----------------------------
(***************************************************************************)
(* Phase 2 (ingestion/batch_runner.py): run_once walks the directories of  *)
(* the parked documents and takes each as far as it goes; cron starts a    *)
(* pass now and then, beside the queue of phase 1 and, if one takes long,  *)
(* beside another pass.                                                    *)
(*                                                                         *)
(* A pass works on the record it has loaded and saves it as a whole.  Its  *)
(* steps end where another process, or a crash, may come between two of    *)
(* its effects: a batch created and not recorded, chunks added and the     *)
(* document's row not yet.                                                 *)
(***************************************************************************)
EXTENDS IngestQueue

VARIABLE pass     \* of each: documents to come, the one in hand, its record

vars == <<diskVars, queueVars, pass>>

PassState ==
  DocStates \cup {"idle", "next", "SUBMITTED", "ADD_ROWS", "DOCUMENT_ROW"}

PassIdle ==
  [at |-> "idle", left |-> {}, doc |-> {}, batch |-> 0, source |-> NoPdf,
   read |-> NoContent]

PassTypeOK ==
  \A r \in Runner :
    /\ pass[r].at \in PassState
    /\ pass[r].left \subseteq Doc /\ pass[r].doc \subseteq Doc
    /\ Cardinality(pass[r].doc) <= 1
    /\ pass[r].batch \in 0..Len(batches)
    /\ pass[r].source \in Pdf \cup {NoPdf}
    /\ pass[r].read \in Content \cup {NoContent}

IngestTypeOK == DiskTypeOK /\ QueueTypeOK /\ PassTypeOK

Init ==
  /\ DiskInit /\ QueueInit
  /\ pass = [r \in Runner |-> PassIdle]

-----------------------------------------------------------------------------

(* Runner r is at a state with document d in hand.                         *)
Works(r, at, d) == pass[r].at = at /\ pass[r].doc = {d}

PassTo(r, at) == pass' = [pass EXCEPT ![r].at = at]

Leaves(r) ==
  pass' = [pass EXCEPT ![r] = [PassIdle EXCEPT !.at = "next", !.left = pass[r].left]]

(* The record of the pass, with a new state, is saved.                     *)
Saves(r, d, st) == SaveState(d, st, pass[r].batch, pass[r].source)

Advances(r, d, st) == Saves(r, d, st) /\ PassTo(r, st)

hisSite(r) == site[pass[r].source]

BeginPass(r) ==
  /\ r \in setup.passes
  /\ pass[r].at = "idle"
  /\ IF \A o \in Runner : pass[o].at = "idle" THEN UNCHANGED faults ELSE Fault("overlap")
  /\ pass' = [pass EXCEPT ![r].at = "next", ![r].left = {d \in Doc : dir[d] # NoDir}]
  /\ UNCHANGED <<diskVars, inbox, queue>>

(* iter_states and advance_one: a document without a record is passed      *)
(* over, one that is complete too; one that failed is quarantined.         *)
TakeDocument(r) ==
  /\ pass[r].at = "next"
  /\ \/ \E d \in pass[r].left :
          pass' = [pass EXCEPT
            ![r] = IF dir[d].state \in {"absent", "COMPLETED"}
                   THEN [pass[r] EXCEPT !.left = @ \ {d}]
                   ELSE [pass[r] EXCEPT
                           !.left = @ \ {d}, !.doc = {d}, !.at = dir[d].state,
                           !.batch = dir[d].batch, !.source = dir[d].source]]
     \/ pass[r].left = {} /\ pass' = [pass EXCEPT ![r] = PassIdle]
  /\ UNCHANGED <<diskVars, queueVars>>

BeginSubmit(r, d) ==
  /\ Works(r, "AWAITING_ENRICHMENT", d)
  /\ Advances(r, d, "ENRICH_SUBMIT")
  /\ UNCHANGED <<setup, files, quarantined, batches, index, catalogue, queueVars>>

(* The batch is created ...                                                *)
Submit(r, d) ==
  /\ Works(r, "ENRICH_SUBMIT", d)
  /\ dir[d].prepared # NoPdf
  /\ CreateBatch(dir[d].prepared)
  /\ pass' = [pass EXCEPT ![r].at = "SUBMITTED", ![r].batch = Len(batches')]
  /\ UNCHANGED <<setup, files, dir, quarantined, index, catalogue, queueVars>>

(* ... and its id recorded.                                                *)
RecordBatch(r, d) ==
  /\ Works(r, "SUBMITTED", d)
  /\ Advances(r, d, "ENRICH_POLL")
  /\ UNCHANGED <<setup, files, quarantined, batches, index, catalogue, queueVars>>

(* Faulty: only a completed batch is known to have ended.                  *)
PolledWhenCompleted(outcome) ==
  IF outcome \in {"whole", "unreported"} THEN "ENRICH_MERGE" ELSE "ENRICH_POLL"

(* What _advance_poll makes of the end of a batch.                         *)
Polled(outcome) ==
  IF outcome \in {"whole", "unreported"} THEN "ENRICH_MERGE" ELSE "FAILED"

Poll(r, d) ==
  /\ Works(r, "ENRICH_POLL", d)
  /\ LET id == pass[r].batch
         st == batches[id].status
     IN  IF st = "running"
         THEN Saves(r, d, "ENRICH_POLL") /\ Leaves(r)
         ELSE /\ dir' = [dir EXCEPT ![d].state = Polled(st), ![d].batch = id,
                                    ![d].source = pass[r].source,
                                    ![d].output = IF Polled(st) = "FAILED" THEN @ ELSE id]
              /\ PassTo(r, Polled(st))
  /\ UNCHANGED <<setup, files, quarantined, batches, index, catalogue, queueVars>>

(* Faulty: answers that are errors are not counted.                        *)
MergedUncounted(d) ==
  [of |-> dir[d].prepared, whole |-> batches[dir[d].output].status = "whole"]

(* enrich_batch_merge: each answer must be one of a request of this        *)
(* directory, and each request must have one.                              *)
Merged(d) ==
  LET ended == batches[dir[d].output]
  IN  IF ended.of = dir[d].prepared /\ ended.status = "whole"
      THEN [of |-> ended.of, whole |-> TRUE] ELSE NoContent

Merge(r, d) ==
  /\ Works(r, "ENRICH_MERGE", d)
  /\ dir[d].prepared # NoPdf /\ dir[d].output # 0
  /\ LET m == Merged(d)
         st == IF m = NoContent THEN "FAILED" ELSE "FINALIZE_OUTPUT"
     IN  /\ dir' = [dir EXCEPT ![d].state = st, ![d].batch = pass[r].batch,
                               ![d].source = pass[r].source,
                               ![d].merged = IF m = NoContent THEN @ ELSE m]
         /\ PassTo(r, st)
  /\ UNCHANGED <<setup, files, quarantined, batches, index, catalogue, queueVars>>

(* merged.json is copied to the final path of the document's site.         *)
FinalizeOutput(r, d) ==
  /\ Works(r, "FINALIZE_OUTPUT", d)
  /\ dir[d].merged # NoContent
  /\ files' = [files EXCEPT ![hisSite(r)].final = dir[d].merged]
  /\ Advances(r, d, "INGEST_VECTOR_DB")
  /\ UNCHANGED <<setup, quarantined, batches, index, catalogue, queueVars>>

(* ingest_json reads whatever lies at the final path.                      *)
Ingest(r, d) ==
  /\ Works(r, "INGEST_VECTOR_DB", d)
  /\ files[hisSite(r)].final # NoContent
  /\ \/ Skipped(d) /\ Advances(r, d, "CLEANUP_ARTIFACTS") /\ UNCHANGED faults
     \/ /\ pass' = [pass EXCEPT ![r].at = "ADD_ROWS",
                                 ![r].read = files[hisSite(r)].final]
        /\ Missed(d)
        /\ UNCHANGED dir
  /\ UNCHANGED <<setup, files, quarantined, batches, index, catalogue, inbox, queue>>

PassAddRows(r, d) ==
  /\ Works(r, "ADD_ROWS", d)
  /\ FileChunks(d, pass[r].read)
  /\ PassTo(r, "DOCUMENT_ROW")
  /\ UNCHANGED <<setup, files, dir, quarantined, batches, catalogue, queueVars>>

PassDocumentRow(r, d) ==
  /\ Works(r, "DOCUMENT_ROW", d)
  /\ catalogue' = catalogue \cup {d}
  /\ Advances(r, d, "CLEANUP_ARTIFACTS")
  /\ UNCHANGED <<setup, files, quarantined, batches, index, queueVars>>

Cleanup(r, d) ==
  /\ Works(r, "CLEANUP_ARTIFACTS", d)
  /\ CleanUp(hisSite(r))
  /\ Saves(r, d, "COMPLETED")
  /\ Leaves(r)
  /\ UNCHANGED <<setup, quarantined, batches, index, catalogue, queueVars>>

QuarantineFailed(r, d) ==
  /\ Works(r, "FAILED", d)
  /\ Quarantine(d)
  /\ Leaves(r)
  /\ UNCHANGED <<setup, files, batches, index, catalogue, queueVars>>

(* What a stage reads is not there: it raises, and the record stays.       *)
Lacks(r, d) ==
  CASE pass[r].at = "ENRICH_SUBMIT" -> dir[d].prepared = NoPdf
    [] pass[r].at = "ENRICH_MERGE" -> dir[d].prepared = NoPdf \/ dir[d].output = 0
    [] pass[r].at = "FINALIZE_OUTPUT" -> dir[d].merged = NoContent
    [] pass[r].at = "INGEST_VECTOR_DB" -> files[hisSite(r)].final = NoContent
    [] OTHER -> FALSE

StageRaises(r, d) ==
  /\ pass[r].doc = {d}
  /\ Lacks(r, d)
  /\ Leaves(r)
  /\ UNCHANGED <<diskVars, queueVars>>

(* A call of the provider or of the index raises; run_once goes on with    *)
(* the next document.                                                      *)
CallRaises(r, d) ==
  /\ \E at \in {"ENRICH_SUBMIT", "ENRICH_POLL", "INGEST_VECTOR_DB", "ADD_ROWS",
                "DOCUMENT_ROW"} : Works(r, at, d)
  /\ Leaves(r)
  /\ Fault("error")
  /\ UNCHANGED <<diskVars, inbox, queue>>

PassCrash(r) ==
  /\ pass[r].at # "idle"
  /\ pass' = [pass EXCEPT ![r] = PassIdle]
  /\ Fault("crash")
  /\ UNCHANGED <<diskVars, inbox, queue>>

Advance(r, d) ==
  \/ BeginSubmit(r, d) \/ Submit(r, d) \/ RecordBatch(r, d) \/ Poll(r, d)
  \/ Merge(r, d) \/ FinalizeOutput(r, d)
  \/ Ingest(r, d) \/ PassAddRows(r, d) \/ PassDocumentRow(r, d)
  \/ Cleanup(r, d) \/ QuarantineFailed(r, d) \/ StageRaises(r, d)

PassStep(r) == BeginPass(r) \/ TakeDocument(r) \/ \E d \in Doc : Advance(r, d)

Next ==
  \/ QueueStep /\ UNCHANGED pass
  \/ \E b \in DOMAIN batches : BatchEnds(b) /\ UNCHANGED <<queueVars, pass>>
  \/ \E r \in Runner : PassStep(r)
  \/ \E r \in Runner, d \in Doc : CallRaises(r, d)
  \/ \E r \in Runner : PassCrash(r)

Spec == Init /\ [][Next]_vars

(* Cron keeps starting passes and a pass goes on by itself; the provider   *)
(* ends a batch within its window.  Nobody needs to run the queue.         *)
FairSpec ==
  /\ Spec
  /\ \A r \in Runner : WF_vars(PassStep(r))
  /\ WF_vars(\E b \in DOMAIN batches : BatchEnds(b) /\ UNCHANGED <<queueVars, pass>>)

-----------------------------------------------------------------------------

(* No two files share their artifact paths.                                *)
Apart == \A p, q \in setup.inbox : p # q => site[p] # site[q]

(* No document is both parked, by one of its files, and ingested at once.  *)
OneWay == \A p, q \in setup.inbox : DocOf[p] = DocOf[q] => (p \in Sync <=> q \in Sync)

(* Nothing but passes writes a final file, and none was disturbed.         *)
Undisturbed ==
  Sync \cap setup.inbox = {} /\ \A kind \in FaultKind : faults[kind] = 0

(* The chunks filed under an identity are that document's and, if it was   *)
(* parked, each has its context; they are filed once, unless a pass and    *)
(* another pass, or the queue, look before either has filed them, or a     *)
(* count of them has failed.  With artifact paths shared among documents,  *)
(* the default, this needs passes that are neither disturbed nor           *)
(* interleaved with a direct ingestion: what a pass that failed leaves at  *)
(* INGEST_VECTOR_DB is indexed from a file another document has written    *)
(* since.                                                                  *)
IndexIsSound ==
  \A d \in Doc :
    /\ Apart \/ Undisturbed =>
         \A i \in DOMAIN index[d] : DocOf[index[d][i].of] = d
    /\ \A i \in DOMAIN index[d] : index[d][i].whole \/ index[d][i].of \in Sync
    /\ faults.overlap = 0 /\ faults.miscount = 0 /\ OneWay => Len(index[d]) <= 1

(* A directory whose inputs were moved away between its preparation and    *)
(* its parking, by the quarantine of what was parked there before.         *)
Gutted(d) == dir[d].prepared = NoPdf

(* A parked document is indexed and complete, or quarantined, in the end:  *)
(* whatever calls raise and wherever a pass dies, if documents have their  *)
(* own artifact paths and passes do not overlap.  One is complete without  *)
(* a chunk in the index if its identity begins that of a document that is  *)
(* filed ("linux", "linux_kernel"): the guard takes the other's chunks for *)
(* its own.                                                                *)
EveryDocumentSettles ==
  \A d \in Doc :
    dir[d].state = "AWAITING_ENRICHMENT" ~>
      \/ dir[d].state = "COMPLETED" /\ (Filed(d) \/ \E e \in Longer[d] : Filed(e))
      \/ d \in quarantined
      \/ Gutted(d)
      \/ ~ (Apart \/ Undisturbed)
      \/ faults.overlap > 0
=============================================================================
