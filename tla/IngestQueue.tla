----------------------------- MODULE IngestQueue -----------------------------
(***************************************************************************)
(* Phase 1 (ingestion/pipeline.py): run_directory_queue takes the files of *)
(* to_ingest one after the other through IngestPipelineRunner.run.  In     *)
(* batch mode a document is parked for the runner, otherwise it is         *)
(* enriched, indexed and cleaned up at once.                               *)
(*                                                                         *)
(* The queue is sorted by name; here the files come in any order.  What    *)
(* the handlers say of a document (identity, sections, labels) is its      *)
(* content; --force-reingest is left out.                                  *)
(***************************************************************************)
EXTENDS IngestStore, FiniteSetsExt

CONSTANTS
  Sync,         \* files that are not ingested in batch mode
  PageBatches,  \* the batches of pages that a file is read in: their sizes
  MinCoverage   \* min_page_coverage, in percent

ASSUME QueueAssumption ==
  /\ Sync \subseteq Pdf
  /\ PageBatches \in Seq(Nat \ {0})
  /\ MinCoverage \in 0..100

VARIABLES
  inbox,   \* files in to_ingest
  queue,   \* the run over the queue: where it is, its file, files to come
  faults   \* crashes, calls that raised, passes that overlapped, counts
           \* of chunks that failed and passed for none

queueVars == <<inbox, queue, faults>>

QueueState ==
  {"idle", "next", "INTAKE_RAW", "EXPORT_TEXT", "RESOLVE_IDENTITY",
   "UPDATE_REGISTRY", "CLEAN_ELEMENTS", "DETECT_SECTIONS", "ENRICH_PREPARE",
   "PARK", "ENRICH_CONTEXT", "FINALIZE_OUTPUT", "INGEST_VECTOR_DB", "ADD_ROWS",
   "DOCUMENT_ROW", "CLEANUP_ARTIFACTS", "ARCHIVE"}

FaultKind == {"crash", "error", "overlap", "miscount"}

QueueIdle == [at |-> "idle", pdf |-> NoPdf, left |-> {}, read |-> NoContent]

QueueTypeOK ==
  /\ inbox \subseteq Pdf
  /\ queue \in [at: QueueState, pdf: Pdf \cup {NoPdf}, left: SUBSET Pdf,
                read: Content \cup {NoContent}]
  /\ faults \in [FaultKind -> 0..setup.faults]

QueueInit ==
  /\ inbox = setup.inbox
  /\ queue = QueueIdle
  /\ faults = [kind \in FaultKind |-> 0]

Fault(kind) ==
  /\ faults.crash + faults.error + faults.overlap + faults.miscount < setup.faults
  /\ faults' = [faults EXCEPT ![kind] = @ + 1]

-----------------------------------------------------------------------------

(* The file in hand, its identity, its artifact paths and what they hold.  *)
mine == queue.pdf
myDoc == DocOf[mine]
mySite == site[mine]
myFiles == files[mySite]

To(at) == queue' = [queue EXCEPT !.at = at]
NextFile == queue' = [queue EXCEPT !.at = "next", !.pdf = NoPdf, !.read = NoContent]

StartQueue ==
  /\ queue.at = "idle" /\ inbox # {}
  /\ queue' = [queue EXCEPT !.at = "next", !.left = inbox]
  /\ UNCHANGED <<diskVars, inbox, faults>>

TakeFile ==
  /\ queue.at = "next"
  /\ \/ \E p \in queue.left :
          queue' = [queue EXCEPT !.at = "INTAKE_RAW", !.pdf = p, !.left = @ \ {p}]
     \/ queue.left = {} /\ queue' = QueueIdle
  /\ UNCHANGED <<diskVars, inbox, faults>>

MovedAway == inbox' = inbox \ {mine} /\ NextFile

(* The file cannot be rewritten; by default nobody asks for that.          *)
SanitizerFails ==
  /\ queue.at = "INTAKE_RAW"
  /\ MovedAway
  /\ UNCHANGED <<diskVars, faults>>

(* The batches are read side by side, each in a process of its own; one    *)
(* that raises answers with its error, and its pages are missing.          *)
BatchAnswer == {"elements", "error"}

Pages(some) == MapThenSumSet(LAMBDA b : PageBatches[b], some)

(* page_coverage_pct of an empty file is 1.                                *)
Covered(answers) ==
  LET all  == DOMAIN PageBatches
      read == {b \in all : answers[b] = "elements"}
  IN  all = {} \/ 100 * Pages(read) >= MinCoverage * Pages(all)

(* A file of which too little was read is moved away.                      *)
IntakeRaw ==
  /\ queue.at = "INTAKE_RAW"
  /\ \E answers \in [DOMAIN PageBatches -> BatchAnswer] :
       IF Covered(answers) THEN To("EXPORT_TEXT") /\ UNCHANGED inbox ELSE MovedAway
  /\ UNCHANGED <<diskVars, faults>>

ExportText ==
  /\ queue.at = "EXPORT_TEXT"
  /\ files' = [files EXCEPT ![mySite].context = mine]
  /\ To("RESOLVE_IDENTITY")
  /\ UNCHANGED <<setup, dir, quarantined, batches, index, catalogue, inbox, faults>>

(* What sidecar, metadata, front matter and perhaps a model say of the     *)
(* file; an identity that is not valid raises (DocumentFails).             *)
ResolveIdentity ==
  /\ queue.at = "RESOLVE_IDENTITY"
  /\ To("UPDATE_REGISTRY")
  /\ UNCHANGED <<diskVars, inbox, faults>>

(* The registry of routing labels is told of the document, by the context  *)
(* file.                                                                   *)
UpdateRegistry ==
  /\ queue.at = "UPDATE_REGISTRY"
  /\ myFiles.context # NoPdf
  /\ To("CLEAN_ELEMENTS")
  /\ UNCHANGED <<diskVars, inbox, faults>>

(* The clean file is written, and written again with its sections.         *)
WritesClean(here, next) ==
  /\ queue.at = here
  /\ files' = [files EXCEPT ![mySite].clean = mine]
  /\ To(next)
  /\ UNCHANGED <<setup, dir, quarantined, batches, index, catalogue, inbox, faults>>

CleanElements == WritesClean("CLEAN_ELEMENTS", "DETECT_SECTIONS")

DetectSections ==
  WritesClean("DETECT_SECTIONS",
              IF mine \in Sync THEN "ENRICH_CONTEXT" ELSE "ENRICH_PREPARE")

(* Both files are read again before they are used.                         *)
FilesPresent == myFiles.clean # NoPdf /\ myFiles.context # NoPdf

EnrichPrepare ==
  /\ queue.at = "ENRICH_PREPARE"
  /\ FilesPresent
  /\ dir' = [dir EXCEPT ![myDoc].prepared = myFiles.clean]
  /\ To("PARK")
  /\ UNCHANGED <<setup, files, quarantined, batches, index, catalogue, inbox, faults>>

(* _park_for_batch saves a fresh record, whatever was recorded before.     *)
ParkForBatch ==
  /\ queue.at = "PARK"
  /\ SaveState(myDoc, "AWAITING_ENRICHMENT", 0, mine)
  /\ To("ARCHIVE")
  /\ UNCHANGED <<setup, files, quarantined, batches, index, catalogue, inbox, faults>>

(* enrich_sync counts the chunks that failed and goes on; by default it    *)
(* writes the final path itself.                                           *)
EnrichContext ==
  /\ queue.at = "ENRICH_CONTEXT"
  /\ FilesPresent
  /\ \E whole \in BOOLEAN :
       files' = [files EXCEPT ![mySite].final = [of |-> myFiles.clean, whole |-> whole]]
  /\ To("FINALIZE_OUTPUT")
  /\ UNCHANGED <<setup, dir, quarantined, batches, index, catalogue, inbox, faults>>

QueueFinalizes ==
  /\ queue.at = "FINALIZE_OUTPUT"
  /\ myFiles.final # NoContent
  /\ To("INGEST_VECTOR_DB")
  /\ UNCHANGED <<diskVars, inbox, faults>>

(* count_rows_matching answers an exception with 0.                        *)
Missed(d) == IF Skipped(d) THEN Fault("miscount") ELSE UNCHANGED faults

ReadFinal ==
  /\ queue.at = "INGEST_VECTOR_DB"
  /\ myFiles.final # NoContent
  /\ \/ Skipped(myDoc) /\ To("CLEANUP_ARTIFACTS") /\ UNCHANGED faults
     \/ /\ queue' = [queue EXCEPT !.at = "ADD_ROWS", !.read = myFiles.final]
        /\ Missed(myDoc)
  /\ UNCHANGED <<diskVars, inbox>>

AddRows ==
  /\ queue.at = "ADD_ROWS"
  /\ FileChunks(myDoc, queue.read)
  /\ To("DOCUMENT_ROW")
  /\ UNCHANGED <<setup, files, dir, quarantined, batches, catalogue, inbox, faults>>

WriteDocumentRow ==
  /\ queue.at = "DOCUMENT_ROW"
  /\ catalogue' = catalogue \cup {myDoc}
  /\ To("CLEANUP_ARTIFACTS")
  /\ UNCHANGED <<setup, files, dir, quarantined, batches, index, inbox, faults>>

CleanupArtifacts ==
  /\ queue.at = "CLEANUP_ARTIFACTS"
  /\ CleanUp(mySite)
  /\ To("ARCHIVE")
  /\ UNCHANGED <<setup, dir, quarantined, batches, index, catalogue, inbox, faults>>

Archive ==
  /\ queue.at = "ARCHIVE"
  /\ inbox' = inbox \ {mine}
  /\ NextFile
  /\ UNCHANGED <<diskVars, faults>>

(* Whatever a handler raises is logged, and the file stays in to_ingest:   *)
(* it is taken again, also when only its archiving has failed.             *)
DocumentFails ==
  /\ queue.at \notin {"idle", "next"}
  /\ NextFile
  /\ IF queue.at = "ARCHIVE" THEN Fault("error") ELSE UNCHANGED faults
  /\ UNCHANGED <<diskVars, inbox>>

QueueCrash ==
  /\ queue.at # "idle"
  /\ queue' = QueueIdle
  /\ Fault("crash")
  /\ UNCHANGED <<diskVars, inbox>>

QueueStep ==
  \/ StartQueue \/ TakeFile \/ SanitizerFails \/ IntakeRaw \/ ExportText \/ ResolveIdentity
  \/ UpdateRegistry \/ CleanElements \/ DetectSections
  \/ EnrichPrepare \/ ParkForBatch
  \/ EnrichContext \/ QueueFinalizes \/ ReadFinal \/ AddRows \/ WriteDocumentRow \/ CleanupArtifacts
  \/ Archive \/ DocumentFails \/ QueueCrash
=============================================================================
