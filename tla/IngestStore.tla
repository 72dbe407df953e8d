----------------------------- MODULE IngestStore -----------------------------
(***************************************************************************)
(* What the ingestion of documents leaves on disk and at the provider: the *)
(* artifact files a command line names (IngestPipelineConfig), one         *)
(* directory per parked document (ingestion/doc_state.py), the vector      *)
(* index with its table of documents (ingestion/indexer.py), the batches   *)
(* of the provider (providers/openai_batch.py).                            *)
(*                                                                         *)
(* A content is the document it was made of and whether every chunk of it  *)
(* has its context.                                                        *)
(***************************************************************************)
EXTENDS Naturals, Sequences, FiniteSets

CONSTANTS
  Pdf,       \* source files
  Doc,       \* canonical_source_id
  DocOf,     \* the identity a file resolves to
  Longer,    \* identities that begin with an identity and a "_"
  Site,      \* sets of artifact paths: raw, clean, context, final
  Runner,    \* passes of the batch runner
  Setups,    \* bound of the model: the paths of each file, the files to
             \* ingest, the passes there are, and how much may go wrong
  NoPdf

ASSUME IngestAssumption ==
  /\ DocOf \in [Pdf -> Doc]
  /\ Longer \in [Doc -> SUBSET Doc]
  /\ Setups \subseteq [site: [Pdf -> Site], inbox: SUBSET Pdf,
                       passes: SUBSET Runner, faults: Nat]
  /\ NoPdf \notin Pdf

Content == [of: Pdf, whole: BOOLEAN]
NoContent == [of |-> NoPdf, whole |-> FALSE]

(* The states of a parked document that the runner handles.                *)
DocStates ==
  {"AWAITING_ENRICHMENT", "ENRICH_SUBMIT", "ENRICH_POLL", "ENRICH_MERGE",
   "FINALIZE_OUTPUT", "INGEST_VECTOR_DB", "CLEANUP_ARTIFACTS", "COMPLETED",
   "FAILED"}

(* A batch that counts failures, has no output file, or failed, expired or *)
(* was cancelled is as good as failed; answers may be missing or be errors *)
(* in one that counts none.                                                *)
BatchOutcome == {"whole", "unreported", "failed"}

VARIABLES
  setup,       \* the setup in force
  files,       \* clean, context and final file of each site
  dir,         \* ingest_state/<doc_id>/: state.json, prepared, output, merged
  quarantined, \* documents whose directory was moved to failed/
  batches,     \* batches of the provider: whose input, and how it ended
  index,       \* contents whose chunks are filed under an identity
  catalogue    \* identities with a row in the documents table

diskVars == <<setup, files, dir, quarantined, batches, index, catalogue>>

site == setup.site

-----------------------------------------------------------------------------

NoFiles == [clean |-> NoPdf, context |-> NoPdf, final |-> NoContent]

(* A directory that holds no state.json; load_state finds nothing there.   *)
NoDir == [state |-> "absent", batch |-> 0, source |-> NoPdf,
          prepared |-> NoPdf, output |-> 0, merged |-> NoContent]

DiskTypeOK ==
  /\ setup \in Setups
  /\ files \in [Site -> [clean: Pdf \cup {NoPdf}, context: Pdf \cup {NoPdf},
                         final: Content \cup {NoContent}]]
  /\ DOMAIN dir = Doc
  /\ \A d \in Doc :
       /\ dir[d].state \in DocStates \cup {"absent"}
       /\ {dir[d].batch, dir[d].output} \subseteq 0..Len(batches)
       /\ {dir[d].source, dir[d].prepared} \subseteq Pdf \cup {NoPdf}
       /\ dir[d].merged \in Content \cup {NoContent}
  /\ quarantined \subseteq Doc
  /\ batches \in Seq([of: Pdf, status: BatchOutcome \cup {"running"}])
  /\ index \in [Doc -> Seq(Content)]
  /\ catalogue \subseteq Doc

DiskInit ==
  /\ setup \in Setups
  /\ files = [s \in Site |-> NoFiles]
  /\ dir = [d \in Doc |-> NoDir]
  /\ quarantined = {}
  /\ batches = <<>>
  /\ index = [d \in Doc |-> <<>>]
  /\ catalogue = {}

-----------------------------------------------------------------------------

(* save_state: the record of a document as a whole; what else lies in its  *)
(* directory stays, and a directory that was moved away comes back empty.  *)
SaveState(d, st, b, p) ==
  dir' = [dir EXCEPT ![d].state = st, ![d].batch = b, ![d].source = p]

(* quarantine_doc moves the directory with everything in it.               *)
Quarantine(d) ==
  /\ dir' = [dir EXCEPT ![d] = NoDir]
  /\ quarantined' = quarantined \cup {d}

(* Chunks of its own.                                                      *)
Filed(d) == index[d] # <<>>

(* The idempotency guard of ingest_json: the document is left as it is, its*)
(* row of the documents table too, if there are chunks under its prefix    *)
(* vec_<identity>_, which those of a longer identity have as well.         *)
Skipped(d) == \E e \in {d} \cup Longer[d] : Filed(e)

FileChunks(d, c) == index' = [index EXCEPT ![d] = Append(@, c)]

(* cleanup_artifacts: the files of the site, whoever wrote them.           *)
CleanUp(s) == files' = [files EXCEPT ![s] = NoFiles]

(* batches.create, and the end of a batch within its window.               *)
CreateBatch(p) == batches' = Append(batches, [of |-> p, status |-> "running"])

BatchEnds(b) ==
  /\ batches[b].status = "running"
  /\ \E outcome \in BatchOutcome : batches' = [batches EXCEPT ![b].status = outcome]
  /\ UNCHANGED <<setup, files, dir, quarantined, index, catalogue>>
=============================================================================
