-------------------------- MODULE BatchRunnerProofs --------------------------
(***************************************************************************)
(* Proofs about the ingestion of documents, for any files, identities and  *)
(* artifact paths, any number of passes beside the queue and any number of *)
(* faults: types, and what the index holds of a document.                  *)
(***************************************************************************)
EXTENDS BatchRunner, FiniteSetTheorems, SequenceTheorems, TLAPS

Batch == [of : Pdf, status : BatchOutcome \cup {"running"}]

Files == [clean : Pdf \cup {NoPdf}, context : Pdf \cup {NoPdf}, final : Content \cup {NoContent}]

Record(n) ==
  [state : DocStates \cup {"absent"}, batch : 0..n, source : Pdf \cup {NoPdf},
   prepared : Pdf \cup {NoPdf}, output : 0..n, merged : Content \cup {NoContent}]

InHand == {{}} \cup {{d} : d \in Doc}

Pass(n) ==
  [at : PassState, left : SUBSET Doc, doc : InHand, batch : 0..n,
   source : Pdf \cup {NoPdf}, read : Content \cup {NoContent}]

DiskInv ==
  /\ setup \in Setups
  /\ files \in [Site -> Files]
  /\ quarantined \subseteq Doc
  /\ batches \in Seq(Batch)
  /\ index \in [Doc -> Seq(Content)]
  /\ catalogue \subseteq Doc

Numbered(n) == dir \in [Doc -> Record(n)] /\ pass \in [Runner -> Pass(n)]

TypeInv == DiskInv /\ QueueTypeOK /\ Numbered(Len(batches))

-----------------------------------------------------------------------------
(* Types.                                                                  *)

LEMMA Constants ==
  /\ DocOf \in [Pdf -> Doc] /\ NoPdf \notin Pdf /\ NoContent \notin Content
  /\ \A s \in Setups : /\ s.site \in [Pdf -> Site] /\ s.inbox \subseteq Pdf
                       /\ s.passes \subseteq Runner /\ s.faults \in Nat
  /\ Sync \subseteq Pdf
BY IngestAssumption, QueueAssumption DEF Content, NoContent

LEMMA Empties ==
  /\ NoFiles \in Files /\ NoContent \in Content \cup {NoContent}
  /\ \A n \in Nat : NoDir \in Record(n) /\ PassIdle \in Pass(n)
  /\ <<>> \in Seq(Content) /\ <<>> \in Seq(Batch) /\ Len(<<>>) = 0
BY DEF NoFiles, Files, NoContent, NoDir, Record, PassIdle, Pass, PassState, DocStates, InHand

LEMMA MoreBatches ==
  ASSUME NEW n \in Nat
  PROVE  /\ Record(n) \subseteq Record(n + 1) /\ Pass(n) \subseteq Pass(n + 1)
         /\ Numbered(n) => Numbered(n + 1)
<1>1. 0..n \subseteq 0..(n + 1)
  OBVIOUS
<1>2. Record(n) \subseteq Record(n + 1)
  BY <1>1 DEF Record
<1>3. Pass(n) \subseteq Pass(n + 1)
  BY <1>1 DEF Pass
<1>4. QED
  BY <1>2, <1>3 DEF Numbered

LEMMA Numbers ==
  ASSUME TypeInv
  PROVE  /\ Len(batches) \in Nat /\ DOMAIN batches = 1..Len(batches)
         /\ \A b \in 1..Len(batches) : batches[b] \in Batch
         /\ setup.faults \in Nat /\ setup.inbox \subseteq Pdf /\ setup.site \in [Pdf -> Site]
         /\ faults \in [FaultKind -> Nat]
<1>1. batches \in Seq(Batch) /\ setup \in Setups
  BY DEF TypeInv, DiskInv
<1>2. setup.faults \in Nat /\ setup.inbox \subseteq Pdf /\ setup.site \in [Pdf -> Site]
  BY <1>1, Constants
<1>3. faults \in [FaultKind -> Nat]
  BY <1>2 DEF TypeInv, QueueTypeOK
<1>4. QED
  BY <1>1, <1>2, <1>3

LEMMA FaultTyped ==
  ASSUME TypeInv, NEW kind \in FaultKind, Fault(kind)
  PROVE  /\ faults' \in [FaultKind -> 0..setup.faults]
         /\ faults' = [faults EXCEPT ![kind] = faults[kind] + 1]
<1>1. /\ faults \in [FaultKind -> 0..setup.faults]
      /\ faults \in [FaultKind -> Nat] /\ setup.faults \in Nat
  BY Numbers DEF TypeInv, QueueTypeOK
<1>2. faults[kind] + 1 \in 0..setup.faults
  <2>1. /\ faults["crash"] \in Nat /\ faults["error"] \in Nat
        /\ faults["overlap"] \in Nat /\ faults["miscount"] \in Nat
    BY <1>1 DEF FaultKind
  <2>2. /\ kind = "crash" \/ kind = "error" \/ kind = "overlap" \/ kind = "miscount"
        /\ faults.crash + faults.error + faults.overlap + faults.miscount < setup.faults
    BY DEF Fault, FaultKind
  <2>3. faults[kind] < setup.faults /\ faults[kind] \in Nat
    BY <1>1, <2>1, <2>2
  <2>4. QED
    BY <1>1, <2>3
<1>3. QED
  BY <1>1, <1>2 DEF Fault

(* What a step of the queue changes.                                       *)
LEMMA QueueFrame ==
  ASSUME QueueStep
  PROVE  /\ UNCHANGED <<setup, quarantined, batches>>
         /\ \/ dir' = dir \/ EnrichPrepare \/ ParkForBatch
         /\ \/ index' = index \/ AddRows
         /\ \/ catalogue' = catalogue \/ WriteDocumentRow
         /\ \/ files' = files \/ ExportText \/ CleanElements \/ DetectSections
            \/ EnrichContext \/ CleanupArtifacts
         /\ \/ inbox' = inbox \/ inbox' = inbox \ {mine}
         /\ \/ faults' = faults \/ \E kind \in FaultKind : Fault(kind)
         /\ faults' = faults \/ DocumentFails \/ QueueCrash \/ ReadFinal
<1> USE DEF FaultKind
<1>1. CASE StartQueue \/ TakeFile \/ SanitizerFails \/ IntakeRaw
  BY <1>1 DEF StartQueue, TakeFile, SanitizerFails, IntakeRaw, MovedAway, diskVars
<1>2. CASE ExportText \/ ResolveIdentity \/ UpdateRegistry \/ CleanElements \/ DetectSections
  BY <1>2 DEF ExportText, ResolveIdentity, UpdateRegistry, CleanElements, DetectSections,
              WritesClean, diskVars
<1>3. CASE EnrichPrepare \/ ParkForBatch \/ EnrichContext \/ QueueFinalizes
  BY <1>3 DEF EnrichPrepare, ParkForBatch, EnrichContext, QueueFinalizes, diskVars
<1>4. CASE ReadFinal \/ AddRows \/ WriteDocumentRow \/ CleanupArtifacts
  BY <1>4 DEF ReadFinal, Missed, AddRows, WriteDocumentRow, CleanupArtifacts, diskVars
<1>5. CASE Archive \/ DocumentFails \/ QueueCrash
  BY <1>5 DEF Archive, DocumentFails, QueueCrash, diskVars
<1>6. QED
  BY <1>1, <1>2, <1>3, <1>4, <1>5 DEF QueueStep

-----------------------------------------------------------------------------
(* What the queue, the directories, the passes and the files hold.         *)

(* The files by which a document may be parked.                            *)
Parked(d) == {p \in setup.inbox \ Sync : DocOf[p] = d}

(* A content that may be indexed: every chunk has its context, or nobody   *)
(* asked for that.                                                         *)
Made(c) == c.whole \/ c.of \in Sync

Direct ==
  {"ENRICH_CONTEXT", "FINALIZE_OUTPUT", "INGEST_VECTOR_DB", "ADD_ROWS", "DOCUMENT_ROW",
   "CLEANUP_ARTIFACTS"}

Parking == {"ENRICH_PREPARE", "PARK"}

(* The queue has a file of to_ingest in hand, parks it or ingests it at    *)
(* once, and takes its clean file for nobody else's.                       *)
QueueInv ==
  /\ inbox \subseteq setup.inbox /\ queue.left \subseteq setup.inbox
  /\ queue.at \notin {"idle", "next"} => queue.pdf \in setup.inbox
  /\ queue.at \in Direct => mine \in Sync
  /\ queue.at \in Parking => mine \notin Sync
  /\ queue.at \in {"DETECT_SECTIONS", "ENRICH_PREPARE", "ENRICH_CONTEXT"} =>
       myFiles.clean \in {mine, NoPdf}
  /\ queue.at = "ADD_ROWS" => Made(queue.read)

RecordInv(d) ==
  /\ dir[d].prepared \in Parked(d) \cup {NoPdf}
  /\ dir[d].state # "absent" => dir[d].source \in Parked(d)
  /\ dir[d].merged # NoContent => dir[d].merged.whole /\ dir[d].merged.of \in Parked(d)

PassInv(r) ==
  /\ pass[r].at \in {"idle", "next"} => pass[r].doc = {}
  /\ \A d \in pass[r].doc : pass[r].source \in Parked(d)
  /\ pass[r].at = "ADD_ROWS" => Made(pass[r].read)

FilesInv == \A s \in Site : files[s].final # NoContent => Made(files[s].final)

IndexInv == \A d \in Doc : \A i \in DOMAIN index[d] : Made(index[d][i])

Inv ==
  /\ TypeInv /\ QueueInv
  /\ \A d \in Doc : RecordInv(d)
  /\ \A r \in Runner : PassInv(r)
  /\ FilesInv /\ IndexInv

LEMMA MadeIsContent == ~ Made(NoContent)
BY Constants DEF Made, NoContent

LEMMA InTheQueue ==
  ASSUME TypeInv, QueueInv, queue.at \notin {"idle", "next"}
  PROVE  /\ mine \in Pdf /\ mine \in setup.inbox /\ myDoc \in Doc /\ mySite \in Site
         /\ myFiles \in Files /\ (mine \in Sync \/ mine \in Parked(myDoc))
<1>1. mine \in setup.inbox
  BY DEF QueueInv, mine
<1>2. mine \in Pdf
  BY <1>1, Numbers
<1>3. myDoc \in Doc
  BY <1>2, Constants DEF myDoc
<1>4. mySite \in Site
  BY <1>2, Numbers DEF mySite, site
<1>5. myFiles \in Files
  BY <1>4 DEF myFiles, TypeInv, DiskInv
<1>6. QED
  BY <1>1, <1>2, <1>3, <1>4, <1>5 DEF Parked, myDoc

LEMMA QueueTyped ==
  ASSUME TypeInv
  PROVE  /\ queue \in [at : QueueState, pdf : Pdf \cup {NoPdf}, left : SUBSET Pdf,
                       read : Content \cup {NoContent}]
         /\ inbox \subseteq Pdf
         /\ faults \in [FaultKind -> 0..setup.faults]
BY DEF TypeInv, QueueTypeOK

(* A step of the queue that leaves disk and faults alone.                  *)
LEMMA QueueTurns ==
  ASSUME TypeInv, QueueInv,
         \/ StartQueue \/ TakeFile \/ SanitizerFails \/ IntakeRaw \/ ResolveIdentity
         \/ UpdateRegistry \/ QueueFinalizes \/ ReadFinal \/ Archive,
         FilesInv
  PROVE  QueueTypeOK' /\ QueueInv'
<1> USE DEF QueueState
<1>0. /\ UNCHANGED <<setup, files>>
      /\ faults' \in [FaultKind -> 0..setup.faults]
  <2>1. /\ UNCHANGED <<setup, files>>
        /\ faults' = faults \/ Fault("miscount")
    BY DEF StartQueue, TakeFile, SanitizerFails, IntakeRaw, MovedAway, ResolveIdentity, UpdateRegistry,
           QueueFinalizes, ReadFinal, Missed, Archive, diskVars
  <2>2. "miscount" \in FaultKind
    BY DEF FaultKind
  <2>3. QED
    BY <2>1, <2>2, QueueTyped, FaultTyped
<1>1. CASE StartQueue
  BY <1>0, <1>1, QueueTyped DEF StartQueue, QueueTypeOK, QueueInv, Direct, Parking, mine, myFiles, mySite, site
<1>2. CASE TakeFile
  <2>1. CASE queue.left = {} /\ queue' = QueueIdle
    BY <1>0, <1>2, <2>1, QueueTyped, Empties DEF TakeFile, QueueIdle, QueueTypeOK, QueueInv, Direct, Parking
  <2>2. ASSUME NEW f \in queue.left,
               queue' = [queue EXCEPT !.at = "INTAKE_RAW", !.pdf = f, !.left = @ \ {f}]
        PROVE  QueueTypeOK' /\ QueueInv'
    BY <1>0, <1>2, <2>2, QueueTyped DEF TakeFile, QueueTypeOK, QueueInv, Direct, Parking
  <2>3. QED
    BY <1>2, <2>1, <2>2 DEF TakeFile
<1>3. ASSUME inbox' \subseteq inbox, NextFile
      PROVE  QueueTypeOK' /\ QueueInv'
  BY <1>0, <1>3, QueueTyped DEF NextFile, QueueTypeOK, QueueInv, Direct, Parking
<1>4. ASSUME NEW at \in QueueState, inbox' = inbox, To(at),
             queue.at \notin {"idle", "next"},
             at \notin {"DETECT_SECTIONS", "ENRICH_PREPARE", "ENRICH_CONTEXT", "ADD_ROWS"},
             at \notin Parking, at \in Direct => queue.at \in Direct
      PROVE  QueueTypeOK' /\ QueueInv'
  BY <1>0, <1>4, QueueTyped DEF To, QueueTypeOK, QueueInv, mine
<1>5. CASE SanitizerFails \/ IntakeRaw
  <2>1. \/ inbox' \subseteq inbox /\ NextFile
        \/ inbox' = inbox /\ To("EXPORT_TEXT") /\ queue.at = "INTAKE_RAW"
    BY <1>5 DEF SanitizerFails, IntakeRaw, MovedAway
  <2>2. QED
    BY <1>3, <1>4, <2>1 DEF Parking, Direct
<1>6. CASE ResolveIdentity \/ UpdateRegistry
  BY <1>4, <1>6 DEF ResolveIdentity, UpdateRegistry, Parking, Direct
<1>7. CASE QueueFinalizes
  BY <1>4, <1>7 DEF QueueFinalizes, Parking, Direct
<1>8. CASE ReadFinal
  <2>1. CASE To("CLEANUP_ARTIFACTS")
    BY <1>4, <1>8, <2>1 DEF ReadFinal, Parking, Direct
  <2>2. CASE ~ To("CLEANUP_ARTIFACTS")
    <3>1. /\ queue' = [queue EXCEPT !.at = "ADD_ROWS", !.read = myFiles.final]
          /\ inbox' = inbox /\ queue.at = "INGEST_VECTOR_DB" /\ myFiles.final # NoContent
      BY <1>8, <2>2 DEF ReadFinal
    <3>2. myFiles.final \in Content \cup {NoContent} /\ Made(myFiles.final)
      <4>1. queue.at \notin {"idle", "next"}
        BY <3>1
      <4>2. myFiles \in Files /\ mySite \in Site
        BY <4>1, InTheQueue
      <4>3. Made(myFiles.final)
        BY <3>1, <4>2 DEF FilesInv, myFiles
      <4>4. QED
        BY <4>2, <4>3 DEF Files
    <3>3. QED
      BY <1>0, <3>1, <3>2, QueueTyped DEF QueueTypeOK, QueueInv, Direct, Parking, mine
  <2>3. QED
    BY <2>1, <2>2
<1>9. CASE Archive
  BY <1>3, <1>9 DEF Archive
<1>10. QED
  BY <1>1, <1>2, <1>5, <1>6, <1>7, <1>8, <1>9

(* A step of the queue that puts its file down.                            *)
LEMMA QueueStops ==
  ASSUME TypeInv, QueueInv, DocumentFails \/ QueueCrash
  PROVE  QueueTypeOK' /\ QueueInv' /\ UNCHANGED diskVars
<1>0. UNCHANGED <<setup, files, inbox>> /\ UNCHANGED diskVars
  BY DEF DocumentFails, QueueCrash, diskVars
<1>1. faults' \in [FaultKind -> 0..setup.faults]
  <2>1. faults' = faults \/ Fault("error") \/ Fault("crash")
    BY DEF DocumentFails, QueueCrash
  <2>2. QED
    BY <2>1, FaultTyped, QueueTyped DEF FaultKind
<1>2. CASE DocumentFails
  BY <1>0, <1>1, <1>2, QueueTyped
  DEF DocumentFails, NextFile, QueueTypeOK, QueueState, QueueInv, Direct, Parking
<1>3. CASE QueueCrash
  BY <1>0, <1>1, <1>3, QueueTyped
  DEF QueueCrash, QueueIdle, QueueTypeOK, QueueState, QueueInv, Direct, Parking
<1>4. QED
  BY <1>0, <1>2, <1>3

(* What a step of the queue that writes a file leaves at the site.         *)
LEMMA QueueWrites ==
  ASSUME TypeInv, QueueInv, FilesInv,
         ExportText \/ CleanElements \/ DetectSections \/ EnrichContext \/ CleanupArtifacts
  PROVE  /\ \E f \in Files : /\ files' = [files EXCEPT ![mySite] = f]
                             /\ \/ f.final = myFiles.final \/ EnrichContext
                                \/ CleanupArtifacts /\ f.final = NoContent
                             /\ f.final # NoContent => Made(f.final)
                             /\ EnrichContext => f.final.of = mine
                             /\ CleanElements \/ DetectSections => f.clean = mine
         /\ mySite \in Site /\ files \in [Site -> Files] /\ mine \in Pdf
<1>1. queue.at \notin {"idle", "next"}
  BY DEF ExportText, CleanElements, DetectSections, WritesClean, EnrichContext, CleanupArtifacts
<1>2. mine \in Pdf /\ mySite \in Site /\ myFiles \in Files /\ files \in [Site -> Files]
  BY <1>1, InTheQueue DEF TypeInv, DiskInv
<1>3. myFiles.final # NoContent => Made(myFiles.final)
  BY <1>2 DEF FilesInv, myFiles
<1>4. CASE ExportText
  <2>1. [myFiles EXCEPT !.context = mine] \in Files
    BY <1>2 DEF Files
  <2>2. /\ files' = [files EXCEPT ![mySite] = [myFiles EXCEPT !.context = mine]]
        /\ queue.at = "EXPORT_TEXT"
    BY <1>2, <1>4 DEF ExportText, myFiles
  <2>3. [myFiles EXCEPT !.context = mine].final = myFiles.final
    BY <1>2 DEF Files
  <2>4. ~ EnrichContext /\ ~ CleanElements /\ ~ DetectSections
    BY <2>2 DEF EnrichContext, CleanElements, DetectSections, WritesClean
  <2>5. QED
    BY <1>2, <1>3, <2>1, <2>2, <2>3, <2>4
<1>5. CASE CleanElements \/ DetectSections
  <2>1. [myFiles EXCEPT !.clean = mine] \in Files
    BY <1>2 DEF Files
  <2>2. /\ files' = [files EXCEPT ![mySite] = [myFiles EXCEPT !.clean = mine]]
        /\ queue.at \in {"CLEAN_ELEMENTS", "DETECT_SECTIONS"}
    BY <1>2, <1>5 DEF CleanElements, DetectSections, WritesClean, myFiles
  <2>3. /\ [myFiles EXCEPT !.clean = mine].final = myFiles.final
        /\ [myFiles EXCEPT !.clean = mine].clean = mine
    BY <1>2 DEF Files
  <2>4. ~ EnrichContext
    BY <2>2 DEF EnrichContext
  <2>5. QED
    BY <1>2, <1>3, <2>1, <2>2, <2>3, <2>4
<1>6. CASE EnrichContext
  <2>1. queue.at = "ENRICH_CONTEXT" /\ myFiles.clean = mine /\ mine \in Sync
    BY <1>6 DEF EnrichContext, FilesPresent, QueueInv, Direct
  <2>2. PICK whole \in BOOLEAN :
          files' = [files EXCEPT ![mySite].final = [of |-> mine, whole |-> whole]]
    BY <1>6, <2>1 DEF EnrichContext
  <2> DEFINE f == [myFiles EXCEPT !.final = [of |-> mine, whole |-> whole]]
  <2>3. f \in Files /\ f.final = [of |-> mine, whole |-> whole] /\ Made(f.final)
    BY <1>2, <2>1 DEF Files, Made, Content
  <2>4. files' = [files EXCEPT ![mySite] = f]
    BY <1>2, <2>2 DEF myFiles
  <2>5. ~ CleanElements /\ ~ DetectSections
    BY <2>1 DEF CleanElements, DetectSections, WritesClean
  <2>6. f.final.of = mine
    BY <2>3
  <2> HIDE DEF f
  <2>7. QED
    BY <1>2, <1>6, <2>3, <2>4, <2>5, <2>6
<1>7. CASE CleanupArtifacts
  <2>1. files' = [files EXCEPT ![mySite] = NoFiles] /\ queue.at = "CLEANUP_ARTIFACTS"
    BY <1>7 DEF CleanupArtifacts, CleanUp
  <2>2. NoFiles \in Files /\ NoFiles.final = NoContent
    BY Empties DEF NoFiles
  <2>3. ~ CleanElements /\ ~ DetectSections /\ ~ EnrichContext
    BY <2>1 DEF CleanElements, DetectSections, WritesClean, EnrichContext
  <2>4. QED
    BY <1>2, <1>7, <2>1, <2>2, <2>3
<1>8. QED
  BY <1>4, <1>5, <1>6, <1>7

(* A step of the queue that writes a file keeps what the queue holds.      *)
LEMMA QueueHolds ==
  ASSUME TypeInv, QueueInv, QueueStep,
         \/ ExportText \/ CleanElements \/ DetectSections \/ EnrichContext \/ CleanupArtifacts
         \/ EnrichPrepare \/ ParkForBatch \/ AddRows \/ WriteDocumentRow,
         FilesInv
  PROVE  QueueTypeOK' /\ QueueInv'
<1>0. UNCHANGED <<setup, inbox, faults>>
  BY DEF ExportText, CleanElements, DetectSections, WritesClean, EnrichContext, CleanupArtifacts,
         EnrichPrepare, ParkForBatch, AddRows, WriteDocumentRow
<1>1. ASSUME NEW at \in QueueState, To(at), queue.at \notin {"idle", "next"},
             at \notin {"DETECT_SECTIONS", "ENRICH_PREPARE", "ENRICH_CONTEXT", "ADD_ROWS"},
             at \in Parking => mine \notin Sync, at \in Direct => mine \in Sync
      PROVE  QueueTypeOK' /\ QueueInv'
  BY <1>0, <1>1, QueueTyped DEF To, QueueTypeOK, QueueInv, mine
<1> USE DEF QueueState, Parking, Direct
<1>2. CASE ExportText
  BY <1>1, <1>2 DEF ExportText
<1>3. CASE EnrichContext
  BY <1>1, <1>3 DEF EnrichContext, QueueInv
<1>4. CASE CleanupArtifacts
  BY <1>1, <1>4 DEF CleanupArtifacts
<1>5. CASE EnrichPrepare
  BY <1>1, <1>5 DEF EnrichPrepare, QueueInv
<1>6. CASE ParkForBatch
  BY <1>1, <1>6 DEF ParkForBatch
<1>7. CASE AddRows
  BY <1>1, <1>7 DEF AddRows, QueueInv
<1>8. CASE WriteDocumentRow
  BY <1>1, <1>8 DEF WriteDocumentRow, QueueInv
<1>9. CASE CleanElements \/ DetectSections
  <2>1. PICK f \in Files : files' = [files EXCEPT ![mySite] = f] /\ f.clean = mine
    BY <1>9, QueueWrites
  <2>2. mySite \in Site /\ files \in [Site -> Files]
    BY <1>9, QueueWrites
  <2>3. PICK at \in {"DETECT_SECTIONS", "ENRICH_PREPARE", "ENRICH_CONTEXT"} :
          /\ To(at) /\ queue.at \notin {"idle", "next"}
          /\ at = "ENRICH_CONTEXT" => mine \in Sync
          /\ at = "ENRICH_PREPARE" => mine \notin Sync
    BY <1>9 DEF CleanElements, DetectSections, WritesClean
  <2>4. mine' = mine /\ mySite' = mySite /\ queue'.at = at
    BY <1>0, <2>3, QueueTyped DEF To, mine, mySite, site
  <2>5. myFiles'.clean = mine
    BY <2>1, <2>2, <2>4 DEF myFiles
  <2>6. queue'.left = queue.left /\ queue'.pdf = queue.pdf
    BY <2>3, QueueTyped DEF To
  <2>7. QueueTypeOK'
    BY <1>0, <2>3, QueueTyped DEF To, QueueTypeOK
  <2>8. QED
    BY <1>0, <2>3, <2>4, <2>5, <2>6, <2>7 DEF QueueInv
<1>10. QED
  BY <1>2, <1>3, <1>4, <1>5, <1>6, <1>7, <1>8, <1>9

(* A step of the queue that parks changes the record of its document.      *)
LEMMA QueueParks ==
  ASSUME TypeInv, QueueInv, EnrichPrepare \/ ParkForBatch, RecordInv(myDoc)
  PROVE  /\ \E rec \in Record(Len(batches)) :
              /\ dir' = [dir EXCEPT ![myDoc] = rec]
              /\ rec.prepared = dir[myDoc].prepared \/ rec.prepared = mine
              /\ \/ rec.state = dir[myDoc].state /\ rec.source = dir[myDoc].source
                 \/ rec.state = "AWAITING_ENRICHMENT" /\ rec.source = mine
              /\ rec.merged = dir[myDoc].merged
         /\ mine \in Parked(myDoc) /\ myDoc \in Doc /\ dir \in [Doc -> Record(Len(batches))]
<1>1. queue.at \in Parking /\ queue.at \notin {"idle", "next"} /\ mine \notin Sync
  BY DEF EnrichPrepare, ParkForBatch, Parking, QueueInv
<1>2. /\ mine \in Pdf /\ myDoc \in Doc /\ mine \in Parked(myDoc)
      /\ dir \in [Doc -> Record(Len(batches))]
  BY <1>1, InTheQueue DEF TypeInv, Numbered
<1>3. dir[myDoc] \in Record(Len(batches)) /\ Len(batches) \in Nat
  BY <1>2, Numbers
<1>4. CASE EnrichPrepare
  <2>1. dir' = [dir EXCEPT ![myDoc] = [dir[myDoc] EXCEPT !.prepared = mine]]
    BY <1>2, <1>4 DEF EnrichPrepare, FilesPresent, QueueInv
  <2>2. [dir[myDoc] EXCEPT !.prepared = mine] \in Record(Len(batches))
    BY <1>2, <1>3 DEF Record
  <2>3. QED
    BY <1>2, <1>3, <2>1, <2>2 DEF Record
<1>5. CASE ParkForBatch
  <2> DEFINE rec == [dir[myDoc] EXCEPT !.state = "AWAITING_ENRICHMENT", !.batch = 0, !.source = mine]
  <2>1. dir' = [dir EXCEPT ![myDoc] = rec]
    BY <1>2, <1>3, <1>5 DEF ParkForBatch, SaveState
  <2>2. rec \in Record(Len(batches))
    <3>1. 0 \in 0..Len(batches) /\ "AWAITING_ENRICHMENT" \in DocStates /\ mine \in Pdf \cup {NoPdf}
      BY <1>2, <1>3 DEF DocStates
    <3>2. QED
      BY <1>3, <3>1 DEF Record
  <2>3. /\ rec.prepared = dir[myDoc].prepared /\ rec.merged = dir[myDoc].merged
        /\ rec.state = "AWAITING_ENRICHMENT" /\ rec.source = mine
    BY <1>3 DEF Record
  <2> HIDE DEF rec
  <2>4. QED
    BY <1>2, <2>1, <2>2, <2>3
<1>6. QED
  BY <1>4, <1>5

(* What filing a content under an identity does to the index.              *)
LEMMA Chunks ==
  ASSUME TypeInv, NEW d \in Doc, NEW c \in Content \cup {NoContent}, Made(c), FileChunks(d, c)
  PROVE  /\ index' \in [Doc -> Seq(Content)]
         /\ \A e \in Doc : e # d => index'[e] = index[e]
         /\ \A i \in DOMAIN index'[d] : index'[d][i] = c \/ (i \in DOMAIN index[d] /\ index'[d][i] = index[d][i])
         /\ index[d] = <<>> => Len(index'[d]) = 1
<1>1. c \in Content /\ index \in [Doc -> Seq(Content)]
  BY MadeIsContent DEF TypeInv, DiskInv
<1>2. index' = [index EXCEPT ![d] = Append(index[d], c)]
  BY <1>1 DEF FileChunks
<1>3. index[d] \in Seq(Content) /\ Len(index[d]) \in Nat /\ DOMAIN index[d] = 1..Len(index[d])
  BY <1>1
<1>4. /\ Append(index[d], c) \in Seq(Content)
      /\ Len(Append(index[d], c)) = Len(index[d]) + 1
      /\ DOMAIN Append(index[d], c) = 1..(Len(index[d]) + 1)
      /\ \A i \in 1..Len(index[d]) : Append(index[d], c)[i] = index[d][i]
      /\ Append(index[d], c)[Len(index[d]) + 1] = c
  BY <1>1, <1>3
<1>5. index' \in [Doc -> Seq(Content)] /\ index'[d] = Append(index[d], c)
  BY <1>1, <1>2, <1>4
<1>6. \A e \in Doc : e # d => index'[e] = index[e]
  BY <1>1, <1>2
<1>7. ASSUME NEW i \in DOMAIN index'[d]
      PROVE  index'[d][i] = c \/ (i \in DOMAIN index[d] /\ index'[d][i] = index[d][i])
  <2>1. i \in 1..Len(index[d]) \/ i = Len(index[d]) + 1
    BY <1>3, <1>4, <1>5
  <2>2. QED
    BY <1>3, <1>4, <1>5, <2>1
<1>8. index[d] = <<>> => Len(index'[d]) = 1
  BY <1>4, <1>5
<1>9. QED
  BY <1>5, <1>6, <1>7, <1>8

LEMMA ChunksAreMade ==
  ASSUME TypeInv, IndexInv, NEW d \in Doc, NEW c \in Content \cup {NoContent}, Made(c),
         FileChunks(d, c)
  PROVE  IndexInv'
<1>1. ASSUME NEW e \in Doc, NEW i \in DOMAIN index'[e]
      PROVE  Made(index'[e][i])
  <2>1. CASE e # d
    BY <1>1, <2>1, Chunks DEF IndexInv
  <2>2. CASE e = d
    BY <1>1, <2>2, Chunks DEF IndexInv
  <2>3. QED
    BY <2>1, <2>2
<1>2. QED
  BY <1>1 DEF IndexInv, Made

LEMMA QueueKeepsInv ==
  ASSUME Inv, QueueStep, UNCHANGED pass
  PROVE  Inv'
<1> USE DEF Inv
<1>1. QueueTypeOK' /\ QueueInv'
  BY QueueTurns, QueueStops, QueueHolds DEF QueueStep
<1>2. UNCHANGED <<setup, quarantined, batches>> /\ quarantined \subseteq Doc /\ setup \in Setups
  BY QueueFrame DEF TypeInv, DiskInv
<1>3. files' \in [Site -> Files] /\ FilesInv'
  <2>1. CASE files' = files
    BY <2>1 DEF TypeInv, DiskInv, FilesInv, Made
  <2>2. CASE ExportText \/ CleanElements \/ DetectSections \/ EnrichContext \/ CleanupArtifacts
    <3>1. PICK f \in Files : /\ files' = [files EXCEPT ![mySite] = f]
                             /\ f.final # NoContent => Made(f.final)
      BY <2>2, QueueWrites
    <3>2. mySite \in Site /\ files \in [Site -> Files]
      BY <2>2, QueueWrites
    <3>3. QED
      BY <3>1, <3>2 DEF FilesInv, Made
  <2>3. QED
    BY <2>1, <2>2, QueueFrame
<1>4. \A d \in Doc : Parked(d)' = Parked(d)
  BY <1>2 DEF Parked
<1>5. dir' \in [Doc -> Record(Len(batches))] /\ \A d \in Doc : RecordInv(d)'
  <2>1. CASE dir' = dir
    BY <1>4, <2>1 DEF TypeInv, Numbered, RecordInv
  <2>2. CASE EnrichPrepare \/ ParkForBatch
    <3>1. myDoc \in Doc
      BY <2>2, InTheQueue DEF EnrichPrepare, ParkForBatch
    <3>2. /\ mine \in Parked(myDoc) /\ dir \in [Doc -> Record(Len(batches))]
          /\ \E rec \in Record(Len(batches)) :
              /\ dir' = [dir EXCEPT ![myDoc] = rec]
              /\ rec.prepared = dir[myDoc].prepared \/ rec.prepared = mine
              /\ \/ rec.state = dir[myDoc].state /\ rec.source = dir[myDoc].source
                 \/ rec.state = "AWAITING_ENRICHMENT" /\ rec.source = mine
              /\ rec.merged = dir[myDoc].merged
      BY <2>2, <3>1, QueueParks
    <3>3. dir' \in [Doc -> Record(Len(batches))]
      BY <3>1, <3>2
    <3>4. ASSUME NEW d \in Doc PROVE RecordInv(d)'
      <4>1. CASE d # myDoc
        BY <1>4, <3>2, <4>1 DEF RecordInv
      <4>2. CASE d = myDoc
        BY <1>4, <3>1, <3>2, <4>2 DEF RecordInv
      <4>3. QED
        BY <4>1, <4>2
    <3>5. QED
      BY <3>3, <3>4
  <2>3. QED
    BY <2>1, <2>2, QueueFrame
<1>6. index' \in [Doc -> Seq(Content)] /\ IndexInv'
  <2>1. CASE index' = index
    BY <2>1 DEF TypeInv, DiskInv, IndexInv, Made
  <2>2. CASE AddRows
    <3>1. queue.at = "ADD_ROWS" /\ FileChunks(myDoc, queue.read)
      BY <2>2 DEF AddRows
    <3>2. myDoc \in Doc
      BY <3>1, InTheQueue
    <3>3. Made(queue.read) /\ queue.read \in Content \cup {NoContent}
      BY <3>1, QueueTyped DEF QueueInv
    <3>4. QED
      BY <3>1, <3>2, <3>3, Chunks, ChunksAreMade
  <2>3. QED
    BY <2>1, <2>2, QueueFrame
<1>7. catalogue' \subseteq Doc
  <2>1. catalogue \subseteq Doc
    BY DEF TypeInv, DiskInv
  <2>2. CASE WriteDocumentRow
    <3>1. catalogue' = catalogue \cup {myDoc} /\ queue.at = "DOCUMENT_ROW"
      BY <2>2 DEF WriteDocumentRow
    <3>2. QED
      BY <2>1, <3>1, InTheQueue
  <2>3. QED
    BY <2>1, <2>2, QueueFrame
<1>8. TypeInv'
  BY <1>1, <1>2, <1>3, <1>5, <1>6, <1>7 DEF TypeInv, DiskInv, Numbered
<1>9. \A r \in Runner : PassInv(r)'
  <2>1. ASSUME NEW r \in Runner PROVE PassInv(r)'
    <3>1. \A d \in pass[r].doc : d \in Doc
      BY DEF TypeInv, Numbered, Pass, InHand
    <3>2. QED
      BY <1>4, <3>1 DEF PassInv, Made
  <2>2. QED
    BY <2>1
<1>10. QED
  BY <1>1, <1>3, <1>5, <1>6, <1>8, <1>9

-----------------------------------------------------------------------------
(* The passes.                                                             *)

LEMMA HasInHand ==
  ASSUME TypeInv, NEW r \in Runner, NEW d \in Doc, pass[r].doc = {d}, PassInv(r)
  PROVE  /\ pass[r] \in Pass(Len(batches)) /\ pass \in [Runner -> Pass(Len(batches))]
         /\ dir \in [Doc -> Record(Len(batches))] /\ dir[d] \in Record(Len(batches))
         /\ pass[r].source \in Parked(d) /\ pass[r].source \in Pdf /\ hisSite(r) \in Site
         /\ files \in [Site -> Files] /\ files[hisSite(r)] \in Files
<1>1. /\ pass[r] \in Pass(Len(batches)) /\ pass \in [Runner -> Pass(Len(batches))]
      /\ dir \in [Doc -> Record(Len(batches))] /\ files \in [Site -> Files]
  BY DEF TypeInv, Numbered, DiskInv
<1>2. pass[r].source \in Parked(d)
  BY DEF PassInv
<1>3. pass[r].source \in Pdf
  BY <1>2, Numbers DEF Parked
<1>4. hisSite(r) \in Site
  BY <1>3, Numbers DEF hisSite, site
<1>5. QED
  BY <1>1, <1>2, <1>3, <1>4

(* A pass comes to a new record of its own.                                *)
LEMMA PassMoves ==
  ASSUME TypeInv, \A r \in Runner : PassInv(r), UNCHANGED setup, NEW n \in Nat,
         NEW r \in Runner, NEW rec \in Pass(n), pass \in [Runner -> Pass(n)],
         pass' = [pass EXCEPT ![r] = rec],
         rec.at \in {"idle", "next"} => rec.doc = {},
         \A d \in rec.doc : rec.source \in Parked(d),
         rec.at = "ADD_ROWS" => Made(rec.read)
  PROVE  /\ pass' \in [Runner -> Pass(n)] /\ \A o \in Runner : PassInv(o)'
         /\ pass'[r] = rec /\ \A o \in Runner : o # r => pass'[o] = pass[o]
<1>1. pass' \in [Runner -> Pass(n)] /\ pass'[r] = rec /\ \A o \in Runner : o # r => pass'[o] = pass[o]
  OBVIOUS
<1>2. ASSUME NEW o \in Runner PROVE PassInv(o)'
  <2>1. \A d : Parked(d)' = Parked(d)
    BY DEF Parked
  <2>2. CASE o = r
    BY <1>1, <2>1, <2>2 DEF PassInv, Made
  <2>3. CASE o # r
    BY <1>1, <2>1, <2>3 DEF PassInv, Made
  <2>4. QED
    BY <2>2, <2>3
<1>3. QED
  BY <1>1, <1>2

(* It goes on with the document in hand, or puts it down.                  *)
LEMMA PassGoesOn ==
  ASSUME TypeInv, \A r \in Runner : PassInv(r), UNCHANGED setup,
         NEW r \in Runner, NEW d \in Doc, pass[r].doc = {d},
         NEW at \in PassState \ {"idle", "next", "ADD_ROWS"}, PassTo(r, at)
  PROVE  /\ pass' \in [Runner -> Pass(Len(batches))] /\ \A o \in Runner : PassInv(o)'
         /\ pass'[r] = [pass[r] EXCEPT !.at = at]
         /\ pass'[r].at = at /\ pass'[r].doc = {d}
         /\ pass'[r].source = pass[r].source /\ pass'[r].read = pass[r].read
         /\ \A o \in Runner : o # r => pass'[o] = pass[o]
<1> DEFINE rec == [pass[r] EXCEPT !.at = at]
<1>1. /\ pass[r] \in Pass(Len(batches)) /\ pass \in [Runner -> Pass(Len(batches))]
      /\ pass[r].source \in Parked(d) /\ Len(batches) \in Nat
  BY HasInHand, Numbers
<1>2. pass' = [pass EXCEPT ![r] = rec]
  BY <1>1 DEF PassTo
<1>3. /\ rec \in Pass(Len(batches)) /\ rec.at = at /\ rec.doc = {d}
      /\ rec.source = pass[r].source /\ rec.read = pass[r].read
  BY <1>1 DEF Pass
<1>4. \A e \in rec.doc : rec.source \in Parked(e)
  BY <1>1, <1>3
<1> HIDE DEF rec
<1>5. /\ pass' \in [Runner -> Pass(Len(batches))] /\ \A o \in Runner : PassInv(o)'
      /\ pass'[r] = rec /\ \A o \in Runner : o # r => pass'[o] = pass[o]
  BY <1>1, <1>2, <1>3, <1>4, PassMoves
<1>6. QED
  BY <1>3, <1>5 DEF rec

LEMMA PassPutsDown ==
  ASSUME TypeInv, \A r \in Runner : PassInv(r), UNCHANGED setup, NEW r \in Runner,
         Leaves(r) \/ pass' = [pass EXCEPT ![r] = PassIdle]
  PROVE  /\ pass' \in [Runner -> Pass(Len(batches))] /\ \A o \in Runner : PassInv(o)'
         /\ pass'[r].doc = {} /\ pass'[r].at \in {"idle", "next"}
         /\ \A o \in Runner : o # r => pass'[o] = pass[o]
<1>1. /\ pass[r] \in Pass(Len(batches)) /\ pass \in [Runner -> Pass(Len(batches))]
      /\ Len(batches) \in Nat
  BY Numbers DEF TypeInv, Numbered
<1>2. PassIdle \in Pass(Len(batches)) /\ pass[r].left \in SUBSET Doc
  BY <1>1, Empties DEF Pass
<1>3. PICK rec \in {PassIdle, [PassIdle EXCEPT !.at = "next", !.left = pass[r].left]} :
        pass' = [pass EXCEPT ![r] = rec]
  BY DEF Leaves
<1>4. rec \in Pass(Len(batches)) /\ rec.doc = {} /\ rec.at \in {"idle", "next"}
  <2>1. CASE rec = PassIdle
    BY <1>2, <2>1 DEF PassIdle
  <2>2. CASE rec = [PassIdle EXCEPT !.at = "next", !.left = pass[r].left]
    <3>1. rec = [at |-> "next", left |-> pass[r].left, doc |-> {}, batch |-> 0,
                 source |-> NoPdf, read |-> NoContent]
      BY <2>2 DEF PassIdle
    <3>2. "next" \in PassState /\ {} \in InHand /\ 0 \in 0..Len(batches)
      BY <1>1 DEF PassState, InHand
    <3>3. QED
      BY <1>2, <3>1, <3>2 DEF Pass
  <2>3. QED
    BY <1>3, <2>1, <2>2
<1>5. QED
  BY <1>1, <1>3, <1>4, PassMoves

(* It saves the record of the document in hand.                            *)
LEMMA PassSaves ==
  ASSUME TypeInv, \A d \in Doc : RecordInv(d), UNCHANGED setup,
         NEW r \in Runner, NEW d \in Doc, pass[r].doc = {d}, PassInv(r),
         NEW rec, dir' = [dir EXCEPT ![d] = rec], rec \in Record(Len(batches)),
         rec.prepared = dir[d].prepared, rec.source \in Parked(d),
         rec.merged # NoContent => rec.merged.whole /\ rec.merged.of \in Parked(d)
  PROVE  /\ dir' \in [Doc -> Record(Len(batches))] /\ \A e \in Doc : RecordInv(e)'
         /\ dir'[d] = rec /\ \A e \in Doc : e # d => dir'[e] = dir[e]
<1>1. dir \in [Doc -> Record(Len(batches))]
  BY DEF TypeInv, Numbered
<1>2. /\ dir' \in [Doc -> Record(Len(batches))]
      /\ dir'[d] = rec /\ \A e \in Doc : e # d => dir'[e] = dir[e]
  BY <1>1
<1>3. ASSUME NEW e \in Doc PROVE RecordInv(e)'
  <2>1. Parked(e)' = Parked(e)
    BY DEF Parked
  <2>2. RecordInv(e) /\ RecordInv(d)
    OBVIOUS
  <2>3. CASE e = d
    BY <1>2, <2>1, <2>2, <2>3 DEF RecordInv
  <2>4. CASE e # d
    BY <1>2, <2>1, <2>2, <2>4 DEF RecordInv
  <2>5. QED
    BY <2>3, <2>4
<1>4. QED
  BY <1>2, <1>3

LEMMA SavesAll ==
  ASSUME TypeInv, \A d \in Doc : RecordInv(d), UNCHANGED setup,
         NEW r \in Runner, NEW d \in Doc, pass[r].doc = {d}, PassInv(r),
         NEW st \in DocStates, Saves(r, d, st)
  PROVE  /\ dir' \in [Doc -> Record(Len(batches))] /\ \A e \in Doc : RecordInv(e)'
         /\ dir'[d].state = st /\ \A e \in Doc : e # d => dir'[e] = dir[e]
<1> DEFINE rec == [dir[d] EXCEPT !.state = st, !.batch = pass[r].batch, !.source = pass[r].source]
<1>1. /\ dir[d] \in Record(Len(batches)) /\ dir \in [Doc -> Record(Len(batches))]
      /\ pass[r].batch \in 0..Len(batches)
      /\ pass[r].source \in Pdf \cup {NoPdf} /\ pass[r].source \in Parked(d)
  BY HasInHand DEF Pass
<1>2. dir' = [dir EXCEPT ![d] = rec]
  BY <1>1 DEF Saves, SaveState
<1>3. /\ rec \in Record(Len(batches)) /\ rec.prepared = dir[d].prepared
      /\ rec.source = pass[r].source /\ rec.merged = dir[d].merged /\ rec.state = st
  BY <1>1 DEF Record
<1> HIDE DEF rec
<1>4. rec.merged # NoContent => rec.merged.whole /\ rec.merged.of \in Parked(d)
  BY <1>3 DEF RecordInv
<1>5. QED
  BY <1>1, <1>2, <1>3, <1>4, PassSaves

(* What a pass does to the files takes no clean file for another one.      *)
LEMMA QueueLooksOn ==
  ASSUME TypeInv, QueueInv, UNCHANGED <<setup, inbox, queue>>,
         faults' = faults \/ \E kind \in FaultKind : Fault(kind),
         \A s \in Site : files'[s].clean \in {files[s].clean, NoPdf}
  PROVE  QueueTypeOK' /\ QueueInv'
<1>1. faults' \in [FaultKind -> 0..setup.faults]
  BY FaultTyped, QueueTyped
<1>2. QueueTypeOK'
  BY <1>1 DEF TypeInv, QueueTypeOK
<1>3. queue.at \notin {"idle", "next"} => myFiles'.clean \in {myFiles.clean, NoPdf}
  <2>1. queue.at \notin {"idle", "next"} => mySite \in Site /\ mySite' = mySite
    BY InTheQueue DEF mySite, site, mine
  <2>2. QED
    BY <2>1 DEF myFiles
<1>4. mine' = mine
  BY DEF mine
<1>5. QED
  BY <1>2, <1>3, <1>4 DEF QueueInv, Made

(* A step of a pass that leaves the disk alone.                            *)
LEMMA PassWaits ==
  ASSUME Inv, NEW r \in Runner,
         \/ BeginPass(r) \/ TakeDocument(r) \/ PassCrash(r)
         \/ \E d \in Doc : CallRaises(r, d) \/ StageRaises(r, d)
  PROVE  Inv'
<1> USE DEF Inv
<1>1. UNCHANGED <<diskVars, inbox, queue>>
  BY DEF BeginPass, TakeDocument, PassCrash, CallRaises, StageRaises, queueVars
<1>2. faults' = faults \/ \E kind \in FaultKind : Fault(kind)
  BY DEF FaultKind, BeginPass, TakeDocument, PassCrash, CallRaises, StageRaises, queueVars
<1>3. QueueTypeOK' /\ QueueInv'
  BY <1>1, <1>2, QueueLooksOn DEF diskVars
<1>4. /\ pass[r] \in Pass(Len(batches)) /\ pass \in [Runner -> Pass(Len(batches))]
      /\ Len(batches) \in Nat /\ dir \in [Doc -> Record(Len(batches))] /\ UNCHANGED setup
  BY <1>1, Numbers DEF TypeInv, Numbered, diskVars
<1>5. pass' \in [Runner -> Pass(Len(batches))] /\ \A o \in Runner : PassInv(o)'
  <2>1. CASE \/ PassCrash(r) \/ \E d \in Doc : CallRaises(r, d) \/ StageRaises(r, d)
             \/ pass' = [pass EXCEPT ![r] = PassIdle]
    BY <1>1, <2>1, PassPutsDown DEF PassCrash, CallRaises, StageRaises, diskVars
  <2>2. ASSUME NEW left \in SUBSET Doc, NEW at \in {pass[r].at, "next"},
               at = "next" \/ pass[r].at = "next", pass[r].at \in {"idle", "next"},
               pass' = [pass EXCEPT ![r] = [pass[r] EXCEPT !.at = at, !.left = left]]
        PROVE  pass' \in [Runner -> Pass(Len(batches))] /\ \A o \in Runner : PassInv(o)'
    <3> DEFINE rec == [pass[r] EXCEPT !.at = at, !.left = left]
    <3>1. pass[r].doc = {}
      BY <2>2 DEF PassInv
    <3>2. rec \in Pass(Len(batches)) /\ rec.doc = {} /\ rec.at = "next"
      BY <1>4, <2>2, <3>1 DEF Pass, PassState
    <3> HIDE DEF rec
    <3>3. QED
      BY <1>4, <2>2, <3>2, PassMoves DEF rec
  <2>3. CASE BeginPass(r)
    <3>1. pass' = [pass EXCEPT ![r] = [pass[r] EXCEPT !.at = "next", !.left = {d \in Doc : dir[d] # NoDir}]]
      BY <1>4, <2>3 DEF BeginPass
    <3>2. pass[r].at = "idle"
      BY <2>3 DEF BeginPass
    <3>3. QED
      BY <2>2, <3>1, <3>2
  <2>4. ASSUME TakeDocument(r), NEW d \in pass[r].left,
               pass' = [pass EXCEPT
                 ![r] = IF dir[d].state \in {"absent", "COMPLETED"}
                        THEN [pass[r] EXCEPT !.left = @ \ {d}]
                        ELSE [pass[r] EXCEPT
                                !.left = @ \ {d}, !.doc = {d}, !.at = dir[d].state,
                                !.batch = dir[d].batch, !.source = dir[d].source]]
        PROVE  pass' \in [Runner -> Pass(Len(batches))] /\ \A o \in Runner : PassInv(o)'
    <3>1. pass[r].at = "next" /\ d \in Doc /\ pass[r].left \ {d} \in SUBSET Doc
      BY <1>4, <2>4 DEF TakeDocument, Pass
    <3> DEFINE passedOver == [pass[r] EXCEPT !.left = @ \ {d}]
               taken == [pass[r] EXCEPT !.left = @ \ {d}, !.doc = {d}, !.at = dir[d].state,
                                        !.batch = dir[d].batch, !.source = dir[d].source]
    <3>0. pass' = [pass EXCEPT ![r] = IF dir[d].state \in {"absent", "COMPLETED"}
                                      THEN passedOver ELSE taken]
      BY <2>4
    <3>2. CASE dir[d].state \in {"absent", "COMPLETED"}
      <4>1. passedOver = [pass[r] EXCEPT !.at = "next", !.left = pass[r].left \ {d}]
        BY <1>4, <3>1 DEF Pass
      <4>2. pass' = [pass EXCEPT ![r] = passedOver]
        BY <3>0, <3>2
      <4>3. QED
        BY <2>2, <3>1, <4>1, <4>2
    <3>3. CASE dir[d].state \notin {"absent", "COMPLETED"}
      <4>1. pass' = [pass EXCEPT ![r] = taken]
        BY <3>0, <3>3
      <4>2. /\ dir[d] \in Record(Len(batches)) /\ dir[d].source \in Parked(d)
            /\ dir[d].state \in DocStates /\ {d} \in InHand
        BY <1>4, <3>1, <3>3 DEF RecordInv, Record, InHand
      <4>3. dir[d].state \in PassState /\ dir[d].state \notin {"idle", "next", "ADD_ROWS"}
        BY <4>2 DEF PassState, DocStates
      <4>4. taken \in Pass(Len(batches)) /\ taken.at = dir[d].state /\ taken.doc = {d} /\ taken.source = dir[d].source
        BY <1>4, <3>1, <4>2, <4>3 DEF Pass, Record
      <4> HIDE DEF taken
      <4>5. QED
        BY <1>4, <4>1, <4>2, <4>3, <4>4, PassMoves
    <3>4. QED
      BY <3>2, <3>3
  <2>5. QED
    BY <2>1, <2>3, <2>4 DEF TakeDocument
<1>6. TypeInv' /\ FilesInv' /\ IndexInv' /\ \A d \in Doc : RecordInv(d)'
  <2>1. \A d \in Doc : Parked(d)' = Parked(d)
    BY <1>1 DEF Parked, diskVars
  <2>2. QED
    BY <1>1, <1>3, <1>5, <2>1
    DEF TypeInv, DiskInv, Numbered, FilesInv, IndexInv, RecordInv, Made, diskVars
<1>7. QED
  BY <1>3, <1>5, <1>6

(* A pass passes over a document whose prefix has chunks.                  *)
Skips(r, d) ==
  Ingest(r, d) /\ Advances(r, d, "CLEANUP_ARTIFACTS") /\ UNCHANGED faults

(* A step of a pass that only saves its record and goes on.                *)
LEMMA PassAdvances ==
  ASSUME Inv, NEW r \in Runner, NEW d \in Doc,
         \/ BeginSubmit(r, d) \/ RecordBatch(r, d) \/ Poll(r, d) \/ Merge(r, d)
         \/ FinalizeOutput(r, d) \/ Cleanup(r, d) \/ PassDocumentRow(r, d)
         \/ Skips(r, d)
  PROVE  /\ pass[r].doc = {d}
         /\ Numbered(Len(batches))' /\ \A e \in Doc : RecordInv(e)' /\ \A o \in Runner : PassInv(o)'
         /\ \A e \in Doc : e # d => dir'[e] = dir[e]
         /\ \A o \in Runner : o # r => pass'[o] = pass[o]
         /\ \/ /\ pass'[r].at = dir'[d].state /\ pass'[r].doc = {d}
               /\ pass'[r].source = pass[r].source
            \/ pass'[r].doc = {} /\ pass'[r].at \in {"idle", "next"}
         /\ dir'[d].state = "INGEST_VECTOR_DB" <=> FinalizeOutput(r, d)
         /\ FinalizeOutput(r, d) => pass'[r].at = "INGEST_VECTOR_DB"
         /\ pass'[r].at # "ADD_ROWS" /\ dir'[d].state # "absent"
         /\ UNCHANGED <<setup, batches>>
<1> USE DEF Inv
<1>1. pass[r].doc = {d} /\ UNCHANGED <<setup, batches>>
  BY DEF BeginSubmit, RecordBatch, Poll, Merge, FinalizeOutput, Cleanup, PassDocumentRow, Skips, Ingest, Works
<1>2. /\ pass[r] \in Pass(Len(batches)) /\ dir[d] \in Record(Len(batches))
      /\ dir \in [Doc -> Record(Len(batches))] /\ pass[r].source \in Parked(d)
      /\ pass[r].source \in Pdf
  BY <1>1, HasInHand
<1>3. ASSUME NEW st \in DocStates, Advances(r, d, st)
      PROVE  /\ Numbered(Len(batches))' /\ \A e \in Doc : RecordInv(e)' /\ \A o \in Runner : PassInv(o)'
             /\ \A e \in Doc : e # d => dir'[e] = dir[e]
             /\ \A o \in Runner : o # r => pass'[o] = pass[o]
             /\ pass'[r].at = st /\ dir'[d].state = st
             /\ pass'[r].doc = {d} /\ pass'[r].source = pass[r].source
  <2>1. st \in PassState \ {"idle", "next", "ADD_ROWS"}
    BY DEF PassState, DocStates
  <2>2. Saves(r, d, st) /\ PassTo(r, st)
    BY <1>3 DEF Advances
  <2>3. /\ pass' \in [Runner -> Pass(Len(batches))] /\ \A o \in Runner : PassInv(o)'
        /\ pass'[r].at = st /\ pass'[r].doc = {d} /\ pass'[r].source = pass[r].source
        /\ \A o \in Runner : o # r => pass'[o] = pass[o]
    BY <1>1, <2>1, <2>2, PassGoesOn
  <2>4. /\ dir' \in [Doc -> Record(Len(batches))] /\ \A e \in Doc : RecordInv(e)'
        /\ dir'[d].state = st /\ \A e \in Doc : e # d => dir'[e] = dir[e]
    BY <1>1, <2>2, SavesAll
  <2>5. QED
    BY <1>1, <2>3, <2>4 DEF Numbered
<1>4. ASSUME NEW st \in DocStates, Saves(r, d, st), Leaves(r)
      PROVE  /\ Numbered(Len(batches))' /\ \A e \in Doc : RecordInv(e)' /\ \A o \in Runner : PassInv(o)'
             /\ \A e \in Doc : e # d => dir'[e] = dir[e]
             /\ \A o \in Runner : o # r => pass'[o] = pass[o]
             /\ pass'[r].at \in {"idle", "next"} /\ dir'[d].state = st /\ pass'[r].doc = {}
  BY <1>1, <1>4, PassPutsDown, SavesAll DEF Numbered
<1>5. ASSUME NEW rec, dir' = [dir EXCEPT ![d] = rec], rec \in Record(Len(batches)),
             rec.prepared = dir[d].prepared, rec.source = pass[r].source,
             rec.merged # NoContent => rec.merged.whole /\ rec.merged.of \in Parked(d),
             NEW st \in DocStates, rec.state = st, PassTo(r, st)
      PROVE  /\ Numbered(Len(batches))' /\ \A e \in Doc : RecordInv(e)' /\ \A o \in Runner : PassInv(o)'
             /\ \A e \in Doc : e # d => dir'[e] = dir[e]
             /\ \A o \in Runner : o # r => pass'[o] = pass[o]
             /\ pass'[r].at = st /\ dir'[d].state = st
             /\ pass'[r].doc = {d} /\ pass'[r].source = pass[r].source
  <2>1. st \in PassState \ {"idle", "next", "ADD_ROWS"}
    BY <1>5 DEF PassState, DocStates
  <2>2. /\ pass' \in [Runner -> Pass(Len(batches))] /\ \A o \in Runner : PassInv(o)'
        /\ pass'[r].at = st /\ pass'[r].doc = {d} /\ pass'[r].source = pass[r].source
        /\ \A o \in Runner : o # r => pass'[o] = pass[o]
    <3>1. PassTo(r, st)
      BY <1>5
    <3>2. QED
      BY <1>1, <2>1, <3>1, PassGoesOn
  <2>3. /\ dir' \in [Doc -> Record(Len(batches))] /\ \A e \in Doc : RecordInv(e)'
        /\ dir'[d] = rec /\ \A e \in Doc : e # d => dir'[e] = dir[e]
    <3>1. rec.source \in Parked(d)
      BY <1>2, <1>5
    <3>2. QED
      BY <1>1, <1>5, <3>1, PassSaves
  <2>4. dir'[d].state = st
    BY <1>5, <2>3
  <2>5. QED
    BY <1>1, <2>2, <2>3, <2>4 DEF Numbered
<1>6. \A at \in DocStates : at \notin {"absent", "ADD_ROWS", "idle", "next"}
  BY DEF DocStates
<1>7. CASE \/ BeginSubmit(r, d) \/ RecordBatch(r, d) \/ PassDocumentRow(r, d)
           \/ Skips(r, d)
  <2>1. PICK st \in {"ENRICH_SUBMIT", "ENRICH_POLL", "CLEANUP_ARTIFACTS"} : Advances(r, d, st)
    BY <1>7 DEF BeginSubmit, RecordBatch, PassDocumentRow, Skips
  <2>2. st \in DocStates
    BY DEF DocStates
  <2>3. ~ FinalizeOutput(r, d)
    BY <1>7 DEF BeginSubmit, RecordBatch, PassDocumentRow, Skips, Ingest, FinalizeOutput, Works
  <2>4. QED
    BY <1>1, <1>3, <1>6, <2>1, <2>2, <2>3
<1>8. CASE FinalizeOutput(r, d)
  <2>1. "INGEST_VECTOR_DB" \in DocStates
    BY DEF DocStates
  <2>2. QED
    BY <1>1, <1>3, <1>6, <1>8, <2>1 DEF FinalizeOutput
<1>9. CASE Cleanup(r, d)
  <2>1. "COMPLETED" \in DocStates
    BY DEF DocStates
  <2>2. ~ FinalizeOutput(r, d)
    BY <1>9 DEF Cleanup, FinalizeOutput, Works
  <2>3. QED
    BY <1>1, <1>4, <1>6, <1>9, <2>1, <2>2 DEF Cleanup
<1>10. CASE Merge(r, d)
  <2> DEFINE m == Merged(d)
             st == IF m = NoContent THEN "FAILED" ELSE "FINALIZE_OUTPUT"
             merged == IF m = NoContent THEN dir[d].merged ELSE m
             rec == [dir[d] EXCEPT !.state = st, !.batch = pass[r].batch, !.source = pass[r].source,
                                   !.merged = merged]
  <2>1. dir' = [dir EXCEPT ![d] = rec] /\ PassTo(r, st) /\ dir[d].prepared # NoPdf
    BY <1>2, <1>10 DEF Merge
  <2>2. m # NoContent => m = [of |-> dir[d].prepared, whole |-> TRUE]
    BY DEF Merged
  <2>3. /\ dir[d].prepared \in Parked(d) /\ dir[d].prepared \in Pdf
        /\ dir[d].merged # NoContent => dir[d].merged.whole /\ dir[d].merged.of \in Parked(d)
    BY <2>1, Numbers DEF RecordInv, Parked
  <2> HIDE DEF m
  <2>4. /\ m \in Content \cup {NoContent}
        /\ m # NoContent => m.whole /\ m.of \in Parked(d)
    <3>1. CASE m = NoContent
      BY <3>1
    <3>2. CASE m # NoContent
      <4>1. m = [of |-> dir[d].prepared, whole |-> TRUE]
        BY <2>2, <3>2
      <4>2. m.of = dir[d].prepared /\ m.whole = TRUE
        BY <4>1
      <4>3. m \in Content
        BY <2>3, <4>1 DEF Content
      <4>4. m.whole
        BY <4>2
      <4>5. QED
        BY <2>3, <4>2, <4>3, <4>4
    <3>3. QED
      BY <3>1, <3>2
  <2>5. /\ merged \in Content \cup {NoContent}
        /\ merged # NoContent => merged.whole /\ merged.of \in Parked(d)
        /\ st \in {"FAILED", "FINALIZE_OUTPUT"} /\ st \in DocStates
    BY <1>2, <2>3, <2>4 DEF Record, DocStates
  <2> HIDE DEF merged, st
  <2>6. /\ rec \in Record(Len(batches)) /\ rec.prepared = dir[d].prepared /\ rec.state = st
        /\ rec.source = pass[r].source /\ rec.merged = merged
    BY <1>2, <2>5 DEF Record, Pass
  <2>7. ~ FinalizeOutput(r, d)
    BY <1>10 DEF Merge, FinalizeOutput, Works
  <2> HIDE DEF rec
  <2>8. QED
    BY <1>1, <1>5, <1>6, <2>1, <2>5, <2>6, <2>7
<1>11. CASE Poll(r, d)
  <2> DEFINE id == pass[r].batch
             st == batches[id].status
             rec == [dir[d] EXCEPT !.state = Polled(st), !.batch = id, !.source = pass[r].source,
                                   !.output = IF Polled(st) = "FAILED" THEN @ ELSE id]
  <2>1. ~ FinalizeOutput(r, d)
    BY <1>11 DEF Poll, FinalizeOutput, Works
  <2>2. CASE st = "running"
    <3>1. Saves(r, d, "ENRICH_POLL") /\ Leaves(r) /\ "ENRICH_POLL" \in DocStates
      BY <1>11, <2>2 DEF Poll, DocStates
    <3>2. QED
      BY <1>1, <1>4, <1>6, <2>1, <3>1
  <2>3. CASE st # "running"
    <3>1. dir' = [dir EXCEPT ![d] = rec] /\ PassTo(r, Polled(st))
      BY <1>2, <1>11, <2>3 DEF Poll
    <3>2. Polled(st) \in {"FAILED", "ENRICH_MERGE"} /\ Polled(st) \in DocStates /\ id \in 0..Len(batches)
      BY <1>2 DEF Polled, Pass, DocStates
    <3> HIDE DEF st, id
    <3>3. /\ rec \in Record(Len(batches)) /\ rec.prepared = dir[d].prepared /\ rec.state = Polled(st)
          /\ rec.source = pass[r].source /\ rec.merged = dir[d].merged
      BY <1>2, <3>2 DEF Record, DocStates, Pass
    <3> HIDE DEF rec
    <3>4. rec.merged # NoContent => rec.merged.whole /\ rec.merged.of \in Parked(d)
      BY <3>3 DEF RecordInv
    <3>5. QED
      BY <1>1, <1>5, <1>6, <2>1, <3>1, <3>2, <3>3, <3>4
  <2>4. QED
    BY <2>2, <2>3
<1>12. QED
  BY <1>7, <1>8, <1>9, <1>10, <1>11

Saving(r, d) ==
  \/ BeginSubmit(r, d) \/ RecordBatch(r, d) \/ Poll(r, d) \/ Merge(r, d)
  \/ FinalizeOutput(r, d) \/ Cleanup(r, d) \/ PassDocumentRow(r, d)
  \/ Skips(r, d)

(* What such a step does to the files.                                     *)
LEMMA PassWrites ==
  ASSUME Inv, NEW r \in Runner, NEW d \in Doc, Saving(r, d)
  PROVE  /\ files' \in [Site -> Files]
         /\ \A s \in Site : /\ files'[s].clean \in {files[s].clean, NoPdf}
                            /\ \/ files'[s].final \in {files[s].final, NoContent}
                               \/ /\ FinalizeOutput(r, d) /\ s = hisSite(r)
                                  /\ files'[s].final = dir[d].merged
         /\ FinalizeOutput(r, d) => dir[d].merged.whole /\ dir[d].merged.of \in Parked(d)
<1>1. pass[r].doc = {d}
  BY DEF Saving, BeginSubmit, RecordBatch, Poll, Merge, FinalizeOutput, Cleanup, PassDocumentRow,
         Skips, Ingest, Works
<1>2. /\ files \in [Site -> Files] /\ hisSite(r) \in Site /\ files[hisSite(r)] \in Files
      /\ dir[d] \in Record(Len(batches)) /\ \A s \in Site : files[s] \in Files
  BY <1>1, HasInHand DEF Inv
<1>3. CASE FinalizeOutput(r, d)
  <2> DEFINE f == [files[hisSite(r)] EXCEPT !.final = dir[d].merged]
  <2>1. files' = [files EXCEPT ![hisSite(r)] = f] /\ dir[d].merged # NoContent
    BY <1>2, <1>3 DEF FinalizeOutput
  <2>2. f \in Files /\ f.clean = files[hisSite(r)].clean /\ f.final = dir[d].merged
    BY <1>2 DEF Files, Record
  <2>3. dir[d].merged.whole /\ dir[d].merged.of \in Parked(d)
    BY <2>1 DEF Inv, RecordInv
  <2> HIDE DEF f
  <2>4. QED
    BY <1>2, <1>3, <2>1, <2>2, <2>3
<1>4. CASE Cleanup(r, d)
  <2>1. files' = [files EXCEPT ![hisSite(r)] = NoFiles] /\ ~ FinalizeOutput(r, d)
    BY <1>4 DEF Cleanup, CleanUp, FinalizeOutput, Works
  <2>2. NoFiles \in Files /\ NoFiles.clean = NoPdf /\ NoFiles.final = NoContent
    BY Empties DEF NoFiles
  <2>3. QED
    BY <1>2, <2>1, <2>2
<1>5. CASE ~ FinalizeOutput(r, d) /\ ~ Cleanup(r, d)
  <2>1. files' = files
    BY <1>5 DEF Saving, BeginSubmit, RecordBatch, Poll, Merge, PassDocumentRow, Skips, Ingest
  <2>2. QED
    BY <1>2, <1>5, <2>1
<1>6. QED
  BY <1>3, <1>4, <1>5

LEMMA SavingKeepsInv ==
  ASSUME Inv, NEW r \in Runner, NEW d \in Doc, Saving(r, d)
  PROVE  Inv'
<1> USE DEF Inv
<1>1. UNCHANGED <<inbox, queue, faults, quarantined, index, setup, batches>>
  BY DEF Saving, BeginSubmit, RecordBatch, Poll, Merge, FinalizeOutput, Cleanup, PassDocumentRow,
         Skips, Ingest, queueVars
<1>2. catalogue' = catalogue \/ catalogue' = catalogue \cup {d}
  BY DEF Saving, BeginSubmit, RecordBatch, Poll, Merge, FinalizeOutput, Cleanup, PassDocumentRow,
         Skips, Ingest
<1>3. /\ Numbered(Len(batches))' /\ \A e \in Doc : RecordInv(e)' /\ \A o \in Runner : PassInv(o)'
  BY PassAdvances DEF Saving
<1>4. QueueTypeOK' /\ QueueInv'
  BY <1>1, PassWrites, QueueLooksOn
<1>5. FilesInv'
  <2>1. ASSUME NEW s \in Site, files'[s].final # NoContent PROVE Made(files'[s].final)
    BY <2>1, PassWrites DEF FilesInv, Made
  <2>2. QED
    BY <2>1 DEF FilesInv, Made
<1>6. TypeInv' /\ IndexInv'
  BY <1>1, <1>2, <1>3, <1>4, PassWrites DEF TypeInv, DiskInv, IndexInv, Made
<1>7. QED
  BY <1>3, <1>4, <1>5, <1>6

(* The other steps of a pass that change what others see.                  *)
LEMMA SubmitKeepsInv ==
  ASSUME Inv, NEW r \in Runner, NEW d \in Doc, Submit(r, d)
  PROVE  /\ Inv' /\ UNCHANGED <<setup, files, dir, index, queue, faults>>
         /\ pass[r].doc = {d} /\ pass'[r].doc = {d} /\ pass'[r].at = "SUBMITTED"
         /\ \A o \in Runner : o # r => pass'[o] = pass[o]
<1> USE DEF Inv
<1>1. /\ UNCHANGED <<setup, files, dir, quarantined, index, catalogue, inbox, queue, faults>>
      /\ pass[r].doc = {d} /\ dir[d].prepared # NoPdf
  BY DEF Submit, Works, queueVars
<1>2. /\ pass[r] \in Pass(Len(batches)) /\ pass \in [Runner -> Pass(Len(batches))]
      /\ dir \in [Doc -> Record(Len(batches))] /\ pass[r].source \in Parked(d)
      /\ Len(batches) \in Nat /\ batches \in Seq(Batch)
  BY <1>1, HasInHand, Numbers DEF TypeInv, DiskInv
<1>3. [of |-> dir[d].prepared, status |-> "running"] \in Batch
  BY <1>1, <1>2 DEF Record, Batch
<1>4. batches' \in Seq(Batch) /\ Len(batches') = Len(batches) + 1
  BY <1>2, <1>3 DEF Submit, CreateBatch
<1> DEFINE n == Len(batches')
           rec == [pass[r] EXCEPT !.at = "SUBMITTED", !.batch = n]
<1>5. /\ n \in Nat /\ n = Len(batches) + 1 /\ pass \in [Runner -> Pass(n)]
      /\ pass[r] \in Pass(n) /\ dir \in [Doc -> Record(n)]
  <2>1. Numbered(Len(batches) + 1)
    BY <1>2, MoreBatches DEF Numbered
  <2>2. QED
    BY <1>2, <1>4, <2>1 DEF Numbered
<1>6. pass' = [pass EXCEPT ![r] = rec]
  BY <1>2 DEF Submit
<1> HIDE DEF n
<1>7. n \in 0..n /\ "SUBMITTED" \in PassState
  BY <1>5 DEF PassState
<1>8. rec \in Pass(n) /\ rec.at = "SUBMITTED" /\ rec.doc = {d} /\ rec.source = pass[r].source
  BY <1>1, <1>5, <1>7 DEF Pass
<1> HIDE DEF rec
<1>9. /\ pass' \in [Runner -> Pass(n)] /\ \A o \in Runner : PassInv(o)'
      /\ pass'[r] = rec /\ \A o \in Runner : o # r => pass'[o] = pass[o]
  BY <1>1, <1>2, <1>5, <1>6, <1>8, PassMoves
<1>10. Numbered(Len(batches))'
  BY <1>1, <1>5, <1>9 DEF Numbered, n
<1>11. QueueTypeOK' /\ QueueInv'
  <2>1. \A s \in Site : files'[s].clean \in {files[s].clean, NoPdf}
    BY <1>1
  <2>2. QED
    BY <1>1, <2>1, QueueLooksOn
<1>12. TypeInv'
  BY <1>1, <1>4, <1>10, <1>11 DEF TypeInv, DiskInv
<1>13. FilesInv' /\ IndexInv' /\ \A e \in Doc : RecordInv(e)'
  BY <1>1 DEF FilesInv, IndexInv, RecordInv, Parked, Made
<1>14. QED
  BY <1>1, <1>8, <1>9, <1>11, <1>12, <1>13

(* A pass reads the final file of a document that, it believes, has no     *)
(* chunks yet.                                                             *)
Reads(r, d) ==
  /\ Ingest(r, d)
  /\ pass' = [pass EXCEPT ![r].at = "ADD_ROWS", ![r].read = files[hisSite(r)].final]
  /\ Missed(d)
  /\ UNCHANGED dir

LEMMA ReadsKeepsInv ==
  ASSUME Inv, NEW r \in Runner, NEW d \in Doc, Reads(r, d)
  PROVE  /\ Inv' /\ UNCHANGED <<diskVars, queue>>
         /\ faults' = faults \/ \E kind \in FaultKind : Fault(kind)
         /\ (faults' = faults /\ ~ Skipped(d)) \/ Fault("miscount")
         /\ pass[r].doc = {d} /\ pass[r].at = "INGEST_VECTOR_DB"
         /\ pass'[r].doc = {d} /\ pass'[r].at = "ADD_ROWS"
         /\ pass'[r].read = files[hisSite(r)].final /\ pass'[r].read # NoContent
         /\ pass'[r].source = pass[r].source
         /\ \A o \in Runner : o # r => pass'[o] = pass[o]
<1> USE DEF Inv
<1>1. /\ UNCHANGED <<diskVars, inbox, queue>> /\ UNCHANGED setup
      /\ pass[r].doc = {d} /\ pass[r].at = "INGEST_VECTOR_DB" /\ files[hisSite(r)].final # NoContent
      /\ (faults' = faults /\ ~ Skipped(d)) \/ Fault("miscount")
      /\ faults' = faults \/ \E kind \in FaultKind : Fault(kind)
  BY DEF Reads, Ingest, Missed, Works, FaultKind, diskVars
<1>2. /\ pass[r] \in Pass(Len(batches)) /\ pass \in [Runner -> Pass(Len(batches))]
      /\ pass[r].source \in Parked(d) /\ hisSite(r) \in Site /\ files[hisSite(r)] \in Files
      /\ Len(batches) \in Nat
  BY <1>1, HasInHand, Numbers
<1>3. Made(files[hisSite(r)].final) /\ files[hisSite(r)].final \in Content \cup {NoContent}
  BY <1>1, <1>2 DEF FilesInv, Files
<1> DEFINE rec == [pass[r] EXCEPT !.at = "ADD_ROWS", !.read = files[hisSite(r)].final]
<1>4. pass' = [pass EXCEPT ![r] = rec]
  BY <1>2 DEF Reads
<1>5. /\ rec \in Pass(Len(batches)) /\ rec.at = "ADD_ROWS" /\ rec.doc = {d}
      /\ rec.source = pass[r].source /\ rec.read = files[hisSite(r)].final
  BY <1>1, <1>2, <1>3 DEF Pass, PassState
<1> HIDE DEF rec
<1>6. /\ pass' \in [Runner -> Pass(Len(batches))] /\ \A o \in Runner : PassInv(o)'
      /\ pass'[r] = rec /\ \A o \in Runner : o # r => pass'[o] = pass[o]
  BY <1>1, <1>2, <1>3, <1>4, <1>5, PassMoves
<1>7. QueueTypeOK' /\ QueueInv'
  <2>1. \A s \in Site : files'[s].clean \in {files[s].clean, NoPdf}
    BY <1>1 DEF diskVars
  <2>2. QED
    BY <1>1, <2>1, QueueLooksOn
<1>8. TypeInv' /\ FilesInv' /\ IndexInv' /\ \A e \in Doc : RecordInv(e)'
  BY <1>1, <1>6, <1>7
  DEF TypeInv, DiskInv, Numbered, FilesInv, IndexInv, RecordInv, Parked, Made, diskVars
<1>9. QED
  BY <1>1, <1>5, <1>6, <1>7, <1>8

LEMMA AddsKeepsInv ==
  ASSUME Inv, NEW r \in Runner, NEW d \in Doc, PassAddRows(r, d)
  PROVE  /\ Inv' /\ UNCHANGED <<setup, files, dir, queue, faults>>
         /\ pass[r].doc = {d} /\ pass[r].at = "ADD_ROWS"
         /\ pass'[r].doc = {d} /\ pass'[r].at = "DOCUMENT_ROW"
         /\ FileChunks(d, pass[r].read) /\ Made(pass[r].read)
         /\ pass[r].read \in Content \cup {NoContent}
         /\ \A o \in Runner : o # r => pass'[o] = pass[o]
<1> USE DEF Inv
<1>1. /\ UNCHANGED <<setup, files, dir, quarantined, batches, catalogue, inbox, queue, faults>>
      /\ pass[r].doc = {d} /\ pass[r].at = "ADD_ROWS" /\ FileChunks(d, pass[r].read)
      /\ PassTo(r, "DOCUMENT_ROW")
  BY DEF PassAddRows, Works, queueVars
<1>2. "DOCUMENT_ROW" \in PassState \ {"idle", "next", "ADD_ROWS"}
  BY DEF PassState
<1>3. /\ pass' \in [Runner -> Pass(Len(batches))] /\ \A o \in Runner : PassInv(o)'
      /\ pass'[r].at = "DOCUMENT_ROW" /\ pass'[r].doc = {d}
      /\ \A o \in Runner : o # r => pass'[o] = pass[o]
  <2>1. /\ TypeInv /\ \A o \in Runner : PassInv(o)
        /\ "DOCUMENT_ROW" \in PassState \ {"idle", "next", "ADD_ROWS"}
        /\ UNCHANGED setup /\ pass[r].doc = {d} /\ PassTo(r, "DOCUMENT_ROW")
    BY <1>1, <1>2
  <2>2. QED
    BY <2>1, PassGoesOn
<1>4. Made(pass[r].read) /\ pass[r].read \in Content \cup {NoContent}
  BY <1>1, HasInHand DEF PassInv, Pass
<1>5. index' \in [Doc -> Seq(Content)] /\ IndexInv'
  BY <1>1, <1>4, Chunks, ChunksAreMade
<1>6. QueueTypeOK' /\ QueueInv'
  <2>1. \A s \in Site : files'[s].clean \in {files[s].clean, NoPdf}
    BY <1>1
  <2>2. QED
    BY <1>1, <2>1, QueueLooksOn
<1>7. TypeInv' /\ FilesInv' /\ \A e \in Doc : RecordInv(e)'
  BY <1>1, <1>3, <1>5, <1>6 DEF TypeInv, DiskInv, Numbered, FilesInv, RecordInv, Parked, Made
<1>8. QED
  BY <1>1, <1>3, <1>4, <1>5, <1>6, <1>7

LEMMA QuarantineKeepsInv ==
  ASSUME Inv, NEW r \in Runner, NEW d \in Doc, QuarantineFailed(r, d)
  PROVE  /\ Inv' /\ UNCHANGED <<setup, files, index, queue, faults>>
         /\ pass[r].doc = {d} /\ pass[r].at = "FAILED"
         /\ pass'[r].doc = {} /\ pass'[r].at \in {"idle", "next"}
         /\ dir'[d].state = "absent" /\ \A e \in Doc : e # d => dir'[e] = dir[e]
         /\ \A o \in Runner : o # r => pass'[o] = pass[o]
<1> USE DEF Inv
<1>1. /\ UNCHANGED <<setup, files, batches, index, catalogue, inbox, queue, faults>>
      /\ pass[r].doc = {d} /\ pass[r].at = "FAILED" /\ Leaves(r)
      /\ dir' = [dir EXCEPT ![d] = NoDir] /\ quarantined' = quarantined \cup {d}
  BY DEF QuarantineFailed, Quarantine, Works, queueVars
<1>2. /\ pass' \in [Runner -> Pass(Len(batches))] /\ \A o \in Runner : PassInv(o)'
      /\ pass'[r].doc = {} /\ pass'[r].at \in {"idle", "next"}
      /\ \A o \in Runner : o # r => pass'[o] = pass[o]
  BY <1>1, PassPutsDown
<1>3. NoDir \in Record(Len(batches)) /\ dir \in [Doc -> Record(Len(batches))]
  BY Empties, Numbers DEF TypeInv, Numbered
<1>4. /\ dir' \in [Doc -> Record(Len(batches))] /\ dir'[d] = NoDir
      /\ \A e \in Doc : e # d => dir'[e] = dir[e]
  BY <1>1, <1>3
<1>5. NoDir.state = "absent" /\ NoDir.prepared = NoPdf /\ NoDir.merged = NoContent
  BY DEF NoDir
<1>6. ASSUME NEW e \in Doc PROVE RecordInv(e)'
  <2>1. Parked(e)' = Parked(e)
    BY <1>1 DEF Parked
  <2>2. CASE e = d
    BY <1>4, <1>5, <2>2 DEF RecordInv
  <2>3. CASE e # d
    BY <1>4, <2>1, <2>3 DEF RecordInv
  <2>4. QED
    BY <2>2, <2>3
<1>7. QueueTypeOK' /\ QueueInv'
  <2>1. \A s \in Site : files'[s].clean \in {files[s].clean, NoPdf}
    BY <1>1
  <2>2. QED
    BY <1>1, <2>1, QueueLooksOn
<1>8. TypeInv' /\ FilesInv' /\ IndexInv'
  BY <1>1, <1>2, <1>4, <1>7 DEF TypeInv, DiskInv, Numbered, FilesInv, IndexInv, Made
<1>9. QED
  BY <1>1, <1>2, <1>4, <1>5, <1>6, <1>7, <1>8

LEMMA BatchEndsKeepsInv ==
  ASSUME Inv, NEW b \in DOMAIN batches, BatchEnds(b), UNCHANGED <<queueVars, pass>>
  PROVE  Inv' /\ UNCHANGED <<setup, files, dir, index, queue, faults, pass>>
<1> USE DEF Inv
<1>1. UNCHANGED <<setup, files, dir, quarantined, index, catalogue, inbox, queue, faults, pass>>
  BY DEF BatchEnds, queueVars
<1>2. PICK outcome \in BatchOutcome : batches' = [batches EXCEPT ![b].status = outcome]
  BY DEF BatchEnds
<1>3. /\ batches \in Seq(Batch) /\ b \in 1..Len(batches) /\ batches[b] \in Batch
      /\ Len(batches) \in Nat
  BY Numbers DEF TypeInv, DiskInv
<1>4. [batches[b] EXCEPT !.status = outcome] \in Batch
  BY <1>3 DEF Batch
<1>5. batches' = [batches EXCEPT ![b] = [batches[b] EXCEPT !.status = outcome]]
  BY <1>2, <1>3
<1>6. batches' \in Seq(Batch) /\ Len(batches') = Len(batches)
  BY <1>3, <1>4, <1>5
<1>7. QueueTypeOK' /\ QueueInv'
  <2>1. \A s \in Site : files'[s].clean \in {files[s].clean, NoPdf}
    BY <1>1
  <2>2. QED
    BY <1>1, <2>1, QueueLooksOn
<1>8. TypeInv' /\ FilesInv' /\ IndexInv'
  BY <1>1, <1>6, <1>7 DEF TypeInv, DiskInv, Numbered, FilesInv, IndexInv, Made
<1>9. (\A e \in Doc : RecordInv(e)') /\ \A o \in Runner : PassInv(o)'
  BY <1>1 DEF RecordInv, PassInv, Parked, Made
<1>10. QED
  BY <1>1, <1>7, <1>8, <1>9

(* A step is one of these.                                                 *)
LEMMA Steps ==
  ASSUME Next
  PROVE  \/ QueueStep /\ UNCHANGED pass
         \/ \E b \in DOMAIN batches : BatchEnds(b) /\ UNCHANGED <<queueVars, pass>>
         \/ \E r \in Runner :
              \/ BeginPass(r) \/ TakeDocument(r) \/ PassCrash(r)
              \/ \E d \in Doc : CallRaises(r, d) \/ StageRaises(r, d)
         \/ \E r \in Runner, d \in Doc :
              \/ Saving(r, d) \/ Submit(r, d) \/ Reads(r, d) \/ PassAddRows(r, d)
              \/ QuarantineFailed(r, d)
<1>1. ASSUME NEW r \in Runner, NEW d \in Doc, Advance(r, d)
      PROVE  \/ Saving(r, d) \/ Submit(r, d) \/ Reads(r, d) \/ PassAddRows(r, d)
             \/ QuarantineFailed(r, d) \/ StageRaises(r, d)
  BY <1>1 DEF Advance, Saving, Ingest, Skips, Reads
<1>2. QED
  BY <1>1 DEF Next, PassStep

LEMMA InvKept ==
  ASSUME Inv, [Next]_vars
  PROVE  Inv'
<1>1. CASE Next
  <2>1. CASE QueueStep /\ UNCHANGED pass
    BY <2>1, QueueKeepsInv
  <2>2. ASSUME NEW b \in DOMAIN batches, BatchEnds(b), UNCHANGED <<queueVars, pass>>
        PROVE  Inv'
    BY <2>2, BatchEndsKeepsInv
  <2>3. ASSUME NEW r \in Runner,
               \/ BeginPass(r) \/ TakeDocument(r) \/ PassCrash(r)
               \/ \E d \in Doc : CallRaises(r, d) \/ StageRaises(r, d)
        PROVE  Inv'
    BY <2>3, PassWaits
  <2>4. ASSUME NEW r \in Runner, NEW d \in Doc,
               \/ Saving(r, d) \/ Submit(r, d) \/ Reads(r, d) \/ PassAddRows(r, d)
               \/ QuarantineFailed(r, d)
        PROVE  Inv'
    BY <2>4, SavingKeepsInv, SubmitKeepsInv, ReadsKeepsInv, AddsKeepsInv, QuarantineKeepsInv
  <2>5. QED
    BY <1>1, <2>1, <2>2, <2>3, <2>4, Steps
<1>2. CASE UNCHANGED vars
  BY <1>2 DEF Inv, TypeInv, DiskInv, Numbered, QueueTypeOK, QueueInv, FilesInv, IndexInv, RecordInv,
              PassInv, Parked, Made, mine, myFiles, mySite, site, vars, diskVars, queueVars
<1>3. QED
  BY <1>1, <1>2

LEMMA InvInit ==
  ASSUME Init
  PROVE  Inv
<1>1. /\ setup \in Setups /\ files = [s \in Site |-> NoFiles] /\ dir = [d \in Doc |-> NoDir]
      /\ quarantined = {} /\ batches = <<>> /\ index = [d \in Doc |-> <<>>] /\ catalogue = {}
      /\ inbox = setup.inbox /\ queue = QueueIdle
      /\ faults = [kind \in FaultKind |-> 0] /\ pass = [r \in Runner |-> PassIdle]
  BY DEF Init, DiskInit, QueueInit
<1>2. DiskInv
  BY <1>1, Empties DEF DiskInv
<1>3. Numbered(Len(batches))
  BY <1>1, Empties DEF Numbered
<1>4. setup.inbox \subseteq Pdf /\ 0 \in 0..setup.faults
  BY <1>1, Constants
<1>5. QueueTypeOK
  BY <1>1, <1>4 DEF QueueTypeOK, QueueIdle, QueueState
<1>6. QueueInv
  BY <1>1 DEF QueueInv, QueueIdle, Direct, Parking
<1>7. (\A d \in Doc : RecordInv(d)) /\ \A r \in Runner : PassInv(r)
  BY <1>1 DEF RecordInv, NoDir, PassInv, PassIdle
<1>8. FilesInv
  BY <1>1 DEF FilesInv, NoFiles
<1>9. IndexInv
  BY <1>1 DEF IndexInv
<1>10. QED
  BY <1>2, <1>3, <1>5, <1>6, <1>7, <1>8, <1>9 DEF Inv, TypeInv

LEMMA InvAlways == Spec => []Inv
<1>1. Init => Inv
  BY InvInit
<1>2. Inv /\ [Next]_vars => Inv'
  BY InvKept
<1>3. QED
  BY <1>1, <1>2, PTL DEF Spec

(* Every variable stays within its type, and a pass has one document in    *)
(* hand at most.                                                           *)
THEOREM IngestTypes == Spec => []IngestTypeOK
<1>1. Inv => IngestTypeOK
  <2>1. SUFFICES ASSUME Inv PROVE IngestTypeOK
    OBVIOUS
  <2>2. dir \in [Doc -> Record(Len(batches))] /\ pass \in [Runner -> Pass(Len(batches))]
    BY <2>1 DEF Inv, TypeInv, Numbered
  <2>3. DiskTypeOK
    <3>1. ASSUME NEW d \in Doc
          PROVE  /\ dir[d].state \in DocStates \cup {"absent"}
                 /\ {dir[d].batch, dir[d].output} \subseteq 0..Len(batches)
                 /\ {dir[d].source, dir[d].prepared} \subseteq Pdf \cup {NoPdf}
                 /\ dir[d].merged \in Content \cup {NoContent}
      BY <2>2 DEF Record
    <3>2. DOMAIN dir = Doc
      BY <2>2
    <3>3. QED
      BY <2>1, <3>1, <3>2, Zenon DEF Inv, TypeInv, DiskInv, DiskTypeOK, Files, Batch
  <2>4. ASSUME NEW r \in Runner PROVE Cardinality(pass[r].doc) <= 1
    <3>1. pass[r].doc = {} \/ \E d : pass[r].doc = {d}
      BY <2>2 DEF Pass, InHand
    <3>2. \A d : Cardinality({d}) = 1
      BY FS_Singleton
    <3>3. Cardinality({}) = 0
      BY FS_EmptySet
    <3>4. Cardinality(pass[r].doc) \in {0, 1}
      BY <3>1, <3>2, <3>3
    <3>5. QED
      BY <3>4
  <2>5. PassTypeOK
    BY <2>2, <2>4 DEF PassTypeOK, Pass, InHand
  <2>6. QED
    BY <2>1, <2>3, <2>5 DEF Inv, TypeInv, IngestTypeOK
<1>2. QED
  BY <1>1, InvAlways, PTL

-----------------------------------------------------------------------------
(* What the index holds of a document.                                     *)

Alone ==
  faults.overlap = 0 =>
    \A r, o \in Runner : pass[r].at # "idle" /\ pass[o].at # "idle" => r = o

(* With paths of its own, a file finds there what was made of its document. *)
OwnFiles ==
  Apart =>
    /\ \A p \in setup.inbox :
         files[site[p]].final # NoContent => DocOf[files[site[p]].final.of] = DocOf[p]
    /\ queue.at = "ADD_ROWS" => DocOf[queue.read.of] = myDoc

Indexing == {"INGEST_VECTOR_DB", "ADD_ROWS", "DOCUMENT_ROW"}

(* With shared paths, whoever wrote the final file has it indexed before   *)
(* another document is taken up: no record waits there.                    *)
InOrder ==
  Undisturbed =>
    /\ \A d \in Doc : dir[d].state = "INGEST_VECTOR_DB" =>
         \E r \in Runner : pass[r].doc = {d} /\ pass[r].at \in Indexing
    /\ \A r \in Runner : \A d \in pass[r].doc :
         pass[r].at = "INGEST_VECTOR_DB" =>
           /\ files[hisSite(r)].final # NoContent
           /\ DocOf[files[hisSite(r)].final.of] = d

OfItsDoc ==
  Apart \/ Undisturbed =>
    /\ \A r \in Runner : \A d \in pass[r].doc :
         pass[r].at = "ADD_ROWS" => DocOf[pass[r].read.of] = d
    /\ \A d \in Doc : \A i \in DOMAIN index[d] : DocOf[index[d][i].of] = d

Once ==
  faults.overlap = 0 /\ faults.miscount = 0 /\ OneWay =>
    /\ queue.at = "ADD_ROWS" => index[myDoc] = <<>>
    /\ \A r \in Runner : \A d \in pass[r].doc : pass[r].at = "ADD_ROWS" => index[d] = <<>>
    /\ \A d \in Doc : Len(index[d]) <= 1

IndexedRight == Alone /\ OwnFiles /\ InOrder /\ OfItsDoc /\ Once

LEMMA Faults ==
  ASSUME Inv
  PROVE  /\ faults \in [FaultKind -> Nat]
         /\ \A kind \in FaultKind :
              Fault(kind) => /\ faults' \in [FaultKind -> Nat]
                             /\ faults'[kind] > 0
                             /\ \A k \in FaultKind : faults'[k] >= faults[k]
<1>1. faults \in [FaultKind -> Nat] /\ TypeInv
  BY Numbers DEF Inv
<1>2. ASSUME NEW kind \in FaultKind, Fault(kind)
      PROVE  /\ faults' \in [FaultKind -> Nat]
             /\ faults'[kind] > 0
             /\ \A k \in FaultKind : faults'[k] >= faults[k]
  <2>1. faults' = [faults EXCEPT ![kind] = faults[kind] + 1]
    BY <1>1, <1>2, FaultTyped
  <2>2. \A k \in FaultKind : faults[k] \in Nat
    BY <1>1
  <2>3. \A k \in FaultKind : faults'[k] = IF k = kind THEN faults[k] + 1 ELSE faults[k]
    BY <1>1, <2>1
  <2>4. faults' \in [FaultKind -> Nat]
    BY <1>1, <2>1, <2>2
  <2>5. QED
    BY <2>2, <2>3, <2>4
<1>3. QED
  BY <1>1, <1>2

(* Whatever has been disturbed stays disturbed.                            *)
LEMMA Disturbance ==
  ASSUME Inv, UNCHANGED setup,
         faults' = faults \/ \E kind \in FaultKind : Fault(kind)
  PROVE  /\ Apart' = Apart /\ OneWay' = OneWay
         /\ Undisturbed' => Undisturbed /\ faults' = faults
         /\ Undisturbed => faults.overlap = 0
         /\ \A k \in FaultKind : faults'[k] = 0 => faults[k] = 0
         /\ faults'.overlap = 0 => faults.overlap = 0
         /\ faults'.miscount = 0 => faults.miscount = 0
         /\ Fault("overlap") => faults'.overlap # 0
         /\ Fault("miscount") => faults'.miscount # 0
<1>1. Apart' = Apart /\ OneWay' = OneWay
  BY DEF Apart, OneWay, site
<1>2. \A k \in FaultKind : faults[k] \in Nat
  BY Faults
<1>3. Undisturbed' => faults' = faults
  BY Faults DEF Undisturbed
<1>4. Undisturbed' => Undisturbed
  BY <1>3 DEF Undisturbed
<1>5. "overlap" \in FaultKind /\ "miscount" \in FaultKind
  BY DEF FaultKind
<1>6. ASSUME NEW k \in FaultKind, faults'[k] = 0 PROVE faults[k] = 0
  <2>1. CASE faults' = faults
    BY <1>6, <2>1
  <2>2. CASE \E kind \in FaultKind : Fault(kind)
    <3>1. faults'[k] >= faults[k] /\ faults'[k] \in Nat
      BY <2>2, Faults
    <3>2. QED
      BY <1>2, <1>6, <3>1
  <2>3. QED
    BY <2>1, <2>2
<1>7. \A k \in FaultKind : Fault(k) => faults'[k] # 0
  BY Faults
<1>8. QED
  BY <1>1, <1>3, <1>4, <1>5, <1>6, <1>7 DEF Undisturbed

(* What a step of the queue does, as far as the index is concerned.        *)
LEMMA QueueFacts ==
  ASSUME Inv, QueueStep, UNCHANGED pass
  PROVE  /\ UNCHANGED setup
         /\ faults' = faults \/ \E kind \in FaultKind : Fault(kind)
         /\ \A s \in Site :
              \/ files'[s].final \in {files[s].final, NoContent}
              \/ s = mySite /\ mine \in setup.inbox /\ files'[s].final.of = mine
         /\ Sync \cap setup.inbox = {} =>
              /\ \A s \in Site : files'[s].final = files[s].final
              /\ ~ AddRows
         /\ \A d \in Doc : dir'[d].state = "INGEST_VECTOR_DB" => dir[d].state = "INGEST_VECTOR_DB"
         /\ queue'.at = "ADD_ROWS" =>
              /\ index' = index /\ myDoc' = myDoc
              /\ ~ Skipped(myDoc) \/ Fault("miscount")
              /\ mine \in setup.inbox /\ queue'.read = files[site[mine]].final
              /\ queue'.read # NoContent
         /\ \/ index' = index
            \/ /\ AddRows /\ queue.at = "ADD_ROWS" /\ FileChunks(myDoc, queue.read)
               /\ myDoc \in Doc /\ mine \in Sync /\ mine \in setup.inbox /\ mine \in Pdf
               /\ Made(queue.read) /\ queue.read \in Content \cup {NoContent}
<1> USE DEF Inv
<1>1. UNCHANGED setup /\ (faults' = faults \/ \E kind \in FaultKind : Fault(kind))
  BY QueueFrame
<1>2. queue.at \in Direct => mine \in Sync /\ mine \in setup.inbox
  BY InTheQueue DEF QueueInv, Direct
<1>3. ASSUME NEW s \in Site
      PROVE  /\ \/ files'[s].final \in {files[s].final, NoContent}
                \/ s = mySite /\ mine \in setup.inbox /\ files'[s].final.of = mine
             /\ Sync \cap setup.inbox = {} => files'[s].final = files[s].final
  <2>1. CASE files' = files
    BY <2>1
  <2>2. CASE ExportText \/ CleanElements \/ DetectSections \/ EnrichContext \/ CleanupArtifacts
    <3>1. PICK f \in Files :
            /\ files' = [files EXCEPT ![mySite] = f]
            /\ \/ f.final = myFiles.final \/ EnrichContext
               \/ CleanupArtifacts /\ f.final = NoContent
            /\ EnrichContext => f.final.of = mine
      BY <2>2, QueueWrites
    <3>2. mySite \in Site /\ files \in [Site -> Files]
      BY <2>2, QueueWrites
    <3>3. EnrichContext \/ CleanupArtifacts => queue.at \in Direct
      BY DEF EnrichContext, CleanupArtifacts, Direct
    <3>4. files'[s] = IF s = mySite THEN f ELSE files[s]
      BY <3>1, <3>2
    <3>5. CASE s # mySite
      BY <3>4, <3>5
    <3>6. CASE s = mySite /\ f.final = myFiles.final
      BY <3>4, <3>6 DEF myFiles
    <3>7. CASE s = mySite /\ EnrichContext
      BY <1>2, <3>1, <3>3, <3>4, <3>7
    <3>8. CASE s = mySite /\ CleanupArtifacts /\ f.final = NoContent
      BY <1>2, <3>3, <3>4, <3>8
    <3>9. QED
      BY <3>1, <3>5, <3>6, <3>7, <3>8
  <2>3. QED
    BY <2>1, <2>2, QueueFrame
<1>4. AddRows => /\ queue.at = "ADD_ROWS" /\ FileChunks(myDoc, queue.read)
                 /\ myDoc \in Doc /\ mine \in Sync /\ mine \in setup.inbox /\ mine \in Pdf
                 /\ Made(queue.read) /\ queue.read \in Content \cup {NoContent}
  <2>1. SUFFICES ASSUME AddRows
                 PROVE  /\ queue.at = "ADD_ROWS" /\ FileChunks(myDoc, queue.read)
                        /\ myDoc \in Doc /\ mine \in Sync /\ mine \in setup.inbox /\ mine \in Pdf
                        /\ Made(queue.read) /\ queue.read \in Content \cup {NoContent}
    OBVIOUS
  <2>2. queue.at = "ADD_ROWS" /\ FileChunks(myDoc, queue.read)
    BY <2>1 DEF AddRows
  <2>3. QED
    BY <1>2, <2>2, InTheQueue, QueueTyped DEF QueueInv, Direct
<1>5. ASSUME NEW d \in Doc, dir'[d].state = "INGEST_VECTOR_DB"
      PROVE  dir[d].state = "INGEST_VECTOR_DB"
  <2>1. CASE dir' = dir
    BY <1>5, <2>1
  <2>2. CASE EnrichPrepare \/ ParkForBatch
    <3>1. myDoc \in Doc
      BY <2>2, InTheQueue DEF EnrichPrepare, ParkForBatch
    <3>2. /\ dir \in [Doc -> Record(Len(batches))]
          /\ \E rec \in Record(Len(batches)) :
              /\ dir' = [dir EXCEPT ![myDoc] = rec]
              /\ rec.state = dir[myDoc].state \/ rec.state = "AWAITING_ENRICHMENT"
      BY <2>2, <3>1, QueueParks
    <3>3. QED
      BY <1>5, <3>1, <3>2
  <2>3. QED
    BY <2>1, <2>2, QueueFrame
<1>6. ASSUME queue'.at = "ADD_ROWS"
      PROVE  /\ index' = index /\ myDoc' = myDoc
             /\ ~ Skipped(myDoc) \/ Fault("miscount")
             /\ mine \in setup.inbox /\ queue'.read = files[site[mine]].final
             /\ queue'.read # NoContent
  <2>1. /\ ReadFinal /\ Missed(myDoc)
        /\ queue' = [queue EXCEPT !.at = "ADD_ROWS", !.read = myFiles.final]
    <3>1. ASSUME NEW at, To(at) PROVE at = "ADD_ROWS"
      BY <1>6, <3>1, QueueTyped DEF To
    <3>2. ~ NextFile /\ queue' # QueueIdle
      <4>1. NextFile => queue'.at = "next"
        BY QueueTyped DEF NextFile
      <4>2. QueueIdle.at = "idle"
        BY DEF QueueIdle
      <4>3. QED
        BY <1>6, <4>1, <4>2
    <3>3. ~ StartQueue /\ ~ TakeFile
      BY <1>6, <3>2, QueueTyped DEF StartQueue, TakeFile
    <3>4. ~ SanitizerFails /\ ~ IntakeRaw /\ ~ Archive /\ ~ DocumentFails /\ ~ QueueCrash
      BY <3>1, <3>2 DEF SanitizerFails, IntakeRaw, MovedAway, Archive, DocumentFails, QueueCrash
    <3>5. /\ ~ ExportText /\ ~ ResolveIdentity /\ ~ UpdateRegistry /\ ~ CleanElements
          /\ ~ EnrichPrepare /\ ~ ParkForBatch /\ ~ EnrichContext /\ ~ QueueFinalizes /\ ~ AddRows
          /\ ~ WriteDocumentRow /\ ~ CleanupArtifacts
      BY <3>1 DEF ExportText, ResolveIdentity, UpdateRegistry, CleanElements, WritesClean,
                  EnrichPrepare, ParkForBatch, EnrichContext, QueueFinalizes, AddRows,
                  WriteDocumentRow, CleanupArtifacts
    <3>6. ~ DetectSections
      BY <3>1 DEF DetectSections, WritesClean
    <3>7. ReadFinal
      BY <3>3, <3>4, <3>5, <3>6 DEF QueueStep
    <3>8. QED
      BY <3>1, <3>7 DEF ReadFinal
  <2>2. /\ index' = index
        /\ queue.at = "INGEST_VECTOR_DB" /\ myFiles.final # NoContent
    BY <2>1 DEF ReadFinal, diskVars
  <2>3. queue'.pdf = queue.pdf /\ queue'.read = myFiles.final
    BY <2>1, QueueTyped
  <2>4. QED
    BY <1>2, <2>1, <2>2, <2>3 DEF myDoc, mine, myFiles, mySite, Missed, Direct
<1>7. index' = index \/ AddRows
  BY QueueFrame
<1>8. Sync \cap setup.inbox = {} => ~ AddRows
  BY <1>4
<1>9. QED
  BY <1>1, <1>3, <1>4, <1>5, <1>6, <1>7, <1>8

LEMMA QueueKeepsRight ==
  ASSUME Inv, IndexedRight, QueueStep, UNCHANGED pass
  PROVE  IndexedRight'
<1> USE DEF IndexedRight
<1>1. /\ UNCHANGED setup /\ site' = site
      /\ faults' = faults \/ \E kind \in FaultKind : Fault(kind)
  BY QueueFacts DEF site
<1>2. /\ Apart' = Apart /\ OneWay' = OneWay
      /\ Undisturbed' => Undisturbed
      /\ faults'.overlap = 0 => faults.overlap = 0
      /\ faults'.miscount = 0 => faults.miscount = 0
      /\ Fault("miscount") => faults'.miscount # 0
  BY <1>1, Disturbance
<1>3. setup.inbox \subseteq Pdf /\ setup.site \in [Pdf -> Site] /\ \A r \in Runner : pass[r].doc \subseteq Doc
  BY Numbers DEF Inv, TypeInv, Numbered, Pass, InHand
<1>4. Alone'
  BY <1>2 DEF Alone
<1>5. OwnFiles'
  <2>1. SUFFICES ASSUME Apart PROVE /\ \A p \in setup.inbox :
                                         files'[site[p]].final # NoContent => DocOf[files'[site[p]].final.of] = DocOf[p]
                                    /\ queue'.at = "ADD_ROWS" => DocOf[queue'.read.of] = myDoc'
    BY <1>1, <1>2 DEF OwnFiles
  <2>2. ASSUME NEW p \in setup.inbox, files'[site[p]].final # NoContent
        PROVE  DocOf[files'[site[p]].final.of] = DocOf[p]
    <3>1. site[p] \in Site
      BY <1>3 DEF site
    <3>2. CASE files'[site[p]].final \in {files[site[p]].final, NoContent}
      BY <2>1, <2>2, <3>2 DEF OwnFiles
    <3>3. CASE site[p] = mySite /\ mine \in setup.inbox /\ files'[site[p]].final.of = mine
      <4>1. p = mine
        BY <2>1, <3>3 DEF Apart, mySite
      <4>2. QED
        BY <3>3, <4>1
    <3>4. QED
      BY <3>1, <3>2, <3>3, QueueFacts
  <2>3. ASSUME queue'.at = "ADD_ROWS" PROVE DocOf[queue'.read.of] = myDoc'
    BY <2>1, <2>3, QueueFacts DEF OwnFiles, myDoc
  <2>4. QED
    BY <2>2, <2>3
<1>6. InOrder'
  <2>1. SUFFICES ASSUME Undisturbed
                 PROVE  /\ \A d \in Doc : dir'[d].state = "INGEST_VECTOR_DB" =>
                             \E r \in Runner : pass[r].doc = {d} /\ pass[r].at \in Indexing
                        /\ \A r \in Runner : \A d \in pass[r].doc :
                             pass[r].at = "INGEST_VECTOR_DB" =>
                               /\ files'[hisSite(r)].final # NoContent
                               /\ DocOf[files'[hisSite(r)].final.of] = d
    BY <1>1, <1>2 DEF InOrder, hisSite, site, Indexing
  <2>2. \A d \in Doc : dir'[d].state = "INGEST_VECTOR_DB" => dir[d].state = "INGEST_VECTOR_DB"
    BY QueueFacts
  <2>3. ASSUME NEW r \in Runner, NEW d \in pass[r].doc
        PROVE  files'[hisSite(r)].final = files[hisSite(r)].final
    <3>1. pass[r].source \in Pdf
      BY <1>3, <2>3 DEF Inv, PassInv, Parked
    <3>2. hisSite(r) \in Site
      BY <1>3, <3>1 DEF hisSite, site
    <3>3. Sync \cap setup.inbox = {}
      BY <2>1 DEF Undisturbed
    <3>4. QED
      BY <3>2, <3>3, QueueFacts
  <2>4. QED
    BY <2>1, <2>2, <2>3 DEF InOrder
<1>7. OfItsDoc'
  <2>1. SUFFICES ASSUME Apart \/ Undisturbed
                 PROVE  \A d \in Doc : \A i \in DOMAIN index'[d] : DocOf[index'[d][i].of] = d
    BY <1>2 DEF OfItsDoc
  <2>2. CASE index' = index
    BY <2>1, <2>2 DEF OfItsDoc
  <2>3. CASE index' # index
    <3>1. /\ AddRows /\ queue.at = "ADD_ROWS" /\ FileChunks(myDoc, queue.read)
          /\ myDoc \in Doc /\ Made(queue.read) /\ queue.read \in Content \cup {NoContent}
      BY <2>3, QueueFacts
    <3>2. Apart
      BY <2>1, <3>1, QueueFacts DEF Undisturbed
    <3>3. DocOf[queue.read.of] = myDoc
      BY <3>1, <3>2 DEF OwnFiles
    <3>4. ASSUME NEW d \in Doc, NEW i \in DOMAIN index'[d]
          PROVE  DocOf[index'[d][i].of] = d
      <4>1. CASE d # myDoc
        BY <2>1, <3>1, <3>4, <4>1, Chunks DEF OfItsDoc, Inv
      <4>2. CASE d = myDoc
        BY <2>1, <3>1, <3>3, <3>4, <4>2, Chunks DEF OfItsDoc, Inv
      <4>3. QED
        BY <4>1, <4>2
    <3>5. QED
      BY <3>4
  <2>4. QED
    BY <2>2, <2>3
<1>8. Once'
  <2>1. SUFFICES ASSUME faults.overlap = 0, faults.miscount = 0, faults'.miscount = 0, OneWay
                 PROVE  /\ queue'.at = "ADD_ROWS" => index'[myDoc'] = <<>>
                        /\ \A r \in Runner : \A d \in pass[r].doc : pass[r].at = "ADD_ROWS" => index'[d] = <<>>
                        /\ \A d \in Doc : Len(index'[d]) <= 1
    BY <1>2 DEF Once
  <2>2. queue'.at = "ADD_ROWS" => index'[myDoc'] = <<>>
    BY <1>2, <2>1, QueueFacts DEF Skipped, Filed
  <2>3. CASE index' = index
    BY <2>1, <2>2, <2>3 DEF Once
  <2>4. CASE index' # index
    <3>1. /\ AddRows /\ queue.at = "ADD_ROWS" /\ FileChunks(myDoc, queue.read)
          /\ myDoc \in Doc /\ Made(queue.read) /\ queue.read \in Content \cup {NoContent}
          /\ mine \in Sync /\ mine \in setup.inbox
      BY <2>4, QueueFacts
    <3>2. index[myDoc] = <<>>
      BY <2>1, <3>1 DEF Once
    <3>3. Len(index'[myDoc]) = 1 /\ \A d \in Doc : d # myDoc => index'[d] = index[d]
      BY <3>1, <3>2, Chunks DEF Inv
    <3>4. ASSUME NEW r \in Runner, NEW d \in pass[r].doc PROVE d # myDoc /\ d \in Doc
      <4>1. pass[r].source \in setup.inbox \ Sync /\ DocOf[pass[r].source] = d
        BY <3>4 DEF Inv, PassInv, Parked
      <4>2. QED
        BY <1>3, <2>1, <3>1, <4>1 DEF OneWay, myDoc
    <3>5. \A d \in Doc : Len(index'[d]) <= 1
      <4>1. \A d \in Doc : Len(index[d]) <= 1
        BY <2>1 DEF Once
      <4>2. ASSUME NEW d \in Doc PROVE Len(index'[d]) <= 1
        <5>1. CASE d = myDoc
          <6>1. Len(index'[myDoc]) = 1
            BY <3>3
          <6>2. Len(index'[d]) = 1
            BY <5>1, <6>1
          <6>3. \A n : n = 1 => n <= 1
            OBVIOUS
          <6>4. QED
            BY <6>2, <6>3
        <5>2. CASE d # myDoc
          BY <3>3, <4>1, <5>2
        <5>3. QED
          BY <5>1, <5>2
      <4>3. QED
        BY <4>2
    <3>6. QED
      BY <2>1, <2>2, <3>3, <3>4, <3>5 DEF Once
  <2>5. QED
    BY <2>3, <2>4
<1>9. QED
  BY <1>4, <1>5, <1>6, <1>7, <1>8

(* While a pass runs undisturbed, no other document waits to be indexed.   *)
LEMMA NoneWaits ==
  ASSUME Inv, IndexedRight, Undisturbed, NEW r \in Runner,
         pass[r].at # "idle" \/ \A o \in Runner : pass[o].at = "idle"
  PROVE  /\ \A o \in Runner : o # r => pass[o].at = "idle" /\ pass[o].doc = {}
         /\ \A d \in Doc : (pass[r].at \notin Indexing \/ pass[r].doc # {d}) =>
              dir[d].state # "INGEST_VECTOR_DB"
<1>1. faults.overlap = 0
  BY DEF Undisturbed, FaultKind
<1>2. ASSUME NEW o \in Runner, o # r PROVE pass[o].at = "idle" /\ pass[o].doc = {}
  <2>1. pass[o].at = "idle"
    BY <1>1, <1>2 DEF IndexedRight, Alone
  <2>2. QED
    BY <2>1 DEF Inv, PassInv
<1>3. ASSUME NEW d \in Doc, pass[r].at \notin Indexing \/ pass[r].doc # {d},
             dir[d].state = "INGEST_VECTOR_DB"
      PROVE  FALSE
  <2>1. PICK o \in Runner : pass[o].doc = {d} /\ pass[o].at \in Indexing
    BY <1>3 DEF IndexedRight, InOrder
  <2>2. o = r
    BY <1>2, <2>1
  <2>3. QED
    BY <1>3, <2>1, <2>2
<1>4. QED
  BY <1>2, <1>3

(* A step of a pass that indexes nothing.                                  *)
LEMMA PassKeepsRight ==
  ASSUME Inv, IndexedRight, UNCHANGED <<setup, index, queue>>, NEW r \in Runner,
         faults' = faults \/ \E kind \in FaultKind : Fault(kind),
         pass[r].at # "idle" \/ (\A o \in Runner : pass[o].at = "idle") \/ faults'.overlap # 0,
         \A o \in Runner : o # r => pass'[o] = pass[o],
         pass'[r].at = "ADD_ROWS" =>
           \A d \in pass'[r].doc :
             /\ index[d] = <<>> \/ faults'.miscount # 0
             /\ Apart \/ Undisturbed' => DocOf[pass'[r].read.of] = d,
         OwnFiles', InOrder'
  PROVE  IndexedRight'
<1> USE DEF IndexedRight
<1>1. /\ Apart' = Apart /\ OneWay' = OneWay
      /\ Undisturbed' => Undisturbed
      /\ faults'.overlap = 0 => faults.overlap = 0
      /\ faults'.miscount = 0 => faults.miscount = 0
  BY Disturbance
<1>2. Alone'
  <2>1. SUFFICES ASSUME faults'.overlap = 0, NEW o \in Runner, NEW q \in Runner,
                        pass'[o].at # "idle", pass'[q].at # "idle"
                 PROVE  o = q
    BY DEF Alone
  <2>2. \A x \in Runner : x # r => pass[x].at = "idle"
    BY <1>1, <2>1 DEF Alone
  <2>3. QED
    BY <2>1, <2>2
<1>3. OfItsDoc'
  <2>1. SUFFICES ASSUME Apart \/ Undisturbed'
                 PROVE  /\ \A o \in Runner : \A d \in pass'[o].doc :
                             pass'[o].at = "ADD_ROWS" => DocOf[pass'[o].read.of] = d
                        /\ \A d \in Doc : \A i \in DOMAIN index[d] : DocOf[index[d][i].of] = d
    BY <1>1 DEF OfItsDoc
  <2>2. ASSUME NEW o \in Runner, NEW d \in pass'[o].doc, pass'[o].at = "ADD_ROWS"
        PROVE  DocOf[pass'[o].read.of] = d
    <3>1. CASE o = r
      BY <2>1, <2>2, <3>1
    <3>2. CASE o # r
      BY <1>1, <2>1, <2>2, <3>2 DEF OfItsDoc
    <3>3. QED
      BY <3>1, <3>2
  <2>3. QED
    BY <1>1, <2>1, <2>2 DEF OfItsDoc
<1>4. Once'
  <2>1. SUFFICES ASSUME faults'.overlap = 0, faults'.miscount = 0, OneWay
                 PROVE  /\ queue.at = "ADD_ROWS" => index[myDoc] = <<>>
                        /\ \A o \in Runner : \A d \in pass'[o].doc :
                             pass'[o].at = "ADD_ROWS" => index[d] = <<>>
                        /\ \A d \in Doc : Len(index[d]) <= 1
    BY <1>1 DEF Once, myDoc, mine
  <2>2. ASSUME NEW o \in Runner, NEW d \in pass'[o].doc, pass'[o].at = "ADD_ROWS"
        PROVE  index[d] = <<>>
    <3>1. CASE o = r
      BY <2>1, <2>2, <3>1
    <3>2. CASE o # r
      BY <1>1, <2>1, <2>2, <3>2 DEF Once
    <3>3. QED
      BY <3>1, <3>2
  <2>3. QED
    BY <1>1, <2>1, <2>2 DEF Once
<1>5. QED
  BY <1>2, <1>3, <1>4

(* What a pass does when it leaves the disk alone.                         *)
LEMMA WaitsFacts ==
  ASSUME Inv, NEW r \in Runner,
         \/ BeginPass(r) \/ TakeDocument(r) \/ PassCrash(r)
         \/ \E d \in Doc : CallRaises(r, d) \/ StageRaises(r, d)
  PROVE  /\ UNCHANGED <<setup, files, dir, index, queue>>
         /\ faults' = faults \/ \E kind \in FaultKind : Fault(kind)
         /\ pass[r].at # "idle" \/ (\A o \in Runner : pass[o].at = "idle") \/ faults'.overlap # 0
         /\ \A o \in Runner : o # r => pass'[o] = pass[o]
         /\ \/ pass'[r].doc = {} /\ pass'[r].at \in {"idle", "next"}
            \/ \E d \in Doc : /\ pass'[r].doc = {d} /\ pass'[r].at = dir[d].state
                              /\ dir[d].state # "ADD_ROWS" /\ pass[r].at = "next"
         /\ faults' = faults =>
              \/ pass[r].at \notin Indexing
              \/ pass[r].at = "INGEST_VECTOR_DB" /\ files[hisSite(r)].final = NoContent
                 /\ \E d \in Doc : pass[r].doc = {d}
<1>1. UNCHANGED <<setup, files, dir, index, queue>>
  BY DEF BeginPass, TakeDocument, PassCrash, CallRaises, StageRaises, diskVars, queueVars
<1>2. faults' = faults \/ \E kind \in FaultKind : Fault(kind)
  BY DEF FaultKind, BeginPass, TakeDocument, PassCrash, CallRaises, StageRaises, queueVars
<1>3. /\ pass[r] \in Pass(Len(batches)) /\ pass \in [Runner -> Pass(Len(batches))]
      /\ dir \in [Doc -> Record(Len(batches))]
  BY DEF Inv, TypeInv, Numbered
<1>4. \/ pass[r].at # "idle" \/ (\A o \in Runner : pass[o].at = "idle") \/ Fault("overlap")
  BY DEF BeginPass, TakeDocument, PassCrash, CallRaises, StageRaises, Lacks, Works, Inv, PassInv
<1>5. Fault("overlap") => faults'.overlap # 0
  BY Faults DEF FaultKind
<1>6. \A o \in Runner : o # r => pass'[o] = pass[o]
  BY <1>3 DEF BeginPass, TakeDocument, PassCrash, CallRaises, StageRaises, Leaves
<1>7. \/ pass'[r].doc = {} /\ pass'[r].at \in {"idle", "next"}
      \/ \E d \in Doc : /\ pass'[r].doc = {d} /\ pass'[r].at = dir[d].state
                        /\ dir[d].state # "ADD_ROWS" /\ pass[r].at = "next"
  <2>1. CASE PassCrash(r) \/ \E d \in Doc : CallRaises(r, d) \/ StageRaises(r, d)
    BY <1>1, <2>1, PassPutsDown DEF PassCrash, CallRaises, StageRaises, Inv
  <2>2. CASE BeginPass(r)
    <3>1. pass[r].doc = {}
      BY <2>2 DEF BeginPass, Inv, PassInv
    <3>2. pass' = [pass EXCEPT ![r] = [pass[r] EXCEPT !.at = "next", !.left = {d \in Doc : dir[d] # NoDir}]]
      BY <1>3, <2>2 DEF BeginPass
    <3>3. pass'[r].doc = {} /\ pass'[r].at = "next"
      BY <1>3, <3>1, <3>2 DEF Pass
    <3>4. QED
      BY <3>3
  <2>3. CASE TakeDocument(r)
    <3>1. pass[r].at = "next" /\ pass[r].doc = {} /\ pass[r].left \subseteq Doc
      BY <1>3, <2>3 DEF TakeDocument, Inv, PassInv, Pass
    <3>2. CASE pass' = [pass EXCEPT ![r] = PassIdle]
      BY <1>3, <3>2 DEF PassIdle
    <3>3. ASSUME NEW d \in pass[r].left,
                 pass' = [pass EXCEPT
                   ![r] = IF dir[d].state \in {"absent", "COMPLETED"}
                          THEN [pass[r] EXCEPT !.left = @ \ {d}]
                          ELSE [pass[r] EXCEPT
                                  !.left = @ \ {d}, !.doc = {d}, !.at = dir[d].state,
                                  !.batch = dir[d].batch, !.source = dir[d].source]]
          PROVE  \/ pass'[r].doc = {} /\ pass'[r].at \in {"idle", "next"}
                 \/ \E e \in Doc : /\ pass'[r].doc = {e} /\ pass'[r].at = dir[e].state
                                   /\ dir[e].state # "ADD_ROWS" /\ pass[r].at = "next"
      <4>1. d \in Doc /\ dir[d].state # "ADD_ROWS"
        BY <1>3, <3>1 DEF Record, DocStates
      <4>2. CASE dir[d].state \in {"absent", "COMPLETED"}
        <5>1. pass' = [pass EXCEPT ![r] = [pass[r] EXCEPT !.left = @ \ {d}]]
          BY <3>3, <4>2
        <5>2. QED
          BY <1>3, <3>1, <5>1 DEF Pass
      <4>3. CASE dir[d].state \notin {"absent", "COMPLETED"}
        <5>1. pass' = [pass EXCEPT ![r] = [pass[r] EXCEPT
                  !.left = @ \ {d}, !.doc = {d}, !.at = dir[d].state,
                  !.batch = dir[d].batch, !.source = dir[d].source]]
          BY <3>3, <4>3
        <5>2. pass'[r].doc = {d} /\ pass'[r].at = dir[d].state
          BY <1>3, <5>1 DEF Pass
        <5>3. QED
          BY <3>1, <4>1, <5>2
      <4>4. QED
        BY <4>2, <4>3
    <3>4. QED
      BY <2>3, <3>2, <3>3 DEF TakeDocument
  <2>4. QED
    BY <2>1, <2>2, <2>3
<1>8. faults' = faults =>
        \/ pass[r].at \notin Indexing
        \/ pass[r].at = "INGEST_VECTOR_DB" /\ files[hisSite(r)].final = NoContent
           /\ \E d \in Doc : pass[r].doc = {d}
  <2>1. SUFFICES ASSUME faults' = faults, pass[r].at \in Indexing
                 PROVE  pass[r].at = "INGEST_VECTOR_DB" /\ files[hisSite(r)].final = NoContent
                        /\ \E d \in Doc : pass[r].doc = {d}
    OBVIOUS
  <2>2. \A kind \in FaultKind : ~ Fault(kind)
    <3>1. ASSUME NEW kind \in FaultKind, Fault(kind) PROVE FALSE
      <4>1. faults' = [faults EXCEPT ![kind] = faults[kind] + 1]
        BY <3>1, FaultTyped DEF Inv
      <4>2. faults[kind] \in Nat /\ faults \in [FaultKind -> Nat]
        BY Faults
      <4>3. faults'[kind] = faults[kind] + 1
        BY <4>1, <4>2
      <4>4. QED
        BY <2>1, <4>2, <4>3
    <3>2. QED
      BY <3>1
  <2>3. PICK d \in Doc : StageRaises(r, d)
    BY <2>1, <2>2 DEF FaultKind, BeginPass, TakeDocument, PassCrash, CallRaises, Indexing
  <2>4. QED
    BY <2>1, <2>3 DEF StageRaises, Lacks, Indexing
<1>9. QED
  BY <1>1, <1>2, <1>4, <1>5, <1>6, <1>7, <1>8

LEMMA WaitsKeepRight ==
  ASSUME Inv, IndexedRight, NEW r \in Runner,
         \/ BeginPass(r) \/ TakeDocument(r) \/ PassCrash(r)
         \/ \E d \in Doc : CallRaises(r, d) \/ StageRaises(r, d)
  PROVE  IndexedRight'
<1>1. /\ UNCHANGED <<setup, files, dir, index, queue>>
      /\ faults' = faults \/ \E kind \in FaultKind : Fault(kind)
      /\ pass[r].at # "idle" \/ (\A o \in Runner : pass[o].at = "idle") \/ faults'.overlap # 0
      /\ \A o \in Runner : o # r => pass'[o] = pass[o]
  BY WaitsFacts
<1>2. /\ Apart' = Apart /\ Undisturbed' => Undisturbed
  BY <1>1, Disturbance
<1>3. Undisturbed' => faults' = faults /\ faults.overlap = 0
  BY <1>1, Disturbance
<1>4. OwnFiles'
  BY <1>1 DEF IndexedRight, OwnFiles, Apart, site, myDoc, mine
<1>5. InOrder'
  <2>1. SUFFICES ASSUME Undisturbed', Undisturbed
                 PROVE  /\ \A d \in Doc : dir[d].state # "INGEST_VECTOR_DB"
                        /\ \A o \in Runner : \A d \in pass'[o].doc : pass'[o].at # "INGEST_VECTOR_DB"
    BY <1>1, <1>2, Disturbance DEF InOrder
  <2>2. pass[r].at # "idle" \/ \A o \in Runner : pass[o].at = "idle"
    BY <1>1, <1>3, <2>1
  <2>3. pass[r].at \notin Indexing
    <3>1. ASSUME pass[r].at = "INGEST_VECTOR_DB", files[hisSite(r)].final = NoContent,
                 NEW d \in Doc, pass[r].doc = {d}
          PROVE  FALSE
      BY <2>1, <3>1 DEF IndexedRight, InOrder
    <3>2. QED
      BY <1>3, <2>1, <3>1, WaitsFacts
  <2>4. \A d \in Doc : dir[d].state # "INGEST_VECTOR_DB"
    BY <2>1, <2>2, <2>3, NoneWaits
  <2>5. ASSUME NEW o \in Runner, NEW d \in pass'[o].doc PROVE pass'[o].at # "INGEST_VECTOR_DB"
    <3>1. CASE o = r
      BY <2>4, <2>5, <3>1, WaitsFacts
    <3>2. CASE o # r
      BY <1>1, <2>1, <2>2, <3>2, NoneWaits
    <3>3. QED
      BY <3>1, <3>2
  <2>6. QED
    BY <2>4, <2>5
<1>6. pass'[r].at # "ADD_ROWS"
  BY WaitsFacts
<1>7. QED
  BY <1>1, <1>4, <1>5, <1>6, PassKeepsRight

LEMMA SavingKeepsRight ==
  ASSUME Inv, IndexedRight, NEW r \in Runner, NEW d \in Doc, Saving(r, d)
  PROVE  IndexedRight'
<1>1. UNCHANGED <<setup, index, queue, faults>>
  BY DEF Saving, BeginSubmit, RecordBatch, Poll, Merge, FinalizeOutput, Cleanup, PassDocumentRow,
         Skips, Ingest, queueVars
<1>2. /\ pass[r].doc = {d} /\ \A o \in Runner : o # r => pass'[o] = pass[o]
      /\ \A e \in Doc : e # d => dir'[e] = dir[e]
      /\ \/ /\ pass'[r].at = dir'[d].state /\ pass'[r].doc = {d}
            /\ pass'[r].source = pass[r].source
         \/ pass'[r].doc = {} /\ pass'[r].at \in {"idle", "next"}
      /\ dir'[d].state = "INGEST_VECTOR_DB" <=> FinalizeOutput(r, d)
      /\ FinalizeOutput(r, d) => pass'[r].at = "INGEST_VECTOR_DB"
      /\ pass'[r].at # "ADD_ROWS"
  BY PassAdvances DEF Saving
<1>3. pass[r].at # "idle"
  BY <1>2 DEF Inv, PassInv
<1>4. /\ pass[r].source \in Parked(d) /\ pass[r].source \in setup.inbox
      /\ DocOf[pass[r].source] = d /\ hisSite(r) \in Site
  BY <1>2, HasInHand DEF Inv, Parked
<1>5. Apart' = Apart /\ Undisturbed' = Undisturbed /\ site' = site
  BY <1>1 DEF Apart, Undisturbed, site
<1>6. FinalizeOutput(r, d) =>
        /\ files'[hisSite(r)].final = dir[d].merged /\ dir[d].merged # NoContent
        /\ DocOf[dir[d].merged.of] = d
  <2>1. SUFFICES ASSUME FinalizeOutput(r, d)
                 PROVE  /\ files'[hisSite(r)].final = dir[d].merged /\ dir[d].merged # NoContent
                        /\ DocOf[dir[d].merged.of] = d
    OBVIOUS
  <2>2. DocOf[dir[d].merged.of] = d /\ dir[d].merged # NoContent
    BY <2>1, PassWrites DEF Parked, FinalizeOutput
  <2>3. /\ files' = [files EXCEPT ![hisSite(r)].final = dir[d].merged]
        /\ files \in [Site -> Files] /\ files[hisSite(r)] \in Files
    BY <1>2, <2>1, HasInHand DEF FinalizeOutput, Inv
  <2>4. QED
    BY <1>4, <2>2, <2>3 DEF Files
<1>7. OwnFiles'
  <2>1. SUFFICES ASSUME Apart, NEW p \in setup.inbox, files'[site[p]].final # NoContent
                 PROVE  DocOf[files'[site[p]].final.of] = DocOf[p]
    BY <1>1, <1>5 DEF IndexedRight, OwnFiles, myDoc, mine
  <2>2. site[p] \in Site
    BY Numbers DEF Inv, site
  <2>3. CASE files'[site[p]].final \in {files[site[p]].final, NoContent}
    BY <2>1, <2>3 DEF IndexedRight, OwnFiles
  <2>4. CASE FinalizeOutput(r, d) /\ site[p] = hisSite(r)
    <3>1. p = pass[r].source
      BY <1>4, <2>1, <2>4 DEF Apart, hisSite
    <3>2. QED
      BY <1>4, <1>6, <2>4, <3>1
  <2>5. QED
    BY <2>2, <2>3, <2>4, PassWrites
<1>8. InOrder'
  <2>1. SUFFICES ASSUME Undisturbed
                 PROVE  /\ \A e \in Doc : dir'[e].state = "INGEST_VECTOR_DB" =>
                             \E o \in Runner : pass'[o].doc = {e} /\ pass'[o].at \in Indexing
                        /\ \A o \in Runner : \A e \in pass'[o].doc :
                             pass'[o].at = "INGEST_VECTOR_DB" =>
                               /\ files'[hisSite(o)'].final # NoContent
                               /\ DocOf[files'[hisSite(o)'].final.of] = e
    BY <1>5 DEF InOrder, Indexing
  <2>2. ASSUME NEW e \in Doc, dir'[e].state = "INGEST_VECTOR_DB"
        PROVE  pass'[r].doc = {e} /\ pass'[r].at \in Indexing
    <3>1. e = d
      <4>1. e # d => dir[e].state = "INGEST_VECTOR_DB" /\ pass[r].doc # {e}
        BY <1>2, <2>2
      <4>2. QED
        BY <1>3, <2>1, <4>1, NoneWaits
    <3>2. QED
      BY <1>2, <2>2, <3>1 DEF Indexing
  <2>3. ASSUME NEW o \in Runner, NEW e \in pass'[o].doc, pass'[o].at = "INGEST_VECTOR_DB"
        PROVE  /\ files'[hisSite(o)'].final # NoContent
               /\ DocOf[files'[hisSite(o)'].final.of] = e
    <3>1. o = r
      BY <1>2, <1>3, <2>1, <2>3, NoneWaits
    <3>2. FinalizeOutput(r, d) /\ e = d /\ pass'[r].source = pass[r].source
      BY <1>2, <2>3, <3>1
    <3>3. hisSite(o)' = hisSite(r)
      BY <1>5, <3>1, <3>2 DEF hisSite
    <3>4. QED
      BY <1>6, <3>2, <3>3
  <2>4. QED
    BY <2>2, <2>3
<1>9. QED
  BY <1>1, <1>2, <1>3, <1>7, <1>8, PassKeepsRight

LEMMA SubmitKeepsRight ==
  ASSUME Inv, IndexedRight, NEW r \in Runner, NEW d \in Doc,
         Submit(r, d) \/ QuarantineFailed(r, d)
  PROVE  IndexedRight'
<1>1. /\ UNCHANGED <<setup, files, index, queue, faults>>
      /\ \A o \in Runner : o # r => pass'[o] = pass[o]
      /\ pass'[r].at \in {"SUBMITTED", "idle", "next"} /\ pass[r].doc = {d}
  BY SubmitKeepsInv, QuarantineKeepsInv
<1>2. pass[r].at \in {"ENRICH_SUBMIT", "FAILED"}
  BY DEF Submit, QuarantineFailed, Works
<1>3. \A e \in Doc : dir'[e].state = dir[e].state \/ dir'[e].state = "absent"
  BY SubmitKeepsInv, QuarantineKeepsInv
<1>4. Apart' = Apart /\ Undisturbed' = Undisturbed
  BY <1>1 DEF Apart, Undisturbed, site
<1>5. OwnFiles'
  BY <1>1 DEF IndexedRight, OwnFiles, Apart, site, myDoc, mine
<1>6. InOrder'
  <2>1. SUFFICES ASSUME Undisturbed
                 PROVE  /\ \A e \in Doc : dir'[e].state # "INGEST_VECTOR_DB"
                        /\ \A o \in Runner : \A e \in pass'[o].doc : pass'[o].at # "INGEST_VECTOR_DB"
    BY <1>4 DEF InOrder
  <2>2. \A e \in Doc : dir[e].state # "INGEST_VECTOR_DB"
    BY <1>2, <2>1, NoneWaits DEF Indexing
  <2>3. \A o \in Runner : pass'[o].at # "INGEST_VECTOR_DB"
    BY <1>1, <1>2, <2>1, NoneWaits
  <2>4. QED
    BY <1>3, <2>2, <2>3
<1>7. QED
  BY <1>1, <1>2, <1>5, <1>6, PassKeepsRight

LEMMA ReadsKeepRight ==
  ASSUME Inv, IndexedRight, NEW r \in Runner, NEW d \in Doc, Reads(r, d)
  PROVE  IndexedRight'
<1>1. /\ UNCHANGED <<setup, files, dir, index, queue>>
      /\ faults' = faults \/ \E kind \in FaultKind : Fault(kind)
      /\ (faults' = faults /\ ~ Skipped(d)) \/ Fault("miscount")
      /\ \A o \in Runner : o # r => pass'[o] = pass[o]
      /\ pass[r].doc = {d} /\ pass[r].at = "INGEST_VECTOR_DB"
      /\ pass'[r].doc = {d} /\ pass'[r].at = "ADD_ROWS"
      /\ pass'[r].read = files[hisSite(r)].final /\ pass'[r].read # NoContent
  BY ReadsKeepsInv DEF diskVars
<1>2. /\ pass[r].source \in setup.inbox /\ DocOf[pass[r].source] = d
  BY <1>1, HasInHand DEF Inv, Parked
<1>3. /\ Apart' = Apart /\ (Undisturbed' => Undisturbed)
      /\ Fault("miscount") => faults'.miscount # 0
  BY <1>1, Disturbance
<1>4. OwnFiles'
  BY <1>1 DEF IndexedRight, OwnFiles, Apart, site, myDoc, mine
<1>5. InOrder'
  <2>1. SUFFICES ASSUME Undisturbed
                 PROVE  /\ \A e \in Doc : dir[e].state = "INGEST_VECTOR_DB" =>
                             \E o \in Runner : pass'[o].doc = {e} /\ pass'[o].at \in Indexing
                        /\ \A o \in Runner : \A e \in pass'[o].doc : pass'[o].at # "INGEST_VECTOR_DB"
    BY <1>1, <1>3 DEF InOrder, Indexing
  <2>2. \A e \in Doc : e # d => dir[e].state # "INGEST_VECTOR_DB"
    BY <1>1, <2>1, NoneWaits
  <2>3. \A o \in Runner : o # r => pass[o].at = "idle"
    BY <1>1, <2>1, NoneWaits
  <2>4. QED
    BY <1>1, <2>2, <2>3 DEF Indexing
<1>6. index[d] = <<>> \/ faults'.miscount # 0
  BY <1>1, <1>3 DEF Skipped, Filed
<1>7. Apart \/ Undisturbed' => DocOf[pass'[r].read.of] = d
  <2>1. CASE Apart
    BY <1>1, <1>2, <2>1 DEF IndexedRight, OwnFiles, hisSite
  <2>2. CASE Undisturbed
    BY <1>1, <2>2 DEF IndexedRight, InOrder
  <2>3. QED
    BY <1>3, <2>1, <2>2
<1>8. QED
  BY <1>1, <1>4, <1>5, <1>6, <1>7, PassKeepsRight

LEMMA AddsKeepRight ==
  ASSUME Inv, IndexedRight, NEW r \in Runner, NEW d \in Doc, PassAddRows(r, d)
  PROVE  IndexedRight'
<1>1. /\ UNCHANGED <<setup, files, dir, queue, faults>>
      /\ \A o \in Runner : o # r => pass'[o] = pass[o]
      /\ pass[r].doc = {d} /\ pass[r].at = "ADD_ROWS"
      /\ pass'[r].doc = {d} /\ pass'[r].at = "DOCUMENT_ROW"
      /\ FileChunks(d, pass[r].read) /\ Made(pass[r].read)
      /\ pass[r].read \in Content \cup {NoContent} /\ TypeInv
  BY AddsKeepsInv DEF Inv
<1>2. /\ Apart' = Apart /\ Undisturbed' = Undisturbed /\ OneWay' = OneWay
      /\ pass[r].source \in setup.inbox \ Sync /\ DocOf[pass[r].source] = d
  BY <1>1, HasInHand DEF Inv, Parked, Apart, Undisturbed, OneWay, site
<1>3. Alone'
  BY <1>1 DEF IndexedRight, Alone
<1>4. OwnFiles'
  BY <1>1 DEF IndexedRight, OwnFiles, Apart, site, myDoc, mine
<1>5. InOrder'
  <2>1. SUFFICES ASSUME Undisturbed
                 PROVE  /\ \A e \in Doc : dir[e].state = "INGEST_VECTOR_DB" =>
                             \E o \in Runner : pass'[o].doc = {e} /\ pass'[o].at \in Indexing
                        /\ \A o \in Runner : \A e \in pass'[o].doc : pass'[o].at # "INGEST_VECTOR_DB"
    BY <1>1, <1>2 DEF InOrder, Indexing
  <2>2. \A e \in Doc : e # d => dir[e].state # "INGEST_VECTOR_DB"
    BY <1>1, <2>1, NoneWaits
  <2>3. \A o \in Runner : o # r => pass[o].at = "idle"
    BY <1>1, <2>1, NoneWaits
  <2>4. QED
    BY <1>1, <2>2, <2>3 DEF Indexing
<1>6. OfItsDoc'
  <2>1. SUFFICES ASSUME Apart \/ Undisturbed
                 PROVE  /\ \A o \in Runner : \A e \in pass'[o].doc :
                             pass'[o].at = "ADD_ROWS" => DocOf[pass'[o].read.of] = e
                        /\ \A e \in Doc : \A i \in DOMAIN index'[e] : DocOf[index'[e][i].of] = e
    BY <1>2 DEF OfItsDoc
  <2>2. DocOf[pass[r].read.of] = d
    BY <1>1, <2>1 DEF IndexedRight, OfItsDoc
  <2>3. ASSUME NEW o \in Runner, NEW e \in pass'[o].doc, pass'[o].at = "ADD_ROWS"
        PROVE  DocOf[pass'[o].read.of] = e
    <3>1. o # r
      BY <1>1, <2>3
    <3>2. QED
      BY <1>1, <2>1, <2>3, <3>1 DEF IndexedRight, OfItsDoc
  <2>4. ASSUME NEW e \in Doc, NEW i \in DOMAIN index'[e]
        PROVE  DocOf[index'[e][i].of] = e
    <3>1. CASE e # d
      BY <1>1, <2>1, <2>4, <3>1, Chunks DEF IndexedRight, OfItsDoc
    <3>2. CASE e = d
      BY <1>1, <2>1, <2>2, <2>4, <3>2, Chunks DEF IndexedRight, OfItsDoc
    <3>3. QED
      BY <3>1, <3>2
  <2>5. QED
    BY <2>3, <2>4
<1>7. Once'
  <2>1. SUFFICES ASSUME faults.overlap = 0, faults.miscount = 0, OneWay
                 PROVE  /\ queue.at = "ADD_ROWS" => index'[myDoc] = <<>>
                        /\ \A o \in Runner : \A e \in pass'[o].doc :
                             pass'[o].at = "ADD_ROWS" => index'[e] = <<>>
                        /\ \A e \in Doc : Len(index'[e]) <= 1
    BY <1>1, <1>2 DEF Once, myDoc, mine
  <2>2. index[d] = <<>>
    BY <1>1, <2>1 DEF IndexedRight, Once
  <2>3. Len(index'[d]) = 1 /\ \A e \in Doc : e # d => index'[e] = index[e]
    BY <1>1, <2>2, Chunks
  <2>4. queue.at = "ADD_ROWS" => /\ mine \in Sync /\ mine \in setup.inbox /\ myDoc \in Doc
                                 /\ index[myDoc] = <<>>
    BY <2>1, InTheQueue DEF Inv, QueueInv, Direct, IndexedRight, Once
  <2>5. queue.at = "ADD_ROWS" => index'[myDoc] = <<>>
    <3>1. queue.at = "ADD_ROWS" => myDoc # d
      BY <1>2, <2>1, <2>4 DEF OneWay, myDoc
    <3>2. QED
      BY <2>3, <2>4, <3>1
  <2>6. \A o \in Runner : o # r => pass[o].at = "idle"
    BY <1>1, <2>1 DEF IndexedRight, Alone
  <2>7. \A o \in Runner : pass'[o].at # "ADD_ROWS"
    BY <1>1, <2>6
  <2>8. ASSUME NEW e \in Doc PROVE Len(index'[e]) <= 1
    <3>1. \A n : n = 1 => n <= 1
      OBVIOUS
    <3>2. CASE e = d
      <4>1. Len(index'[d]) = 1
        BY <2>3
      <4>2. Len(index'[e]) = 1
        BY <3>2, <4>1
      <4>3. QED
        BY <3>1, <4>2
    <3>3. CASE e # d
      <4>1. Len(index[e]) <= 1
        BY <2>1 DEF IndexedRight, Once
      <4>2. QED
        BY <2>3, <3>3, <4>1
    <3>4. QED
      BY <3>2, <3>3
  <2>9. QED
    BY <2>5, <2>7, <2>8
<1>8. QED
  BY <1>3, <1>4, <1>5, <1>6, <1>7 DEF IndexedRight

LEMMA RightKept ==
  ASSUME Inv, IndexedRight, [Next]_vars
  PROVE  IndexedRight'
<1>1. ASSUME UNCHANGED <<setup, files, dir, index, queue, faults, pass>>
      PROVE  IndexedRight'
  <2>1. /\ UNCHANGED <<setup, files, dir, index, queue, faults, pass>>
        /\ Alone /\ OwnFiles /\ InOrder /\ OfItsDoc /\ Once
    BY <1>1 DEF IndexedRight
  <2>2. Alone' /\ OwnFiles'
    BY <2>1 DEF Alone, OwnFiles, Apart, myDoc, mine, site
  <2>3. InOrder'
    BY <2>1 DEF InOrder, Undisturbed, hisSite, site
  <2>4. OfItsDoc'
    BY <2>1 DEF OfItsDoc, Apart, Undisturbed, site
  <2>5. Once'
    BY <2>1 DEF Once, OneWay, myDoc, mine
  <2>6. QED
    BY <2>2, <2>3, <2>4, <2>5 DEF IndexedRight
<1>2. CASE Next
  <2>1. CASE QueueStep /\ UNCHANGED pass
    BY <2>1, QueueKeepsRight
  <2>2. ASSUME NEW b \in DOMAIN batches, BatchEnds(b), UNCHANGED <<queueVars, pass>>
        PROVE  IndexedRight'
    BY <1>1, <2>2, BatchEndsKeepsInv
  <2>3. ASSUME NEW r \in Runner,
               \/ BeginPass(r) \/ TakeDocument(r) \/ PassCrash(r)
               \/ \E d \in Doc : CallRaises(r, d) \/ StageRaises(r, d)
        PROVE  IndexedRight'
    BY <2>3, WaitsKeepRight
  <2>4. ASSUME NEW r \in Runner, NEW d \in Doc,
               \/ Saving(r, d) \/ Submit(r, d) \/ Reads(r, d) \/ PassAddRows(r, d)
               \/ QuarantineFailed(r, d)
        PROVE  IndexedRight'
    BY <2>4, SavingKeepsRight, SubmitKeepsRight, ReadsKeepRight, AddsKeepRight
  <2>5. QED
    BY <1>2, <2>1, <2>2, <2>3, <2>4, Steps
<1>3. CASE UNCHANGED vars
  BY <1>1, <1>3 DEF vars, diskVars, queueVars
<1>4. QED
  BY <1>2, <1>3

LEMMA RightInit ==
  ASSUME Init
  PROVE  IndexedRight
<1>1. /\ files = [s \in Site |-> NoFiles] /\ dir = [d \in Doc |-> NoDir]
      /\ index = [d \in Doc |-> <<>>] /\ queue.at = "idle" /\ pass = [r \in Runner |-> PassIdle]
      /\ setup \in Setups
  BY DEF Init, DiskInit, QueueInit, QueueIdle
<1>2. NoFiles.final = NoContent /\ NoDir.state = "absent" /\ PassIdle.at = "idle" /\ PassIdle.doc = {}
  BY DEF NoFiles, NoDir, PassIdle
<1>3. \A p \in setup.inbox : site[p] \in Site
  BY <1>1, Constants DEF site
<1>4. Len(<<>>) <= 1
  BY Empties
<1>5. QED
  BY <1>1, <1>2, <1>3, <1>4 DEF IndexedRight, Alone, OwnFiles, InOrder, OfItsDoc, Once

(* The chunks filed under an identity are that document's, if files have   *)
(* artifact paths of their own or nothing disturbs the passes that share   *)
(* them; those of a parked document have their context; and they are filed *)
(* once unless a pass overlaps another one, the queue ingests what a pass  *)
(* does, or the count of the rows of an identity fails.  Any number of     *)
(* calls may fail and any process may crash.                               *)
THEOREM IndexIsRight == Spec => []IndexIsSound
<1>1. Init => Inv /\ IndexedRight
  BY InvInit, RightInit
<1>2. Inv /\ IndexedRight /\ [Next]_vars => (Inv /\ IndexedRight)'
  BY InvKept, RightKept
<1>3. Inv /\ IndexedRight => IndexIsSound
  BY DEF Inv, IndexInv, Made, IndexedRight, OfItsDoc, Once, IndexIsSound
<1>4. QED
  BY <1>1, <1>2, <1>3, PTL DEF Spec
=============================================================================
