---------------------------- MODULE EvidencePool ----------------------------
(***************************************************************************)
(* What a turn has read so far, and how that steers its next search:       *)
(* orchestration/evidence_pool.py, _retrieve_with_pool of                  *)
(* orchestration/model_router.py and retrieve_context_result of            *)
(* retrieval/search_pipeline.py.                                           *)
(*                                                                         *)
(* A search ranks chunks of documents; the best are anchors, and each      *)
(* anchor brings the chunks of the pages around it.  What the turn was     *)
(* shown before is left out, what it is shown now becomes coverage.  The   *)
(* ranking is a choice; usefulness, exhaustion and the gate only word the  *)
(* answer given to the model (no search is refused) and are left out.      *)
(***************************************************************************)
EXTENDS TurnControl, Integers, Sequences, FiniteSets, SequencesExt

CONSTANTS
  Chunk,          \* [source, title, first, last]; first = 0: no page number
  WithColon,      \* the titles and the identities that have a colon in them
  Query,          \* what is asked, with its labels, gap and hints
  NeighborPages,  \* neighbor_pages
  TopK,           \* final_top_k
  MaxExpanded,    \* max_expanded
  MaxSearches     \* bound of the model: searches of each turn's pool

ASSUME PoolAssumption ==
  /\ \A c \in Chunk : c.first \in Nat /\ c.last \in Nat /\ c.first <= c.last
  /\ {NeighborPages, TopK, MaxExpanded} \subseteq Nat
  /\ MaxSearches \in [Turn -> Nat]

VARIABLE pool   \* EvidencePool of each turn

-----------------------------------------------------------------------------
(* Chunks and the windows around them.                                     *)

PageLess(c) == c.first = 0

(* A delivered block names its source by title, a chunk by identity.       *)
PagesUnder(name, c) == IF PageLess(c) THEN {} ELSE {name} \X (c.first..c.last)

TitlePages(c) == PagesUnder(c.title, c)

Overlap(c, first, last) == c.first <= last /\ first <= c.last

(* _build_anchor_bundle: the stored chunks that touch the window.          *)
Bundle(a) ==
  IF PageLess(a) THEN {a}
  ELSE {c \in Chunk : /\ c.source = a.source
                      /\ ~ PageLess(c)
                      /\ Overlap(c, a.first - NeighborPages, a.last + NeighborPages)}

(* _doc_is_excluded: a chunk with pages goes by its pages alone.           *)
Excluded(p, c) ==
  IF PageLess(c) THEN c \in p.singles
  ELSE (PagesUnder(c.source, c) \cup TitlePages(c)) \cap p.covered # {}

(* What the bundles of the first n anchors hold that may be shown.         *)
Gathered(p, anchors, n) ==
  {c \in UNION {Bundle(anchors[i]) : i \in 1..n} : ~ Excluded(p, c)}

(* The loop over the anchors: one that brings nothing is skipped, one that *)
(* would exceed the limit ends it unless nothing is selected yet.          *)
BreaksOff(p, anchors, n) ==
  /\ Gathered(p, anchors, n - 1) \notin {{}, Gathered(p, anchors, n)}
  /\ Cardinality(Gathered(p, anchors, n)) > MaxExpanded

Retrieve(p, anchors) ==
  LET reached == {n \in 0..Len(anchors) : \A m \in 1..n : ~ BreaksOff(p, anchors, m)}
  IN  UNION {Gathered(p, anchors, n) : n \in reached}

(* _add_covered_region takes the name of a document and the pages out of a *)
(* key that it splits at the colons, and notes nothing when a title with a *)
(* colon leaves no page numbers where it looks for them; the key of a      *)
(* singleton, taken apart by retrieve_context_result, is another one when  *)
(* the identity has a colon.                                               *)
Noted(c) == (IF PageLess(c) THEN c.source ELSE c.title) \notin WithColon

(* merge_context_chunks cuts a bundle into runs of adjoining pages, one    *)
(* block each: the windows of the blocks hold the delivered pages and no   *)
(* other.                                                                  *)
DeliveredPages(chunks) == UNION {TitlePages(c) : c \in chunks}

(* The metadata of the result: the windows and, of the chunks without a    *)
(* page, the keys of the singletons.                                       *)
Delivered(chunks) ==
  [pages |-> DeliveredPages(chunks), singles |-> {c \in chunks : PageLess(c)}]

-----------------------------------------------------------------------------
(* The pool.                                                               *)

EmptyPool == [covered |-> {}, singles |-> {}, cache |-> {}, results |-> <<>>]

(* results has the chunks of every answer, in order.                       *)
PoolTypeOK ==
  \A t \in Turn :
    /\ pool[t].covered \subseteq UNION {TitlePages(c) : c \in Chunk}
    /\ pool[t].singles \subseteq Chunk
    /\ pool[t].results \in Seq(SUBSET Chunk)
    /\ Len(pool[t].results) <= MaxSearches[t]

PoolInit == pool = [t \in Turn |-> EmptyPool]

(* Faulty: an answer is remembered for its question alone.                 *)
FingerprintOfQuery(p, q) == <<q>>

(* _retrieval_fingerprint names what is to be left out, so that an answer  *)
(* is found again only while the coverage is what it was.                  *)
Fingerprint(p, q) == <<q, p.covered, p.singles>>

Cached(p, q) == {e.answer : e \in {x \in p.cache : x.key = Fingerprint(p, q)}}

(* record_evidence_from_result.                                            *)
RecordEvidence(p, chunks) ==
  LET new == Delivered({c \in chunks : Noted(c)})
  IN  [p EXCEPT !.covered = @ \cup new.pages, !.singles = @ \cup new.singles]

(* _rank_candidates: which chunks are found, and in which order, is the    *)
(* business of the index and the reranker.                                 *)
Ranking == {a \in SeqOf(Chunk, TopK) : IsInjective(a)}

FreshAnswer(p, q, anchors) ==
  LET found == Retrieve(p, anchors)
  IN  [RecordEvidence(p, found) EXCEPT
         !.cache = @ \cup {[key |-> Fingerprint(p, q), answer |-> found]},
         !.results = Append(@, found)]

(* _retrieve_with_pool.                                                    *)
Search(t) ==
  LET p == pool[t]
  IN  /\ Len(p.results) < MaxSearches[t]
      /\ \E q \in Query :
           IF Cached(p, q) # {}
           THEN \E found \in Cached(p, q) :
                  pool' = [pool EXCEPT ![t].results = Append(@, found)]
           ELSE \E anchors \in Ranking :
                  pool' = [pool EXCEPT ![t] = FreshAnswer(p, q, anchors)]

-----------------------------------------------------------------------------

Read(t) == UNION {pool[t].results[i] : i \in DOMAIN pool[t].results}

(* No search of a turn, the router's own or a role's, fresh or answered    *)
(* from the cache, shows a chunk that an earlier one has shown             *)
(* (coverage_as_excluded_page_windows, _doc_is_excluded), but for the      *)
(* chunks of a document whose name the pool cannot note.                   *)
NothingIsReadTwice ==
  \A t \in Turn : \A i, j \in DOMAIN pool[t].results :
    i < j => \A c \in pool[t].results[i] \cap pool[t].results[j] : ~ Noted(c)

=============================================================================
