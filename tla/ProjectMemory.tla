--------------------------- MODULE ProjectMemory ---------------------------
(***************************************************************************)
(* The memory of a project and how a turn adds to it:                      *)
(* persistence/postgres_memory_store.py, agents/memory_resolver.py,        *)
(* agents/memory_extractor.py.                                             *)
(*                                                                         *)
(* A turn reads the memory, and once it has its answer has a model extract *)
(* items from the exchange, resolves them against what is known and        *)
(* commits the result in one transaction.  Turns of other chats of the     *)
(* project do the same meanwhile.  Facts are one value a key; issues,      *)
(* attempts, constraints and preferences are only ever added or refreshed. *)
(***************************************************************************)
EXTENDS TurnControl, Integers, FiniteSets

CONSTANTS
  FactKey,
  Mutable,     \* keys of MUTABLE_FACT_KEYS and MUTABLE_FACT_PREFIXES
  MemoryItem,  \* what an extraction may yield: [kind, key, value, user, sure]
  Learned      \* bound of the model: the items among which a turn's are

ASSUME MemoryAssumption ==
  /\ Mutable \subseteq FactKey
  /\ \A i \in MemoryItem : /\ i.kind \in {"fact", "issue", "other"}
                           /\ i.kind = "fact" => i.key \in FactKey
  /\ Learned \in [Turn -> SUBSET MemoryItem]

VARIABLES
  fact,        \* project_facts: value and updated_at of every key
  superseded,  \* candidate rows with status superseded: <<key, value>>
  known,       \* committed items that are not facts
  pending,     \* candidate and conflicted rows, per chat (a turn's own)
  seen,        \* _snapshot_cache of the turn's store, with its timestamps
  extracted,   \* turn.extracted_memory
  resolution   \* turn.memory_resolution

memoryVars == <<fact, superseded, known, pending, seen, extracted, resolution>>

None == {}

Unknown == [value |-> "", stamp |-> 0]

(* The fields of a resolution, and a history field: what project_facts     *)
(* held when the turn resolved.                                            *)
NoResolution == [made |-> FALSE, commit |-> {}, keep |-> {}, replace |-> {}, held |-> None]

MemoryTypeOK ==
  /\ \A k \in FactKey : fact[k].stamp \in Nat
  /\ \A s \in superseded : s[1] \in FactKey
  /\ known \subseteq MemoryItem
  /\ \A t \in Turn : /\ pending[t] \subseteq MemoryItem
                     /\ extracted[t] \in SUBSET MemoryItem
                     /\ resolution[t].commit \subseteq MemoryItem

MemoryInit ==
  /\ fact = [k \in FactKey |-> Unknown]
  /\ superseded = {} /\ known = {}
  /\ pending = [t \in Turn |-> {}]
  /\ seen = [t \in Turn |-> None]
  /\ extracted = [t \in Turn |-> {}]
  /\ resolution = [t \in Turn |-> NoResolution]

(* begin_turn and end_turn.                                                *)
ForgetSnapshot(t) == seen' = [seen EXCEPT ![t] = None]

(* _load_raw_data behind format_memory_snapshot.                           *)
LoadSnapshot(t) ==
  /\ seen' = [seen EXCEPT ![t] = IF @ = None THEN {fact} ELSE @]
  /\ UNCHANGED <<fact, superseded, known, pending, extracted, resolution>>

(* _normalize_facts keeps the first of several items for a key.            *)
Extractions(t) ==
  {x \in SUBSET Learned[t] :
     \A i, j \in x : (i.kind = "fact" /\ j.kind = "fact" /\ i.key = j.key) => i = j}

(* call_api: whatever goes wrong yields an empty result.                   *)
Extract(t) ==
  /\ extracted' \in {[extracted EXCEPT ![t] = x] : x \in Extractions(t)}
  /\ UNCHANGED <<fact, superseded, known, pending, seen, resolution>>

-----------------------------------------------------------------------------
(* MemoryResolver.                                                         *)

Differs(i, facts) == facts[i.key].value \notin {"", i.value}

(* _resolve_fact and the four others: what becomes of an item.             *)
Vouched(i) ==
  CASE i.kind = "fact"  -> i.user /\ i.sure
    [] i.kind = "issue" -> i.sure
    [] OTHER            -> i.user

Committable(i, facts) ==
  Vouched(i) /\ (i.kind = "fact" /\ Differs(i, facts) => i.key \in Mutable)

Resolved(x, facts) ==
  LET commit == {i \in x : Committable(i, facts)}
  IN  [made |-> TRUE, commit |-> commit, keep |-> x \ commit,
       replace |-> {<<i.key, facts[i.key].value>> :
                      i \in {j \in commit : j.kind = "fact" /\ Differs(j, facts)}},
       held |-> {fact}]

(* is_snapshot_stale: a turn that has read nothing is never stale.         *)
Stale(t) ==
  \E facts \in seen[t] : \E k \in FactKey : facts[k].stamp # fact[k].stamp

(* Faulty: what the turn read at its beginning is resolved against.        *)
ResolveAgainstCache(t) ==
  LET facts == IF seen[t] = None THEN fact ELSE CHOOSE f \in seen[t] : TRUE
  IN  /\ resolution' = [resolution EXCEPT ![t] = Resolved(extracted[t], facts)]
      /\ seen' = [seen EXCEPT ![t] = {facts}]
      /\ UNCHANGED <<fact, superseded, known, pending, extracted>>

(* _resolve_memory: load_snapshot, or load_snapshot_fresh when it is stale.*)
Resolve(t) ==
  LET facts == IF seen[t] = None \/ Stale(t) THEN fact ELSE CHOOSE f \in seen[t] : TRUE
  IN  /\ resolution' = [resolution EXCEPT ![t] = Resolved(extracted[t], facts)]
      /\ seen' = [seen EXCEPT ![t] = {facts}]
      /\ UNCHANGED <<fact, superseded, known, pending, extracted>>

(* An error on the way leaves no resolution; the turn goes on.             *)
NothingResolved(t) ==
  /\ resolution' = [resolution EXCEPT ![t] = NoResolution]
  /\ UNCHANGED <<fact, superseded, known, pending, seen, extracted>>

-----------------------------------------------------------------------------

Rewritten(k, r) ==
  LET new == {i \in r.commit : i.kind = "fact" /\ i.key = k}
  IN  IF new = {} THEN fact[k]
      ELSE [value |-> (CHOOSE i \in new : TRUE).value, stamp |-> fact[k].stamp + 1]

(* commit_resolution.  It does not look at the facts again before it       *)
(* overwrites them.                                                        *)
Commit(t) ==
  LET r == resolution[t]
  IN  /\ fact' = [k \in FactKey |-> Rewritten(k, r)]
      /\ superseded' = superseded \cup r.replace
      /\ known' = known \cup {i \in r.commit : i.kind # "fact"}
      /\ pending' = [pending EXCEPT ![t] = r.keep]
      /\ UNCHANGED <<seen, extracted, resolution>>

-----------------------------------------------------------------------------

(* Did another turn write this fact after t had resolved?                  *)
Overtaken(t, k) ==
  resolution[t].made /\ \E facts \in resolution[t].held : facts[k].stamp # fact[k].stamp

(* What the project believes changes on the record: a fact's old value is  *)
(* kept as superseded when another takes its place, whatever was committed *)
(* between the beginning of the turn and its resolution.  Only a commit    *)
(* that falls between another turn's resolution and its commit is          *)
(* overwritten without a trace (is_snapshot_stale, _resolve_fact,          *)
(* commit_resolution).                                                     *)
FactsChangeOnTheRecord ==
  [][\A k \in FactKey :
       \/ fact[k].value \in {"", fact'[k].value}
       \/ <<k, fact[k].value>> \in superseded'
       \/ \E t \in Turn : Commit(t) /\ Overtaken(t, k)]_memoryVars

=============================================================================
