---------------------------- MODULE AnswerCache ----------------------------
(***************************************************************************)
(* The two tables of cache.sqlite3 that hold AI answers: exact_cache       *)
(* (URPCache, python/urp/cache.py) and semantic_cache (SemanticCache,      *)
(* python/urp/semantic_cache.py).  Every handler opens its own URPCache    *)
(* and SemanticCache, so their locks order nothing between handlers: what  *)
(* is atomic is one SQLite transaction.                                    *)
(***************************************************************************)
EXTENDS Integers

CONSTANTS
  Query,       \* normalized requests, with the tenant and namespace they are made in
  Answer,      \* what providers answer and clients store
  Accepted,    \* the answers that the verifier of their kind accepts
  Score(_, _), \* semantic_similarity of two texts
  Unit,        \* the work units of the gateway
  None,        \* no row, no answer, nobody
  ClientValue, \* the values clients store (see ClientAssumption)
  MaxTime,     \* bound: the last instant
  MaxStores    \* bound: how many values clients store

(* A request: its kind, scope, text and source fingerprints, its ttl       *)
(* (cache_ttl_seconds, else freshness_required_seconds), whether it allows *)
(* semantic answers and from which similarity on, and whether it brings an *)
(* approval that verifies.                                                 *)
ASSUME QueryAssumption ==
  \A q \in Query :
    /\ q.kind \in {"chat", "embedding"}
    /\ {q.ttl, q.threshold} \subseteq Nat
    /\ {q.semantic, q.approved} \subseteq BOOLEAN
ASSUME AnswerAssumption == Accepted \subseteq Answer
ASSUME NoneAssumption == None \notin Unit /\ None \notin Answer /\ None \notin Query
(* Whoever knows a key may store under it, with any fingerprints and ttl:  *)
(* the value passes the verifier the client names.                         *)
ASSUME ClientAssumption ==
  \A v \in ClientValue :
    /\ v.query \in Query /\ v.answer \in Answer
    /\ v.sources \in {q.sources : q \in Query} /\ v.ttl \in Nat \ {0}
ASSUME BoundAssumption == MaxTime \in Nat /\ MaxStores \in Nat

VARIABLES
  exact,    \* exact_cache: the row of each query's exact_key, or None
  semantic, \* semantic_cache: the row of each topic, or None
  now,      \* time.time()
  stores    \* how many values clients have stored

cacheVars == <<exact, semantic, now, stores>>

(* SemanticCache.store's key: of the conversation only the last user text. *)
TopicOf(q) == [namespace |-> q.namespace, text |-> q.text, sources |-> q.sources]
Topic == {TopicOf(q) : q \in Query}
Sources == {q.sources : q \in Query}

CacheInit ==
  /\ exact = [q \in Query |-> None]
  /\ semantic = [k \in Topic |-> None]
  /\ now = 0
  /\ stores = 0

(* _expiry.                                                                *)
Expiry(ttl) == now + ttl

(* A row and who made it (None: a client of /v1/cache/store).              *)
NewRow(a, s, ttl, by) ==
  [answer |-> a, sources |-> s, created |-> now, expires |-> Expiry(ttl), by |-> by]
Row == [answer : Answer, sources : Sources, created : 0..MaxTime,
        expires : Int, by : Unit \cup {None}]

ASSUME RowAssumption == None \notin Row

(* Mutant of Expired: one instant early.                                   *)
EarlyExpired(row) == row.expires <= now + 1

Expired(row) == row.expires <= now

(* Mutant of SameSources: fingerprints are not compared.                   *)
AnySources(row, q) == TRUE

(* verify_source_fingerprints.                                             *)
SameSources(row, q) == row.sources = q.sources

(* What URPCache.get makes of the row it reads: a row with other           *)
(* fingerprints is left alone.  (The scope is part of the key.)            *)
MatchesExactly(row, q) == row # None /\ SameSources(row, q)
Gets(row, q) == MatchesExactly(row, q) /\ ~Expired(row)

(* The rows SemanticCache.lookup_hit iterates over, ...                    *)
InScope(q) == {k \in Topic : semantic[k] # None /\ k.namespace = q.namespace}
ExpiredRows(q) == {k \in InScope(q) : Expired(semantic[k])}

(* ... those it may answer from, and the best of them.                     *)
Candidates(q) ==
  {k \in InScope(q) \ ExpiredRows(q) :
     SameSources(semantic[k], q) /\ Score(q.text, k.text) >= q.threshold}
Best(q) ==
  {k \in Candidates(q) : \A l \in Candidates(q) : Score(q.text, k.text) >= Score(q.text, l.text)}

(* One transaction each.                                                   *)
PutExact(q, row) == exact' = [exact EXCEPT ![q] = row]
DeleteExact(q) == exact' = [exact EXCEPT ![q] = None]
PutSemantic(q, row) == semantic' = [semantic EXCEPT ![TopicOf(q)] = row]
DeleteSemantic(k) == semantic' = [semantic EXCEPT ![k] = None]

(* POST /v1/cache/store.                                                   *)
StoreByClient(v) ==
  /\ stores < MaxStores
  /\ stores' = stores + 1
  /\ PutExact(v.query, NewRow(v.answer, v.sources, v.ttl, None))
  /\ UNCHANGED <<semantic, now>>

Tick ==
  /\ now < MaxTime
  /\ now' = now + 1
  /\ UNCHANGED <<exact, semantic, stores>>

CacheTypeOK ==
  /\ exact \in [Query -> Row \cup {None}]
  /\ semantic \in [Topic -> Row \cup {None}]
  /\ now \in 0..MaxTime
  /\ stores \in 0..MaxStores
=============================================================================
