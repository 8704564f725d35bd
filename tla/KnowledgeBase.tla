--------------------------- MODULE KnowledgeBase ---------------------------
(***************************************************************************)
(* The knowledge base: index_execution stores an execution with its         *)
(* embedding and counts failures by signature, POST /knowledge/search finds *)
(* the nearest usable executions, GET /knowledge/suggest says whether the   *)
(* nearest one is worth reusing.  An embedding is known by its distance     *)
(* from the one query, in hundredths: 0 .. 200, or NaN for a zero vector.   *)
(* (A pipeline run never gets as far as index_execution, see PipelineRun;   *)
(* this is what the table's operations do when they are called.)            *)
(***************************************************************************)
EXTENDS Integers, FiniteSets, FiniteSetsExt

CONSTANTS
    Old,            \* executions in the table from the beginning, all usable
    Indexings,      \* calls of index_execution, each in a session of its own
    Searches,       \* requests to POST /knowledge/search
    Suggests,       \* requests to GET /knowledge/suggest
    TopK,           \* top_k of the searches
    Dist,           \* cosine distance of an execution from the query
    NaN,
    Success,        \* executions with success
    Passed,         \* executions with ontology_passed
    Signature       \* what a failed execution is counted under

Executions == Old \cup Indexings
Asking     == Searches \cup Suggests
Signatures == {Signature[i] : i \in Indexings \ Success}

ASSUME KnowledgeAssumption ==
    /\ Old \cap Indexings = {} /\ Searches \cap Suggests = {}
    /\ Executions \cap Asking = {}
    /\ "nobody" \notin Indexings
    /\ IsFiniteSet(Executions)
    /\ TopK \in Nat \ {0}
    /\ NaN \notin Int
    /\ Dist \in [Executions -> 0 .. 200 \cup {NaN}]
    /\ Old \subseteq Success \cap Passed

VARIABLES
    rows,           \* committed AdkCodeExecution
    patterns,       \* committed occurrence_count by signature, 0: no such row
    holder,         \* who has written the row of a signature, uncommitted
    at,             \* where each call is
    found,          \* the occurrence_count that an indexing read
    hits,           \* what a search found
    advice,         \* what a suggestion says
    known           \* history: the rows at the moment of an answer

knowledgeVars == <<rows, patterns, holder, at, found, hits, advice, known>>

NoAdvice == [action |-> "none", match |-> "none"]

KnowledgeInit ==
    /\ rows = Old
    /\ patterns = [s \in Signatures |-> 0]
    /\ holder = [s \in Signatures |-> "nobody"]
    /\ at = [c \in Indexings \cup Asking |-> "idle"]
    /\ found = [i \in Indexings |-> 0]
    /\ hits = [c \in Searches |-> {}]
    /\ advice = [c \in Suggests |-> NoAdvice]
    /\ known = [c \in Asking |-> {}]

---------------------------------------------------------------------------
(* index_execution *)

\* The embedding, its dimension and the ontology; each may raise.
Embed(i) ==
    /\ i \in Indexings
    /\ at[i] = "idle"
    /\ \E next \in {"valid", "failed"} : at' = [at EXCEPT ![i] = next]
    /\ UNCHANGED <<rows, patterns, holder, found, hits, advice, known>>

\* Mutant: the count starts from one.
BumpFromOne(i) ==
    /\ i \in Indexings
    /\ at[i] = "valid"
    /\ found' = [found EXCEPT ![i] = IF i \in Success THEN 0 ELSE patterns[Signature[i]] + 1]
    /\ at' = [at EXCEPT ![i] = "staged"]
    /\ UNCHANGED <<rows, patterns, holder, hits, advice, known>>

\* _bump_failure reads the count of the signature; a success counts nothing.
BumpFailure(i) ==
    /\ i \in Indexings
    /\ at[i] = "valid"
    /\ found' = [found EXCEPT ![i] = IF i \in Success THEN 0 ELSE patterns[Signature[i]]]
    /\ at' = [at EXCEPT ![i] = "staged"]
    /\ UNCHANGED <<rows, patterns, holder, hits, advice, known>>

\* The flush inserts the execution and writes the pattern, waiting for another
\* transaction that has written it; a second row for the signature is refused.
Flush(i) ==
    /\ at[i] = "staged"
    /\ \/ i \in Success /\ at' = [at EXCEPT ![i] = "flushed"] /\ UNCHANGED holder
       \/ /\ i \notin Success /\ holder[Signature[i]] = "nobody"
          /\ IF found[i] = 0 /\ patterns[Signature[i]] > 0
             THEN at' = [at EXCEPT ![i] = "failed"] /\ UNCHANGED holder
             ELSE /\ at' = [at EXCEPT ![i] = "flushed"]
                  /\ holder' = [holder EXCEPT ![Signature[i]] = i]
    /\ UNCHANGED <<rows, patterns, found, hits, advice, known>>

Released(i) == [s \in Signatures |-> IF holder[s] = i THEN "nobody" ELSE holder[s]]

\* The session of the caller commits, or the database fails.
CommitIndexing(i) ==
    /\ at[i] = "flushed"
    /\ rows' = rows \cup {i}
    /\ patterns' = [s \in Signatures |-> IF holder[s] = i THEN found[i] + 1 ELSE patterns[s]]
    /\ holder' = Released(i)
    /\ at' = [at EXCEPT ![i] = "done"]
    /\ UNCHANGED <<found, hits, advice, known>>

RollbackIndexing(i) ==
    /\ at[i] \in {"failed", "flushed"}
    /\ holder' = Released(i)
    /\ at' = [at EXCEPT ![i] = "done"]
    /\ UNCHANGED <<rows, patterns, found, hits, advice, known>>

---------------------------------------------------------------------------
(* Searching *)

\* PostgreSQL sorts NaN after every number.
Nearer(a, b) == Dist[a] # NaN /\ (Dist[b] = NaN \/ Dist[a] < Dist[b])

\* ORDER BY distance LIMIT n, ties in any order: the sets that may come out.
Nearest(S, n) ==
    {W \in kSubset(IF Cardinality(S) < n THEN Cardinality(S) ELSE n, S) :
        \A a \in W, b \in S \ W : ~Nearer(b, a)}

\* max(0.0, min(1.0, 1.0 - d)); Python's min(1.0, nan) is 1.0.
Score(e) == IF Dist[e] = NaN THEN 100 ELSE IF Dist[e] > 100 THEN 0 ELSE 100 - Dist[e]

\* Mutant: whatever was executed is usable.
UsableAll(S) == S

Usable(S) == S \cap Success \cap Passed

\* find_similar: a window of the nearest usable rows, those of them that are
\* similar enough, the first top_k of these.
FindSimilar(S) ==
    LET window == IF TopK * 4 > 8 THEN TopK * 4 ELSE 8 IN
    UNION {Nearest({e \in W : Score(e) >= 80}, TopK) : W \in Nearest(Usable(S), window)}

Search(c) ==
    /\ c \in Searches
    /\ at[c] = "idle"
    /\ \E H \in FindSimilar(rows) : hits' = [hits EXCEPT ![c] = H]
    /\ known' = [known EXCEPT ![c] = rows]
    /\ at' = [at EXCEPT ![c] = "done"]
    /\ UNCHANGED <<rows, patterns, holder, found, advice>>

\* Mutant: the boundary of a reference is not one.
ActionAbove(score) ==
    IF score >= 95 THEN "reuse" ELSE IF score > 80 THEN "reference" ELSE "new"

\* get_reuse_suggestion's tags.
Action(score) ==
    IF score >= 95 THEN "reuse" ELSE IF score >= 80 THEN "reference" ELSE "new"

\* _nearest_one, and what get_reuse_suggestion makes of it.
Suggest(c) ==
    /\ c \in Suggests
    /\ at[c] = "idle"
    /\ \E W \in Nearest(Usable(rows), 1) :
          advice' = [advice EXCEPT ![c] =
             IF W = {} THEN [action |-> "new", match |-> "none"]
             ELSE LET e == CHOOSE x \in W : TRUE IN
                  [action |-> Action(Score(e)), match |-> e]]
    /\ known' = [known EXCEPT ![c] = rows]
    /\ at' = [at EXCEPT ![c] = "done"]
    /\ UNCHANGED <<rows, patterns, holder, found, hits>>

KnowledgeIdle == \A c \in DOMAIN at : at[c] = "idle"

KnowledgeQuiet ==
    /\ \A c \in DOMAIN at : at[c] = "done"
    /\ UNCHANGED knowledgeVars

KnowledgeNext ==
    \/ \E i \in Indexings : \/ Embed(i) \/ BumpFailure(i) \/ Flush(i)
                            \/ CommitIndexing(i) \/ RollbackIndexing(i)
    \/ \E c \in Asking : Search(c) \/ Suggest(c)
    \/ KnowledgeQuiet

KnowledgeSpec == KnowledgeInit /\ [][KnowledgeNext]_knowledgeVars

---------------------------------------------------------------------------
\* A pattern is there as soon as a failure with its signature is, and its count is
\* never more than these: concurrent bumps may be lost, none is made up, and one that
\* is refused takes its execution with it.
PatternsCount ==
    \A s \in Signatures :
        LET failures == {i \in rows \cap (Indexings \ Success) : Signature[i] = s} IN
        /\ patterns[s] > 0 <=> failures # {}
        /\ patterns[s] <= Cardinality(failures)

\* A search answers with the top_k nearest of all similar, usable executions: the
\* window that is cut before the filter loses none of them.  (Rows at distance NaN,
\* which score as identical, may come on top.)
SearchIsNearest ==
    \A c \in Searches : at[c] = "done" =>
        LET numbers == {e \in Executions : Dist[e] # NaN}
            similar == {e \in known[c] \cap numbers \cap Success \cap Passed : Dist[e] <= 20} IN
        /\ hits[c] \cap numbers \in Nearest(similar, TopK)
        /\ hits[c] \subseteq Usable(known[c])

\* Suggestions agree with searches: once a search has found an execution, no later
\* suggestion is to start anew, or matches one that is further away.
SuggestionFollowsSearch ==
    \A c \in Searches, d \in Suggests :
        at[c] = "done" /\ at[d] = "done" /\ known[c] \subseteq known[d] =>
            \A e \in hits[c] : Dist[e] # NaN =>
                /\ advice[d].action # "new"
                /\ ~Nearer(e, advice[d].match)
============================================================================
