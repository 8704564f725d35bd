--------------------------- MODULE Advice_proofs ---------------------------
(***************************************************************************)
(* What a developer is told before there is any code: proofs about the      *)
(* knowledge base, for any executions, distances, signatures and top_k, and *)
(* about architecture decisions, for any debates and any texts.             *)
(***************************************************************************)
EXTENDS KnowledgeBase, ArchitectureDecision, FiniteSetTheorems, WellFoundedInduction,
        SequenceTheorems, TLAPS

Stages == {"idle", "valid", "staged", "flushed", "failed", "done"}

\* The failures on record under a signature.
Failures(s) == {i \in rows \cap (Indexings \ Success) : Signature[i] = s}

\* The types of what indexing writes.
IndexingType ==
    /\ rows \subseteq Executions
    /\ patterns \in [Signatures -> Nat]
    /\ holder \in [Signatures -> Indexings \cup {"nobody"}]
    /\ at \in [Indexings \cup Asking -> Stages]
    /\ found \in [Indexings -> Nat]

\* Who holds the row of a signature, and what it has read of it.
Counting ==
    /\ \A i \in Indexings : i \in rows => at[i] = "done"
    /\ \A s \in Signatures : holder[s] # "nobody" =>
          at[holder[s]] = "flushed" /\ holder[s] \notin Success /\ Signature[holder[s]] = s
    /\ \A i \in Indexings \ Success :
          /\ at[i] = "flushed" => holder[Signature[i]] = i
          /\ at[i] \in {"staged", "flushed"} => found[i] <= Cardinality(Failures(Signature[i]))

CountInv ==
    /\ IndexingType
    /\ Counting
    /\ \A s \in Signatures :
          /\ patterns[s] > 0 <=> Failures(s) # {}
          /\ patterns[s] <= Cardinality(Failures(s))

\* Failures are finitely many.
LEMMA FailuresFinite ==
    ASSUME IndexingType, NEW s
    PROVE  IsFiniteSet(Failures(s)) /\ Cardinality(Failures(s)) \in Nat
<1>1. Failures(s) \subseteq Executions
  BY DEF Failures, IndexingType
<1>2. IsFiniteSet(Failures(s))
  BY <1>1, KnowledgeAssumption, FS_Subset
<1> QED  BY <1>2, FS_CardinalityType

\* A failure has a signature.
LEMMA SignatureOf ==
    ASSUME NEW i \in Indexings, i \notin Success
    PROVE  Signature[i] \in Signatures
BY DEF Signatures

LEMMA CountStart == KnowledgeInit => CountInv
<1> SUFFICES ASSUME KnowledgeInit  PROVE CountInv
  OBVIOUS
<1>1. IndexingType
  BY DEF KnowledgeInit, IndexingType, Stages, Executions
<1>2. ASSUME NEW s
      PROVE  Failures(s) = {}
  BY KnowledgeAssumption DEF KnowledgeInit, Failures
<1>3. Counting
  BY KnowledgeAssumption DEF KnowledgeInit, Counting, Asking
<1>4. \A s \in Signatures : patterns[s] = 0
  BY DEF KnowledgeInit
<1>5. Cardinality({}) = 0
  BY FS_EmptySet
<1>6. ASSUME NEW s \in Signatures
      PROVE  /\ patterns[s] > 0 <=> Failures(s) # {}
             /\ patterns[s] <= Cardinality(Failures(s))
  BY <1>2, <1>4, <1>5, <1>6
<1> QED  BY <1>1, <1>3, <1>6 DEF CountInv

\* A step that changes neither the table nor the counts keeps them in order.
LEMMA CountUnread ==
    ASSUME CountInv, UNCHANGED <<rows, patterns, holder>>, IndexingType', Counting'
    PROVE  CountInv'
<1>1. ASSUME NEW s
      PROVE  Failures(s)' = Failures(s)
  BY DEF Failures
<1> QED  BY <1>1 DEF CountInv

LEMMA EmbedCounts ==
    ASSUME CountInv, NEW i \in Indexings, Embed(i)
    PROVE  CountInv'
<1> USE DEF CountInv, IndexingType, Stages
<1>1. /\ UNCHANGED <<rows, patterns, holder, found>>
      /\ at[i] = "idle"
      /\ \E next \in {"valid", "failed"} : at' = [at EXCEPT ![i] = next]
  BY DEF Embed
<1>2. IndexingType'
  BY <1>1
<1>3. Counting'
  <2>1. ASSUME NEW s
        PROVE  Failures(s)' = Failures(s)
    BY <1>1 DEF Failures
  <2> QED  BY <1>1, <2>1 DEF Counting
<1> QED  BY <1>1, <1>2, <1>3, CountUnread

\* What is read is no more than the failures on record.
LEMMA BumpFailureCounts ==
    ASSUME CountInv, NEW i \in Indexings, BumpFailure(i)
    PROVE  CountInv'
<1> USE DEF CountInv, IndexingType, Stages
<1>1. /\ UNCHANGED <<rows, patterns, holder>>
      /\ at[i] = "valid"
      /\ at' = [at EXCEPT ![i] = "staged"]
      /\ found' = [found EXCEPT ![i] = IF i \in Success THEN 0 ELSE patterns[Signature[i]]]
  BY DEF BumpFailure
<1>2. i \notin Success => Signature[i] \in Signatures
  BY SignatureOf
<1>3. IndexingType'
  BY <1>1, <1>2
<1>4. Counting'
  <2>1. ASSUME NEW s
        PROVE  Failures(s)' = Failures(s)
    BY <1>1 DEF Failures
  <2> QED  BY <1>1, <1>2, <2>1 DEF Counting
<1> QED  BY <1>1, <1>3, <1>4, CountUnread

LEMMA FlushCounts ==
    ASSUME CountInv, NEW i \in Indexings, Flush(i)
    PROVE  CountInv'
<1> USE DEF CountInv, IndexingType, Stages
<1>1. ASSUME NEW s
      PROVE  Failures(s)' = Failures(s)
  BY DEF Flush, Failures
<1>2. i \notin Success => Signature[i] \in Signatures
  BY SignatureOf
<1>3. UNCHANGED <<rows, patterns, found>> /\ at[i] = "staged"
  BY DEF Flush
<1>4. CASE UNCHANGED holder
  <2>1. \/ at' = [at EXCEPT ![i] = "flushed"] /\ i \in Success
        \/ at' = [at EXCEPT ![i] = "failed"]
    <3>1. i \in Indexings /\ "nobody" \notin Indexings
      BY KnowledgeAssumption
    <3> QED  BY <1>2, <1>4, <3>1 DEF Flush
  <2>2. IndexingType'
    BY <1>3, <1>4, <2>1
  <2>3. Counting'
    BY <1>1, <1>3, <1>4, <2>1 DEF Counting
  <2> QED  BY <1>1, <1>3, <2>2, <2>3
<1>5. CASE ~UNCHANGED holder
  <2>1. /\ i \notin Success /\ holder[Signature[i]] = "nobody"
        /\ at' = [at EXCEPT ![i] = "flushed"]
        /\ holder' = [holder EXCEPT ![Signature[i]] = i]
    BY <1>5 DEF Flush
  <2>2. IndexingType'
    BY <1>2, <1>3, <2>1
  <2>3. Counting'
    <3>1. \A s \in Signatures : holder'[s] # "nobody" =>
            at'[holder'[s]] = "flushed" /\ holder'[s] \notin Success /\ Signature[holder'[s]] = s
      BY <1>2, <2>1, KnowledgeAssumption DEF Counting
    <3>2. ASSUME NEW j \in Indexings \ Success, at'[j] = "flushed"
          PROVE  holder'[Signature[j]] = j
      <4>1. CASE j = i
        BY <1>2, <2>1, <4>1
      <4>2. CASE j # i
        <5>1. at[j] = "flushed" /\ holder[Signature[j]] = j
          BY <2>1, <3>2, <4>2 DEF Counting
        <5>2. Signature[j] # Signature[i] /\ Signature[j] \in Signatures
          BY <2>1, <5>1, KnowledgeAssumption, SignatureOf
        <5> QED  BY <1>2, <2>1, <5>1, <5>2
      <4> QED  BY <4>1, <4>2
    <3>3. \A j \in Indexings \ Success : at'[j] \in {"staged", "flushed"} =>
            found'[j] <= Cardinality(Failures(Signature[j])')
      BY <1>1, <1>3, <2>1 DEF Counting
    <3>4. \A j \in Indexings : j \in rows' => at'[j] = "done"
      BY <1>3, <2>1 DEF Counting
    <3> QED  BY <1>1, <3>1, <3>2, <3>3, <3>4 DEF Counting
  <2> QED  BY <1>1, <1>3, <2>2, <2>3
<1> QED  BY <1>4, <1>5

\* Nobody is left holding what a transaction that ends has held.
LEMMA ReleasedHolds ==
    ASSUME IndexingType, Counting, NEW i \in Indexings, holder' = Released(i),
           at' = [at EXCEPT ![i] = "done"]
    PROVE  /\ holder' \in [Signatures -> Indexings \cup {"nobody"}]
           /\ \A s \in Signatures : holder'[s] # "nobody" =>
                 /\ holder'[s] = holder[s] /\ holder[s] # i
                 /\ at'[holder'[s]] = "flushed"
           /\ \A j \in Indexings \ Success : j # i /\ at[j] = "flushed" => holder'[Signature[j]] = j
<1> USE DEF IndexingType, Counting, Released
<1>1. \A j \in Indexings \ Success : Signature[j] \in Signatures
  BY SignatureOf
<1> QED  BY <1>1

LEMMA RollbackIndexingCounts ==
    ASSUME CountInv, NEW i \in Indexings, RollbackIndexing(i)
    PROVE  CountInv'
<1> USE DEF CountInv, IndexingType, Stages
<1>1. UNCHANGED <<rows, patterns, found>> /\ at' = [at EXCEPT ![i] = "done"]
      /\ holder' = Released(i)
  BY DEF RollbackIndexing
<1>2. ASSUME NEW s
      PROVE  Failures(s)' = Failures(s)
  BY <1>1 DEF Failures
<1>3. IndexingType'
  BY <1>1, ReleasedHolds
<1>4. Counting'
  <2>1. ASSUME NEW s \in Signatures, holder'[s] # "nobody"
        PROVE  /\ at'[holder'[s]] = "flushed" /\ holder'[s] \notin Success
               /\ Signature[holder'[s]] = s
    <3>1. holder'[s] = holder[s] /\ at'[holder'[s]] = "flushed"
      BY <1>1, <2>1, ReleasedHolds
    <3> QED  BY <2>1, <3>1 DEF Counting
  <2> QED  BY <1>1, <1>2, <2>1, ReleasedHolds DEF Counting
<1> QED  BY <1>1, <1>2, <1>3, <1>4

\* One more failure on record, and a count that is one more than what was read, which
\* was no more than the failures without it.
LEMMA CommitIndexingCounts ==
    ASSUME CountInv, NEW i \in Indexings, CommitIndexing(i)
    PROVE  CountInv'
<1> USE DEF CountInv, IndexingType, Stages
<1>1. /\ UNCHANGED found /\ at[i] = "flushed" /\ at' = [at EXCEPT ![i] = "done"]
      /\ holder' = Released(i) /\ rows' = rows \cup {i}
      /\ patterns' = [s \in Signatures |-> IF holder[s] = i THEN found[i] + 1 ELSE patterns[s]]
  BY DEF CommitIndexing
<1>2. i \notin rows
  BY <1>1 DEF Counting
<1>3. ASSUME NEW s
      PROVE  Failures(s)' = IF i \notin Success /\ Signature[i] = s
                            THEN Failures(s) \cup {i} ELSE Failures(s)
  BY <1>1 DEF Failures
<1>4. ASSUME NEW s
      PROVE  /\ Cardinality(Failures(s)) \in Nat
             /\ Cardinality(Failures(s)') = IF i \notin Success /\ Signature[i] = s
                  THEN Cardinality(Failures(s)) + 1 ELSE Cardinality(Failures(s))
  <2>1. IsFiniteSet(Failures(s)) /\ Cardinality(Failures(s)) \in Nat /\ i \notin Failures(s)
    BY <1>2, FailuresFinite DEF Failures
  <2>2. Cardinality(Failures(s) \cup {i}) = Cardinality(Failures(s)) + 1
    BY <2>1, FS_AddElement
  <2> QED  BY <1>3, <2>1, <2>2
<1>5. IndexingType'
  <2>1. holder' \in [Signatures -> Indexings \cup {"nobody"}]
    BY <1>1, ReleasedHolds
  <2>2. rows' \subseteq Executions
    BY <1>1 DEF Executions
  <2>3. patterns' \in [Signatures -> Nat] /\ at' \in [Indexings \cup Asking -> Stages]
    BY <1>1
  <2> QED  BY <1>1, <2>1, <2>2, <2>3
<1>6. Counting'
  <2>1. \A j \in Indexings : j \in rows' => at'[j] = "done"
    BY <1>1 DEF Counting
  <2>2. ASSUME NEW s \in Signatures, holder'[s] # "nobody"
        PROVE  /\ at'[holder'[s]] = "flushed" /\ holder'[s] \notin Success
               /\ Signature[holder'[s]] = s
    <3>1. holder'[s] = holder[s] /\ at'[holder'[s]] = "flushed"
      BY <1>1, <2>2, ReleasedHolds
    <3> QED  BY <2>2, <3>1 DEF Counting
  <2>3. ASSUME NEW j \in Indexings \ Success, at'[j] \in {"staged", "flushed"}
        PROVE  found'[j] <= Cardinality(Failures(Signature[j])')
    <3>1. j # i /\ at[j] \in {"staged", "flushed"}
      BY <1>1, <2>3
    <3>2. found[j] <= Cardinality(Failures(Signature[j])) /\ found[j] \in Nat
      BY <2>3, <3>1 DEF Counting
    <3>3. /\ Cardinality(Failures(Signature[j])) \in Nat
          /\ Cardinality(Failures(Signature[j])') >= Cardinality(Failures(Signature[j]))
      BY <1>4
    <3> QED  BY <1>1, <3>2, <3>3, <1>4
  <2>4. ASSUME NEW j \in Indexings \ Success, at'[j] = "flushed"
        PROVE  holder'[Signature[j]] = j
    <3>1. j # i /\ at[j] = "flushed"
      BY <1>1, <2>4
    <3>2. \A k \in Indexings \ Success : k # i /\ at[k] = "flushed" => holder'[Signature[k]] = k
      BY <1>1, ReleasedHolds
    <3> QED  BY <2>4, <3>1, <3>2
  <2> QED  BY <2>1, <2>2, <2>3, <2>4 DEF Counting
<1>7. ASSUME NEW s \in Signatures
      PROVE  /\ patterns'[s] > 0 <=> Failures(s)' # {}
             /\ patterns'[s] <= Cardinality(Failures(s)')
  <2>1. CASE holder[s] = i
    <3>1. i \notin Success /\ Signature[i] = s
      BY <2>1, KnowledgeAssumption DEF Counting
    <3>2. patterns'[s] = found[i] + 1 /\ found[i] \in Nat /\ found[i] <= Cardinality(Failures(s))
      BY <1>1, <2>1, <3>1 DEF Counting
    <3> QED  BY <1>3, <1>4, <3>1, <3>2
  <2>2. CASE holder[s] # i
    <3>1. ~(i \notin Success /\ Signature[i] = s)
      BY <1>1, <2>2 DEF Counting
    <3> QED  BY <1>1, <1>3, <1>4, <2>2, <3>1
  <2> QED  BY <2>1, <2>2
<1> QED  BY <1>5, <1>6, <1>7

\* A request that reads only.
LEMMA AskingCounts ==
    ASSUME CountInv, NEW c \in Asking, Search(c) \/ Suggest(c)
    PROVE  CountInv'
<1> USE DEF CountInv, IndexingType, Stages
<1>1. UNCHANGED <<rows, patterns, holder, found>> /\ at' = [at EXCEPT ![c] = "done"]
  BY DEF Search, Suggest
<1>2. c \notin Indexings
  BY KnowledgeAssumption DEF Executions
<1>3. IndexingType'
  BY <1>1
<1>4. Counting'
  <2>1. ASSUME NEW s
        PROVE  Failures(s)' = Failures(s)
    BY <1>1 DEF Failures
  <2>2. \A i \in Indexings : at'[i] = at[i]
    BY <1>1, <1>2
  <2> QED  BY <1>1, <2>1, <2>2 DEF Counting
<1> QED  BY <1>1, <1>3, <1>4, CountUnread

\* The count of a signature stands between one and the failures on record under it,
\* whatever number of concurrent transactions read, wait, are refused or roll back.
THEOREM PatternsAreCounted == KnowledgeSpec => []PatternsCount
<1>1. CountInv /\ [KnowledgeNext]_knowledgeVars => CountInv'
  <2> SUFFICES ASSUME CountInv, [KnowledgeNext]_knowledgeVars  PROVE CountInv'
    OBVIOUS
  <2>1. CASE KnowledgeQuiet \/ UNCHANGED knowledgeVars
    <3>1. UNCHANGED <<rows, patterns, holder, at, found>>
      BY <2>1 DEF KnowledgeQuiet, knowledgeVars
    <3>2. ASSUME NEW s  PROVE Failures(s)' = Failures(s)
      BY <3>1 DEF Failures
    <3>3. IndexingType' /\ Counting'
      BY <3>1, <3>2 DEF CountInv, IndexingType, Counting
    <3> QED  BY <3>1, <3>3, CountUnread
  <2> QED  BY <2>1, EmbedCounts, BumpFailureCounts, FlushCounts, RollbackIndexingCounts,
              CommitIndexingCounts, AskingCounts DEF KnowledgeNext
<1>2. CountInv => PatternsCount
  BY DEF CountInv, PatternsCount, Failures
<1> QED  BY <1>1, <1>2, CountStart, PTL DEF KnowledgeSpec

---------------------------------------------------------------------------
(* Searches and suggestions *)

Numbers    == {e \in Executions : Dist[e] # NaN}
Similar(S) == {e \in S \cap Numbers \cap Success \cap Passed : Dist[e] <= 20}
Window     == IF TopK * 4 > 8 THEN TopK * 4 ELSE 8

Advised(W) ==
    IF W = {} THEN [action |-> "new", match |-> "none"]
    ELSE LET e == CHOOSE x \in W : TRUE IN [action |-> Action(Score(e)), match |-> e]

\* A distance is a number of hundredths, or none.
LEMMA Distances ==
    ASSUME NEW e \in Executions
    PROVE  \/ Dist[e] = NaN
           \/ Dist[e] \in 0 .. 200 /\ Dist[e] \in Int /\ Dist[e] # NaN
<1>1. Dist[e] \in 0 .. 200 \cup {NaN} /\ NaN \notin Int
  BY KnowledgeAssumption
<1>2. \A n \in 0 .. 200 : n \in Int
  OBVIOUS
<1> QED  BY <1>1, <1>2

\* Similar enough is as near as a fifth, or without a direction.
LEMMA ScoreOf ==
    ASSUME NEW e \in Executions
    PROVE  Score(e) >= 80 <=> Dist[e] = NaN \/ Dist[e] <= 20
BY Distances DEF Score

\* What comes out of a query with a limit: as many rows as there are, or the limit, and
\* none that is left out is nearer than one that is not.
LEMMA NearestOf ==
    ASSUME NEW S, IsFiniteSet(S), NEW n \in Nat, NEW W \in Nearest(S, n)
    PROVE  /\ W \subseteq S /\ IsFiniteSet(W) /\ Cardinality(W) \in Nat
           /\ Cardinality(W) < n => W = S
           /\ Cardinality(W) <= n
           /\ \A a \in W, b \in S \ W : ~Nearer(b, a)
<1>1. /\ W \subseteq S
      /\ Cardinality(W) = IF Cardinality(S) < n THEN Cardinality(S) ELSE n
      /\ \A a \in W, b \in S \ W : ~Nearer(b, a)
  BY DEF Nearest, kSubset
<1>2. IsFiniteSet(W) /\ (Cardinality(S) = Cardinality(W) => W = S)
  BY <1>1, FS_Subset
<1>3. Cardinality(S) \in Nat /\ Cardinality(W) \in Nat
  BY <1>2, FS_CardinalityType
<1> QED  BY <1>1, <1>2, <1>3

\* And the other way round.
LEMMA NearestIs ==
    ASSUME NEW S, IsFiniteSet(S), NEW n \in Nat, NEW W, W \subseteq S,
           Cardinality(W) = n \/ (W = S /\ Cardinality(W) <= n),
           \A a \in W, b \in S \ W : ~Nearer(b, a)
    PROVE  W \in Nearest(S, n)
<1>1. /\ Cardinality(W) <= Cardinality(S)
      /\ Cardinality(S) \in Nat /\ Cardinality(W) \in Nat
  BY FS_Subset, FS_CardinalityType
<1>2. Cardinality(W) = IF Cardinality(S) < n THEN Cardinality(S) ELSE n
  BY <1>1
<1> QED  BY <1>2 DEF Nearest, kSubset

LEMMA UsableFinite ==
    ASSUME NEW S, S \subseteq Executions
    PROVE  /\ IsFiniteSet(S) /\ IsFiniteSet(Usable(S)) /\ IsFiniteSet(Similar(S))
           /\ Usable(S) \subseteq Executions /\ Similar(S) \subseteq Usable(S)
<1>1. Usable(S) \subseteq S /\ Similar(S) \subseteq Usable(S)
  BY DEF Usable, Similar
<1>2. \A T \in SUBSET Executions : IsFiniteSet(T)
  BY KnowledgeAssumption, FS_Subset
<1> QED  BY <1>1, <1>2

\* The window that is cut before the filter loses no similar execution that the answer
\* has room for: a window that is full of nearer ones has as many similar ones.
LEMMA WindowLosesNone ==
    ASSUME NEW S, S \subseteq Executions, NEW H \in FindSimilar(S)
    PROVE  H \cap Numbers \in Nearest(Similar(S), TopK) /\ H \subseteq Usable(S)
<1> DEFINE seen(W) == {e \in W : Score(e) >= 80}
<1>1. PICK W \in Nearest(Usable(S), Window) : H \in Nearest(seen(W), TopK)
  BY DEF FindSimilar, Window
<1>2. Window \in Nat /\ TopK \in Nat /\ TopK > 0 /\ Window > TopK
  BY KnowledgeAssumption DEF Window
<1>3. /\ W \subseteq Usable(S) /\ IsFiniteSet(W) /\ Cardinality(W) \in Nat
      /\ Cardinality(W) < Window => W = Usable(S)
      /\ Cardinality(W) <= Window
      /\ \A a \in W, b \in Usable(S) \ W : ~Nearer(b, a)
  BY <1>1, <1>2, UsableFinite, NearestOf
<1>4. seen(W) \subseteq W /\ IsFiniteSet(seen(W))
  BY <1>3, FS_Subset
<1>5. /\ H \subseteq seen(W) /\ IsFiniteSet(H) /\ Cardinality(H) \in Nat
      /\ Cardinality(H) < TopK => H = seen(W)
      /\ Cardinality(H) <= TopK
      /\ \A a \in H, b \in seen(W) \ H : ~Nearer(b, a)
  BY <1>1, <1>2, <1>4, NearestOf
<1>6. H \subseteq Usable(S)
  BY <1>3, <1>4, <1>5
<1>7. W \subseteq Executions /\ Usable(S) \subseteq Executions /\ Similar(S) \subseteq Usable(S)
  BY <1>3, UsableFinite
<1>8. ASSUME NEW e \in W
      PROVE  e \in seen(W) <=> e \in Similar(S) \/ Dist[e] = NaN
  BY <1>3, <1>7, ScoreOf, Distances DEF Similar, Numbers, Usable
<1>9. H \cap Numbers \subseteq Similar(S)
  BY <1>4, <1>5, <1>8 DEF Numbers
<1>10. ASSUME NEW a \in H \cap Numbers, NEW b \in Similar(S), b \notin H
       PROVE  ~Nearer(b, a)
  <2>1. CASE b \in W
    BY <1>5, <1>8, <1>10, <2>1
  <2>2. CASE b \notin W
    BY <1>3, <1>4, <1>5, <1>7, <1>10, <2>2
  <2> QED  BY <2>1, <2>2
<1>11. CASE Cardinality(H \cap Numbers) = TopK
  <2>1. \A a \in H \cap Numbers, b \in Similar(S) \ (H \cap Numbers) : ~Nearer(b, a)
    BY <1>10 DEF Similar
  <2>2. IsFiniteSet(Similar(S))
    BY UsableFinite
  <2>3. H \cap Numbers \in Nearest(Similar(S), TopK)
    BY <1>2, <1>9, <1>11, <2>1, <2>2, NearestIs
  <2> QED  BY <1>6, <2>3
<1>12. CASE Cardinality(H \cap Numbers) # TopK
  <2>1. /\ Cardinality(H \cap Numbers) \in Nat /\ Cardinality(H \cap Numbers) <= Cardinality(H)
        /\ Cardinality(H \cap Numbers) = Cardinality(H) => H \cap Numbers = H
    BY <1>5, FS_Subset, FS_CardinalityType
  <2>2. Cardinality(H \cap Numbers) <= TopK
    BY <1>2, <1>5, <2>1
  <2>3. ASSUME NEW b \in Similar(S), b \notin H
        PROVE  FALSE
    <3>1. /\ b \in Executions /\ Dist[b] # NaN /\ Dist[b] <= 20 /\ Dist[b] \in Int
      BY <1>7, Distances DEF Similar, Numbers
    <3>2. CASE b \in W
      <4>1. b \in seen(W)
        BY <1>8, <3>2
      <4>2. Cardinality(H) = TopK
        BY <1>2, <1>5, <2>3, <4>1
      <4>3. PICK a \in H : a \notin Numbers
        BY <1>12, <2>1, <4>2
      <4>4. Dist[a] = NaN
        BY <1>6, <1>7, <4>3 DEF Numbers
      <4>5. Nearer(b, a)
        BY <3>1, <4>4 DEF Nearer
      <4> QED  BY <1>5, <2>3, <4>1, <4>3, <4>5
    <3>3. CASE b \notin W
      <4>1. b \in Usable(S) \ W
        BY <1>7, <3>3
      <4>2. Cardinality(W) = Window
        BY <1>2, <1>3, <4>1
      <4>3. ASSUME NEW a \in W
            PROVE  a \in Similar(S)
        <5>1. ~Nearer(b, a) /\ a \in Executions
          BY <1>3, <1>7, <4>1
        <5>2. Dist[a] # NaN /\ Dist[a] <= 20
          BY <3>1, <5>1, Distances DEF Nearer
        <5> QED  BY <1>3, <5>1, <5>2 DEF Similar, Numbers, Usable
      <4>4. seen(W) = W
        BY <1>8, <4>3
      <4>5. Cardinality(H) = TopK
        BY <1>2, <1>5, <4>2, <4>4
      <4>6. H \cap Numbers = H
        BY <1>4, <1>5, <1>7, <4>3 DEF Similar
      <4> QED  BY <1>12, <4>5, <4>6
    <3> QED  BY <3>2, <3>3
  <2>4. H \cap Numbers = Similar(S)
    BY <1>9, <2>3 DEF Similar
  <2>5. H \cap Numbers \in Nearest(Similar(S), TopK)
    <3>1. IsFiniteSet(Similar(S))
      BY UsableFinite
    <3>2. \A a \in H \cap Numbers, b \in Similar(S) \ (H \cap Numbers) : ~Nearer(b, a)
      BY <2>4
    <3> QED  BY <1>2, <2>2, <2>4, <3>1, <3>2, NearestIs
  <2> QED  BY <1>6, <2>5
<1> QED  BY <1>6, <1>11, <1>12

\* The nearest of all is no further away than one that a search could have found, and
\* then it is similar enough to refer to.
LEMMA NearestIsAsGood ==
    ASSUME NEW S, S \subseteq Executions, NEW W \in Nearest(Usable(S), 1),
           NEW e \in Usable(S), Dist[e] # NaN, Dist[e] <= 20
    PROVE  Advised(W).action # "new" /\ ~Nearer(e, Advised(W).match)
<1>1. /\ W \subseteq Usable(S) /\ IsFiniteSet(W) /\ Cardinality(W) \in Nat
      /\ Cardinality(W) < 1 => W = Usable(S)
      /\ Cardinality(W) <= 1
      /\ \A a \in W, b \in Usable(S) \ W : ~Nearer(b, a)
  BY UsableFinite, NearestOf
<1>2. W # {}
  BY <1>1, FS_EmptySet
<1>3. PICK m : W = {m}
  <2>1. Cardinality(W) = 1
    BY <1>1, <1>2, FS_EmptySet
  <2> QED  BY <1>1, <2>1, FS_Singleton
<1>4. Advised(W).action = Action(Score(m)) /\ Advised(W).match = m
  BY <1>3 DEF Advised
<1>5. m \in Executions /\ e \in Executions
  BY <1>1, <1>3, UsableFinite
<1>6. ~Nearer(e, m)
  <2>1. CASE e = m
    BY <1>5, <2>1, Distances DEF Nearer
  <2>2. CASE e # m
    BY <1>1, <1>3, <2>2
  <2> QED  BY <2>1, <2>2
<1>7. Dist[m] = NaN \/ Dist[m] <= 20
  BY <1>5, <1>6, Distances DEF Nearer
<1>8. Score(m) >= 80
  BY <1>5, <1>7, ScoreOf
<1> QED  BY <1>4, <1>6, <1>8 DEF Action

\* What was answered is what the table, as it was then, has to answer.
AnswerInv ==
    /\ rows \subseteq Executions
    /\ at \in [Indexings \cup Asking -> Stages]
    /\ hits \in [Searches -> SUBSET Executions]
    /\ DOMAIN advice = Suggests
    /\ known \in [Asking -> SUBSET Executions]
    /\ \A c \in Searches : at[c] = "done" => hits[c] \in FindSimilar(known[c])
    /\ \A d \in Suggests : at[d] = "done" =>
          \E W \in Nearest(Usable(known[d]), 1) : advice[d] = Advised(W)

LEMMA AnswerStart == KnowledgeInit => AnswerInv
BY KnowledgeAssumption DEF KnowledgeInit, AnswerInv, Stages, Asking, Executions

LEMMA AnswerStep ==
    ASSUME AnswerInv, [KnowledgeNext]_knowledgeVars
    PROVE  AnswerInv'
<1> USE DEF AnswerInv, Stages
<1>1. ASSUME NEW i \in Indexings,
             Embed(i) \/ BumpFailure(i) \/ Flush(i) \/ CommitIndexing(i) \/ RollbackIndexing(i)
      PROVE  AnswerInv'
  <2>1. /\ UNCHANGED <<hits, advice, known>> /\ rows' \subseteq Executions
        /\ \E next \in Stages : at' = [at EXCEPT ![i] = next]
    BY <1>1 DEF Embed, BumpFailure, Flush, CommitIndexing, RollbackIndexing, Executions
  <2>2. i \notin Asking
    BY KnowledgeAssumption DEF Executions
  <2>3. \A c \in Asking : at'[c] = at[c]
    BY <2>1, <2>2
  <2> QED  BY <2>1, <2>3 DEF Asking
<1>2. ASSUME NEW c \in Asking, Search(c)
      PROVE  AnswerInv'
  <2>1. /\ c \in Searches /\ at' = [at EXCEPT ![c] = "done"]
        /\ known' = [known EXCEPT ![c] = rows] /\ UNCHANGED <<rows, advice>>
    BY <1>2 DEF Search
  <2>2. PICK H \in FindSimilar(rows) : hits' = [hits EXCEPT ![c] = H]
    BY <1>2 DEF Search
  <2>3. H \subseteq Executions
    BY <2>2, WindowLosesNone, UsableFinite
  <2>4. c \notin Suggests
    BY <2>1, KnowledgeAssumption
  <2>5. \A d \in Suggests : at'[d] = at[d] /\ known'[d] = known[d]
    BY <2>1, <2>4 DEF Asking
  <2>6. \A d \in Searches : at'[d] = "done" => hits'[d] \in FindSimilar(known'[d])
    BY <2>1, <2>2 DEF Asking
  <2>7. /\ at' \in [Indexings \cup Asking -> Stages]
        /\ hits' \in [Searches -> SUBSET Executions]
        /\ known' \in [Asking -> SUBSET Executions]
    BY <2>1, <2>2, <2>3
  <2> QED  BY <2>1, <2>5, <2>6, <2>7
<1>3. ASSUME NEW d \in Asking, Suggest(d)
      PROVE  AnswerInv'
  <2>1. /\ d \in Suggests /\ at' = [at EXCEPT ![d] = "done"]
        /\ known' = [known EXCEPT ![d] = rows] /\ UNCHANGED <<rows, hits>>
    BY <1>3 DEF Suggest
  <2>2. PICK W \in Nearest(Usable(rows), 1) : advice' = [advice EXCEPT ![d] = Advised(W)]
    BY <1>3 DEF Suggest, Advised
  <2>3. d \notin Searches
    BY <2>1, KnowledgeAssumption
  <2>4. \A c \in Searches : at'[c] = at[c] /\ known'[c] = known[c]
    BY <2>1, <2>3 DEF Asking
  <2>5. \A c \in Suggests : at'[c] = "done" =>
           \E V \in Nearest(Usable(known'[c]), 1) : advice'[c] = Advised(V)
    <3>1. advice'[d] = Advised(W) /\ known'[d] = rows
      BY <2>1, <2>2
    <3>2. \A c \in Suggests : c # d =>
            at'[c] = at[c] /\ known'[c] = known[c] /\ advice'[c] = advice[c]
      BY <2>1, <2>2 DEF Asking
    <3> QED  BY <2>2, <3>1, <3>2
  <2>6. /\ at' \in [Indexings \cup Asking -> Stages]
        /\ known' \in [Asking -> SUBSET Executions]
        /\ DOMAIN advice' = Suggests
    BY <2>1, <2>2
  <2> QED  BY <2>1, <2>4, <2>5, <2>6
<1>4. CASE KnowledgeQuiet \/ UNCHANGED knowledgeVars
  BY <1>4 DEF KnowledgeQuiet, knowledgeVars
<1> QED  BY <1>1, <1>2, <1>3, <1>4 DEF KnowledgeNext

LEMMA AnswersHold == KnowledgeSpec => []AnswerInv
BY AnswerStart, AnswerStep, PTL DEF KnowledgeSpec

\* A search finds the nearest of all similar, usable executions, for every top_k and
\* every table: a window of four times top_k, and at least eight, is never too small.
THEOREM SearchFindsNearest == KnowledgeSpec => []SearchIsNearest
<1>1. AnswerInv => SearchIsNearest
  <2> SUFFICES ASSUME AnswerInv, NEW c \in Searches, at[c] = "done"
               PROVE  /\ hits[c] \cap Numbers \in Nearest(Similar(known[c]), TopK)
                      /\ hits[c] \subseteq Usable(known[c])
    BY DEF SearchIsNearest, Numbers, Similar
  <2>1. known[c] \subseteq Executions /\ hits[c] \in FindSimilar(known[c])
    BY DEF AnswerInv, Asking
  <2> QED  BY <2>1, WindowLosesNone
<1> QED  BY <1>1, AnswersHold, PTL

\* A suggestion does not fall behind a search that came before it.
THEOREM SuggestionKeepsUp == KnowledgeSpec => []SuggestionFollowsSearch
<1>1. AnswerInv => SuggestionFollowsSearch
  <2> SUFFICES ASSUME AnswerInv, NEW c \in Searches, NEW d \in Suggests,
                      at[c] = "done", at[d] = "done", known[c] \subseteq known[d],
                      NEW e \in hits[c], Dist[e] # NaN
               PROVE  advice[d].action # "new" /\ ~Nearer(e, advice[d].match)
    BY DEF SuggestionFollowsSearch
  <2>1. /\ known[c] \subseteq Executions /\ hits[c] \in FindSimilar(known[c])
        /\ known[d] \subseteq Executions
    BY DEF AnswerInv, Asking
  <2>2. PICK W \in Nearest(Usable(known[d]), 1) : advice[d] = Advised(W)
    BY DEF AnswerInv
  <2>3. /\ hits[c] \cap Numbers \in Nearest(Similar(known[c]), TopK)
        /\ hits[c] \subseteq Usable(known[c])
    BY <2>1, WindowLosesNone
  <2>4. e \in Executions /\ e \in Usable(known[d])
    BY <2>1, <2>3, UsableFinite DEF Usable
  <2>5. e \in Similar(known[c])
    BY <2>3, <2>4 DEF Nearest, kSubset, Numbers
  <2> QED  BY <2>1, <2>2, <2>4, <2>5, NearestIsAsGood DEF Similar
<1> QED  BY <1>1, AnswersHold, PTL

---------------------------------------------------------------------------
(* Lines *)

\* A nonempty set of numbers has a first one.
LEMMA LeastNumber ==
    ASSUME NEW S \in SUBSET Nat, S # {}
    PROVE  Min(S) \in S /\ \A j \in S : Min(S) <= j
<1> DEFINE below == {ss \in Nat \X Nat : ss[1] < ss[2]}
<1>1. IsWellFoundedOn(below, Nat)
  BY NatLessThanWellFounded, Zenon DEF OpToRel
<1> HIDE DEF below
<1>2. PICK i \in S : \A j \in S : <<j, i>> \notin below
  BY <1>1, WFMin
<1>3. \A j \in S : i <= j
  <2>1. \A j \in S : ~(j < i)
    BY <1>2 DEF below
  <2> QED  BY <2>1
<1> QED  BY <1>3 DEF Min

\* What the function of Filled has to satisfy, from some line on.
Reads(text, end, lo, from) ==
    from = [k \in lo .. end |->
               IF k = end THEN <<>>
               ELSE IF text[k] = Blank THEN from[k + 1]
               ELSE <<text[k]>> \o from[k + 1]]

\* There is such a function: the empty end of the text, and one line more each time.
LEMMA ReadsExists ==
    ASSUME NEW text, NEW end \in Nat \ {0}
    PROVE  \E from : Reads(text, end, 1, from)
<1> DEFINE missing == {m \in 0 .. end - 1 : ~\E from : Reads(text, end, end - m, from)}
<1>1. SUFFICES ASSUME missing # {}
               PROVE  FALSE
  <2>1. end - 1 \in 0 .. end - 1 /\ end - (end - 1) = 1
    OBVIOUS
  <2> QED  BY <1>1, <2>1
<1>2. missing \in SUBSET Nat
  OBVIOUS
<1>3. Min(missing) \in missing /\ \A j \in missing : Min(missing) <= j
  BY <1>1, <1>2, LeastNumber
<1>4. PICK m \in missing : \A j \in missing : m <= j
  BY <1>3
<1>5. m \in 0 .. end - 1 /\ ~\E from : Reads(text, end, end - m, from)
  BY <1>4
<1>6. CASE m = 0
  <2>1. Reads(text, end, end, [k \in end .. end |-> <<>>])
    BY DEF Reads
  <2> QED  BY <1>5, <1>6, <2>1
<1>7. CASE m # 0
  <2>1. m - 1 \in 0 .. end - 1 /\ m - 1 \notin missing
    BY <1>4, <1>5, <1>7
  <2>2. PICK g : Reads(text, end, end - (m - 1), g)
    BY <2>1
  <2> DEFINE lo == end - m
             f == [k \in lo .. end |->
                     IF k # lo THEN g[k]
                     ELSE IF text[k] = Blank THEN g[k + 1] ELSE <<text[k]>> \o g[k + 1]]
  <2>3. lo \in 1 .. end - 1 /\ end - (m - 1) = lo + 1
    BY <1>5, <1>7
  <2>4. f = [k \in lo .. end |->
               IF k = end THEN <<>>
               ELSE IF text[k] = Blank THEN f[k + 1] ELSE <<text[k]>> \o f[k + 1]]
    <3>1. g = [k \in lo + 1 .. end |->
                 IF k = end THEN <<>>
                 ELSE IF text[k] = Blank THEN g[k + 1] ELSE <<text[k]>> \o g[k + 1]]
      BY <2>2, <2>3 DEF Reads
    <3>2. \A k \in lo + 1 .. end : f[k] = g[k]
      BY <2>3
    <3>3. ASSUME NEW k \in lo .. end
          PROVE  f[k] = IF k = end THEN <<>>
                        ELSE IF text[k] = Blank THEN f[k + 1] ELSE <<text[k]>> \o f[k + 1]
      <4>1. CASE k = lo
        <5>1. k # end /\ k + 1 \in lo + 1 .. end
          BY <2>3, <4>1
        <5>2. f[k + 1] = g[k + 1]
          BY <3>2, <5>1
        <5> QED  BY <4>1, <5>1, <5>2
      <4>2. CASE k # lo
        <5>1. k \in lo + 1 .. end /\ (k # end => k + 1 \in lo + 1 .. end)
          BY <2>3, <4>2
        <5>2. g[k] = IF k = end THEN <<>>
                     ELSE IF text[k] = Blank THEN g[k + 1] ELSE <<text[k]>> \o g[k + 1]
          BY <3>1, <5>1
        <5> QED  BY <3>2, <5>1, <5>2
      <4> QED  BY <4>1, <4>2
    <3> HIDE DEF f
    <3>4. f = [k \in lo .. end |-> f[k]]
      BY DEF f
    <3> QED  BY <3>3, <3>4
  <2>5. Reads(text, end, end - m, f)
    BY <2>4 DEF Reads
  <2> QED  BY <1>5, <2>5
<1> QED  BY <1>6, <1>7

\* One line at a time.
LEMMA FilledStep ==
    ASSUME NEW text, NEW end \in Nat \ {0}, NEW k \in 1 .. end
    PROVE  Filled(text, k, end) =
               IF k = end THEN <<>>
               ELSE IF text[k] = Blank THEN Filled(text, k + 1, end)
               ELSE <<text[k]>> \o Filled(text, k + 1, end)
<1> DEFINE from == CHOOSE from : Reads(text, end, 1, from)
<1>1. Reads(text, end, 1, from)
  BY ReadsExists
<1>2. ASSUME NEW i
      PROVE  Filled(text, i, end) = from[i]
  BY DEF Filled, Reads
<1> HIDE DEF from
<1>3. from[k] = IF k = end THEN <<>>
                ELSE IF text[k] = Blank THEN from[k + 1] ELSE <<text[k]>> \o from[k + 1]
  BY <1>1 DEF Reads
<1>4. Filled(text, k, end) = from[k] /\ Filled(text, k + 1, end) = from[k + 1]
  BY <1>2
<1> HIDE DEF Filled
<1> QED  BY <1>3, <1>4

\* Blank lines in front make no difference.
LEMMA FilledSkips ==
    ASSUME NEW text, NEW end \in Nat \ {0}, NEW i \in 1 .. end, NEW s \in i .. end,
           \A k \in i .. s - 1 : text[k] = Blank
    PROVE  Filled(text, i, end) = Filled(text, s, end)
<1> DEFINE other == {k \in i .. s : Filled(text, s - (k - i), end) # Filled(text, s, end)}
<1>1. SUFFICES ASSUME other # {}
               PROVE  FALSE
  <2>1. s \in i .. s /\ s - (s - i) = i
    OBVIOUS
  <2> QED  BY <1>1, <2>1
<1>2. other \in SUBSET Nat
  OBVIOUS
<1>3. Min(other) \in other /\ \A j \in other : Min(other) <= j
  BY <1>1, <1>2, LeastNumber
<1>4. PICK k \in other : \A j \in other : k <= j
  BY <1>3
<1>5. k \in i .. s /\ Filled(text, s - (k - i), end) # Filled(text, s, end)
  BY <1>4
<1>6. k # i
  <2>1. s - (i - i) = s
    OBVIOUS
  <2> QED  BY <1>5, <2>1
<1>7. k - 1 \in i .. s /\ k - 1 \notin other
  BY <1>4, <1>5, <1>6
<1>8. Filled(text, s - (k - 1 - i), end) = Filled(text, s, end)
  BY <1>7
<1>9. /\ s - (k - i) \in 1 .. end /\ s - (k - i) # end /\ text[s - (k - i)] = Blank
      /\ (s - (k - i)) + 1 = s - (k - 1 - i)
  <2>1. s - (k - i) \in i .. s - 1 /\ (s - (k - i)) + 1 = s - (k - 1 - i)
    BY <1>5, <1>6
  <2> QED  BY <2>1
<1>10. Filled(text, s - (k - i), end) = Filled(text, s - (k - 1 - i), end)
  BY <1>9, FilledStep
<1> QED  BY <1>5, <1>8, <1>10

---------------------------------------------------------------------------
(* What is read out of the answer *)

\* Lines are pairs of a label and a body, and a text has none that is blank at its ends.
LEMMA TextFacts ==
    ASSUME NEW text \in Answers
    PROVE  /\ Len(text) \in Nat /\ DOMAIN text = 1 .. Len(text)
           /\ \A i \in 1 .. Len(text) : IsLine(text[i])
           /\ text # <<>> => Len(text) # 0 /\ text[1] # Blank /\ text[Len(text)] # Blank
<1>1. text \in Seq(Lines)
  BY DecideAssumption
<1>2. /\ Len(text) \in Nat /\ DOMAIN text = 1 .. Len(text)
      /\ \A i \in 1 .. Len(text) : text[i] \in Lines
  BY <1>1
<1>3. text # <<>> => Len(text) # 0
  BY <1>1, EmptySeq
<1> QED  BY <1>2, <1>3, DecideAssumption

\* A line with a body is not blank, with its label or without.
LEMMA BodyIsNotBlank ==
    ASSUME NEW l, IsLine(l), l.body # Nothing
    PROVE  l # Blank /\ [l EXCEPT !.label = Nothing] # Blank
<1>1. [l EXCEPT !.label = Nothing].body # Nothing
  BY DEF IsLine
<1>2. Blank.body = Nothing
  BY DEF Blank
<1> QED  BY <1>1, <1>2

\* A line with a label is not blank either.
LEMMA LabelIsNotBlank ==
    ASSUME NEW l, l.label # Nothing
    PROVE  l # Blank
BY DEF Blank

\* Where the text behind a label begins.
LEMMA StartFacts ==
    ASSUME NEW text \in Answers, NEW i \in 1 .. Len(text), Start(text, i) # 0
    PROVE  /\ Start(text, i) \in i .. Len(text)
           /\ text[i].body # Nothing => Start(text, i) = i
           /\ text[i].body = Nothing =>
                 /\ Start(text, i) # i /\ text[Start(text, i)] # Blank
                 /\ \A k \in i + 1 .. Start(text, i) - 1 : text[k] = Blank
<1> DEFINE filled == {j \in i + 1 .. Len(text) : text[j] # Blank}
<1>1. Len(text) \in Nat
  BY TextFacts
<1>2. CASE text[i].body # Nothing
  BY <1>1, <1>2 DEF Start
<1>3. CASE text[i].body = Nothing
  <2>1. filled # {} /\ Start(text, i) = Min(filled)
    BY <1>3 DEF Start
  <2>2. filled \in SUBSET Nat
    BY <1>1
  <2>3. Min(filled) \in filled /\ \A j \in filled : Min(filled) <= j
    BY <2>1, <2>2, LeastNumber
  <2> HIDE DEF filled
  <2>4. Start(text, i) \in filled /\ \A j \in filled : Start(text, i) <= j
    BY <2>1, <2>3
  <2>5. Start(text, i) \in i + 1 .. Len(text) /\ text[Start(text, i)] # Blank
    BY <2>4 DEF filled
  <2>6. ASSUME NEW k \in i + 1 .. Start(text, i) - 1
        PROVE  text[k] = Blank
    <3>1. k \in i + 1 .. Len(text) /\ ~(Start(text, i) <= k)
      BY <1>1, <2>5
    <3>2. k \notin filled
      BY <2>4, <3>1
    <3> QED  BY <3>1, <3>2 DEF filled
  <2> QED  BY <1>1, <1>3, <2>5, <2>6
<1> QED  BY <1>2, <1>3

\* What is recommended is never blank.
LEMMA RecommendationNotBlank ==
    ASSUME NEW text \in Answers, text # <<>>
    PROVE  Recommendation(text) # Blank
<1> DEFINE lines == {i \in DOMAIN text : text[i].label = "RECOMMENDATION" /\ Start(text, i) # 0}
           i == Labelled(text, "RECOMMENDATION")
<1>1. CASE i = 0
  BY <1>1, TextFacts DEF Recommendation
<1>2. CASE i # 0
  <2>1. lines # {} /\ i = Min(lines)
    BY <1>2 DEF Labelled
  <2>2. lines \in SUBSET Nat
    BY TextFacts
  <2>3. Min(lines) \in lines
    BY <2>1, <2>2, LeastNumber
  <2>4. i \in 1 .. Len(text) /\ Start(text, i) # 0
    BY <2>1, <2>3, TextFacts
  <2> HIDE DEF i, lines
  <2>5. Recommendation(text) = FirstLine(text, i)
    BY <1>2 DEF Recommendation, i
  <2>6. CASE text[i].body # Nothing
    BY <2>4, <2>5, <2>6, TextFacts, BodyIsNotBlank DEF FirstLine
  <2>7. CASE text[i].body = Nothing
    BY <2>4, <2>5, <2>7, StartFacts DEF FirstLine
  <2> QED  BY <2>6, <2>7
<1> QED  BY <1>1, <1>2

\* The next line with a label, or the end of the text.
NextLabel(text, i) == Min({k \in i + 1 .. Len(text) : text[k].label # Nothing} \cup {Len(text) + 1})

LEMMA NextLabelFacts ==
    ASSUME NEW text \in Answers, NEW i \in 1 .. Len(text)
    PROVE  /\ NextLabel(text, i) \in i + 1 .. Len(text) + 1
           /\ NextLabel(text, i) <= Len(text) => text[NextLabel(text, i)].label # Nothing
           /\ \A k \in i + 1 .. NextLabel(text, i) - 1 : text[k].label = Nothing
<1> DEFINE ends == {k \in i + 1 .. Len(text) : text[k].label # Nothing} \cup {Len(text) + 1}
<1>1. Len(text) \in Nat
  BY TextFacts
<1>2. ends # {} /\ ends \in SUBSET Nat
  BY <1>1
<1>3. Min(ends) \in ends /\ \A j \in ends : Min(ends) <= j
  BY <1>2, LeastNumber
<1>4. NextLabel(text, i) = Min(ends)
  BY DEF NextLabel
<1> HIDE DEF ends
<1>5. NextLabel(text, i) \in ends /\ \A j \in ends : NextLabel(text, i) <= j
  BY <1>3, <1>4
<1>6. /\ NextLabel(text, i) \in i + 1 .. Len(text) + 1
      /\ NextLabel(text, i) <= Len(text) => text[NextLabel(text, i)].label # Nothing
  BY <1>1, <1>5 DEF ends
<1>7. ASSUME NEW k \in i + 1 .. NextLabel(text, i) - 1
      PROVE  text[k].label = Nothing
  <2>1. k \in i + 1 .. Len(text) /\ ~(NextLabel(text, i) <= k)
    BY <1>1, <1>6
  <2>2. k \notin ends
    BY <1>5, <2>1
  <2> QED  BY <2>1, <2>2 DEF ends
<1> QED  BY <1>6, <1>7

\* What stands under a label begins where the pattern finds text behind it.
LEMMA UnderBegins ==
    ASSUME NEW text \in Answers, NEW i \in 1 .. Len(text), text[i].label # Nothing,
           Under(text, i) # <<>>
    PROVE  /\ Start(text, i) \in i .. NextLabel(text, i) - 1
           /\ Under(text, i) = <<FirstLine(text, i)>> \o Filled(text, Start(text, i) + 1, NextLabel(text, i))
<1> DEFINE s == Start(text, i)
           next == NextLabel(text, i)
           first == IF text[i].body = Nothing THEN <<>> ELSE <<[text[i] EXCEPT !.label = Nothing]>>
<1>1. Len(text) \in Nat /\ i \in Nat /\ next \in i + 1 .. Len(text) + 1 /\ next \in Nat \ {0}
  BY TextFacts, NextLabelFacts
<1>2. Under(text, i) = first \o Filled(text, i + 1, next)
  BY DEF Under, NextLabel
<1>3. CASE text[i].body # Nothing
  <2>1. s = i /\ FirstLine(text, i) = [text[i] EXCEPT !.label = Nothing]
    BY <1>3 DEF Start, FirstLine
  <2> HIDE DEF s, next
  <2> QED  BY <1>1, <1>2, <1>3, <2>1 DEF s, next
<1>4. CASE text[i].body = Nothing
  <2>1. ASSUME \A k \in i + 1 .. next - 1 : text[k] = Blank
        PROVE  FALSE
    <3>1. next \in i + 1 .. next /\ i + 1 \in 1 .. next /\ next \in 1 .. next
      BY <1>1
    <3>2. Filled(text, i + 1, next) = Filled(text, next, next)
      BY <1>1, <2>1, <3>1, FilledSkips
    <3>3. Filled(text, next, next) = <<>>
      BY <1>1, <3>1, FilledStep
    <3>4. Under(text, i) = <<>> \o <<>>
      BY <1>2, <1>4, <3>2, <3>3
    <3> QED  BY <3>4
  <2>2. PICK k \in i + 1 .. next - 1 : text[k] # Blank
    BY <2>1
  <2>3. s # 0
    <3>1. k \in i + 1 .. Len(text)
      BY <1>1
    <3> DEFINE filled == {j \in i + 1 .. Len(text) : text[j] # Blank}
    <3>2. filled # {} /\ filled \in SUBSET Nat /\ 0 \notin filled
      BY <1>1, <2>2, <3>1
    <3>3. Min(filled) \in filled
      BY <3>2, LeastNumber
    <3> QED  BY <1>4, <3>2, <3>3 DEF Start
  <2>4. /\ s \in i .. Len(text) /\ s # i /\ text[s] # Blank
        /\ \A j \in i + 1 .. s - 1 : text[j] = Blank
    BY <1>4, <2>3, StartFacts
  <2>5. s <= k
    BY <1>1, <2>2, <2>4
  <2>6. s \in i + 1 .. next - 1
    BY <1>1, <2>4, <2>5
  <2>7. FirstLine(text, i) = text[s]
    BY <1>4 DEF FirstLine
  <2> HIDE DEF s, next
  <2>8. Filled(text, i + 1, next) = Filled(text, s, next)
    <3>1. i + 1 \in 1 .. next /\ s \in i + 1 .. next
      BY <1>1, <2>6
    <3> QED  BY <1>1, <2>4, <3>1, FilledSkips
  <2>9. Filled(text, s, next) = <<text[s]>> \o Filled(text, s + 1, next)
    <3>1. s \in 1 .. next /\ s # next
      BY <1>1, <2>6
    <3> QED  BY <1>1, <2>4, <3>1, FilledStep
  <2>10. Under(text, i) = <<>> \o (<<text[s]>> \o Filled(text, s + 1, next))
    BY <1>2, <1>4, <2>8, <2>9
  <2> QED  BY <2>6, <2>7, <2>10 DEF s, next
<1> QED  BY <1>3, <1>4

\* A label that occurs once, with something under it, is where the pattern looks.
LEMMA LabelledOnce ==
    ASSUME NEW text \in Answers, NEW label, label # Nothing, NEW i \in DOMAIN text,
           text[i].label = label,
           Cardinality({k \in DOMAIN text : text[k].label = label}) = 1,
           Under(text, i) # <<>>
    PROVE  Labelled(text, label) = i
<1> DEFINE all == {k \in DOMAIN text : text[k].label = label}
           lines == {k \in DOMAIN text : text[k].label = label /\ Start(text, k) # 0}
<1>1. Len(text) \in Nat /\ DOMAIN text = 1 .. Len(text)
  BY TextFacts
<1>2. IsFiniteSet(all) /\ i \in all /\ Cardinality(all) = 1
  <2>1. IsFiniteSet(1 .. Len(text)) /\ all \in SUBSET (1 .. Len(text))
    BY <1>1, FS_Interval
  <2>2. IsFiniteSet(all)
    BY <2>1, FS_Subset
  <2> QED  BY <2>2
<1> HIDE DEF all
<1>3. all = {i}
  <2>1. PICK x : all = {x}
    BY <1>2, FS_Singleton
  <2> QED  BY <1>2, <2>1
<1>4. Start(text, i) # 0
  <2>1. Start(text, i) \in i .. NextLabel(text, i) - 1
    BY <1>1, UnderBegins
  <2> QED  BY <1>1, <2>1, NextLabelFacts
<1>5. lines = {i}
  BY <1>3, <1>4 DEF all
<1>6. Min({i}) = i
  <2>1. {i} \in SUBSET Nat /\ {i} # {}
    BY <1>1
  <2> QED  BY <2>1, LeastNumber
<1> QED  BY <1>5, <1>6 DEF Labelled

\* A text ends with a body, and only words have a body behind them.
Formed(text) ==
    /\ text[Len(text)].body # Nothing
    /\ \A k \in DOMAIN text : text[k].body # Nothing => text[k].label \in Words \cup {Nothing}

\* In such a text the rationale ends where the next label stands.
LEMMA EndsAtLabel ==
    ASSUME NEW text \in Answers, NEW i \in 1 .. Len(text), Formed(text),
           NEW s \in i .. NextLabel(text, i) - 1
    PROVE  Min({k \in s + 1 .. Len(text) : Ends(text, k)} \cup {Len(text) + 1}) = NextLabel(text, i)
<1> DEFINE ends == {k \in s + 1 .. Len(text) : Ends(text, k)} \cup {Len(text) + 1}
           next == NextLabel(text, i)
<1>1. /\ Len(text) \in Nat /\ next \in i + 1 .. Len(text) + 1
      /\ next <= Len(text) => text[next].label # Nothing
      /\ \A k \in i + 1 .. next - 1 : text[k].label = Nothing
  BY TextFacts, NextLabelFacts
<1> HIDE DEF next
<1>2. \A k \in s + 1 .. Len(text) : Ends(text, k) <=> text[k].label # Nothing
  <2>1. \A k \in s + 1 .. Len(text) : k \in DOMAIN text
    BY <1>1, TextFacts
  <2> QED  BY <1>1, <2>1 DEF Ends, Formed
<1>3. next \in ends
  <2>1. s \in Nat /\ s < next
    <3>1. s \in i .. next - 1
      BY DEF next
    <3> QED  BY <1>1, <3>1
  <2>2. CASE next = Len(text) + 1
    BY <2>2
  <2>3. CASE next # Len(text) + 1
    <3>1. next \in s + 1 .. Len(text) /\ text[next].label # Nothing
      BY <1>1, <2>1, <2>3
    <3>2. Ends(text, next)
      BY <1>2, <3>1
    <3> QED  BY <3>1, <3>2
  <2> QED  BY <2>2, <2>3
<1>4. ASSUME NEW k \in ends
      PROVE  next <= k
  <2>1. CASE k = Len(text) + 1
    BY <1>1, <2>1
  <2>2. CASE k \in s + 1 .. Len(text) /\ text[k].label # Nothing
    <3>1. k \notin i + 1 .. next - 1
      BY <1>1, <2>2
    <3> QED  BY <1>1, <2>2, <3>1
  <2> QED  BY <1>2, <2>1, <2>2
<1>5. ends \in SUBSET Nat /\ ends # {}
  BY <1>1
<1>6. Min(ends) \in ends /\ \A k \in ends : Min(ends) <= k
  BY <1>5, LeastNumber
<1> HIDE DEF ends
<1>7. Min(ends) <= next /\ next <= Min(ends) /\ Min(ends) \in Nat /\ next \in Nat
  BY <1>1, <1>3, <1>4, <1>5, <1>6
<1>8. Min(ends) = next
  BY <1>7
<1> QED  BY <1>8 DEF ends, next

\* Neither word is missing.
LEMMA WordsAreSomething == "RECOMMENDATION" # Nothing /\ "RATIONALE" # Nothing
BY Zenon DEF Nothing

\* The form that the prompt asks for is read the plain way.
LEMMA FormOfText ==
    ASSUME NEW text \in Answers,
           NEW i \in DOMAIN text, text[i].label = "RECOMMENDATION",
           NEW j \in DOMAIN text, text[j].label = "RATIONALE",
           Cardinality({k \in DOMAIN text : text[k].label = "RECOMMENDATION"}) = 1,
           Cardinality({k \in DOMAIN text : text[k].label = "RATIONALE"}) = 1,
           Under(text, i) # <<>>, Under(text, j) # <<>>, Formed(text)
    PROVE  Recommendation(text) = Under(text, i)[1] /\ Rationale(text) = Under(text, j)
<1>1. i \in 1 .. Len(text) /\ j \in 1 .. Len(text) /\ i # 0 /\ j # 0
  BY TextFacts
<1>2. Labelled(text, "RECOMMENDATION") = i /\ Labelled(text, "RATIONALE") = j
  BY WordsAreSomething, LabelledOnce
<1>3. /\ Start(text, j) \in j .. NextLabel(text, j) - 1
      /\ Under(text, j) = <<FirstLine(text, j)>> \o Filled(text, Start(text, j) + 1, NextLabel(text, j))
      /\ Under(text, i) = <<FirstLine(text, i)>> \o Filled(text, Start(text, i) + 1, NextLabel(text, i))
  BY <1>1, WordsAreSomething, UnderBegins
<1>4. Rationale(text) = Under(text, j)
  BY <1>1, <1>2, <1>3, EndsAtLabel DEF Rationale
<1>5. Recommendation(text) = FirstLine(text, i)
  BY <1>1, <1>2 DEF Recommendation
<1>6. Under(text, i)[1] = FirstLine(text, i)
  BY <1>3
<1> QED  BY <1>4, <1>5, <1>6

---------------------------------------------------------------------------
(* The decision that is recorded *)

DecideStages == {"idle", "debated", "ending", "raised", "done"}
Results == [output : Answers \cup {<<>>}, passed : BOOLEAN, error : BOOLEAN, raised : BOOLEAN]

OnRecord(r) == {d \in decisions : d.id = r}

\* Where a request is says what is in its row, in its answer and on record.
DecideInv ==
    /\ stage \in [Debates -> DecideStages]
    /\ result \in [Debates -> Results]
    /\ DOMAIN row = Debates /\ DOMAIN reply = Debates
    /\ \A r \in Debates :
          /\ stage[r] = "ending" =>
                /\ row[r] = Decision(result[r])
                /\ reply[r] = [status |-> "200", decision |-> Decision(result[r])]
          /\ stage[r] = "raised" => reply[r] = [status |-> "500", decision |-> NoRow]
          /\ stage[r] = "done" =>
                \/ /\ reply[r] = [status |-> "200", decision |-> Decision(result[r])]
                   /\ OnRecord(r) = {[id |-> r, row |-> Decision(result[r])]}
                \/ reply[r] = [status |-> "500", decision |-> NoRow] /\ OnRecord(r) = {}
          /\ stage[r] # "done" => OnRecord(r) = {}

LEMMA DecideStart == DecideInit => DecideInv
BY DEF DecideInit, DecideInv, DecideStages, Results, NoResult, OnRecord

LEMMA DecideStep ==
    ASSUME DecideInv, [DecideNext]_decideVars
    PROVE  DecideInv'
<1> USE DEF DecideInv, DecideStages
<1>1. ASSUME NEW r \in Debates, Debate(r)
      PROVE  DecideInv'
  <2>1. /\ stage[r] = "idle" /\ stage' = [stage EXCEPT ![r] = "debated"]
        /\ UNCHANGED <<row, decisions, reply>>
    BY <1>1 DEF Debate
  <2>2. PICK res \in Results : result' = [result EXCEPT ![r] = res]
    BY <1>1 DEF Debate, NoResult, Results
  <2>3. \A q \in Debates : OnRecord(q)' = OnRecord(q)
    BY <2>1 DEF OnRecord
  <2>4. \A q \in Debates : q # r => stage'[q] = stage[q] /\ result'[q] = result[q]
    BY <2>1, <2>2
  <2>5. stage'[r] = "debated" /\ stage' \in [Debates -> DecideStages]
        /\ result' \in [Debates -> Results]
    BY <2>1, <2>2
  <2> QED  BY <2>1, <2>3, <2>4, <2>5
<1>2. ASSUME NEW r \in Debates, Record(r)
      PROVE  DecideInv'
  <2>1. stage[r] = "debated" /\ UNCHANGED <<result, decisions>>
    BY <1>2 DEF Record
  <2>2. \A q \in Debates : OnRecord(q)' = OnRecord(q)
    BY <2>1 DEF OnRecord
  <2>3. CASE /\ row' = [row EXCEPT ![r] = Decision(result[r])]
             /\ stage' = [stage EXCEPT ![r] = "ending"]
             /\ Reply(r, "200", Decision(result[r]))
    BY <2>1, <2>2, <2>3 DEF Reply
  <2>4. CASE /\ stage' = [stage EXCEPT ![r] = "raised"]
             /\ Reply(r, "500", NoRow)
             /\ UNCHANGED row
    BY <2>1, <2>2, <2>4 DEF Reply
  <2> QED  BY <1>2, <2>3, <2>4 DEF Record
<1>3. ASSUME NEW r \in Debates, EndDecision(r)
      PROVE  DecideInv'
  <2>1. /\ stage' = [stage EXCEPT ![r] = "done"] /\ UNCHANGED <<result, row>>
        /\ stage[r] \in {"ending", "raised"} /\ OnRecord(r) = {}
    BY <1>3 DEF EndDecision
  <2>2. CASE /\ stage[r] = "ending"
             /\ decisions' = decisions \cup {[id |-> r, row |-> row[r]]}
             /\ UNCHANGED reply
    <3>1. OnRecord(r)' = {[id |-> r, row |-> Decision(result[r])]}
      BY <2>1, <2>2 DEF OnRecord
    <3>2. \A q \in Debates : q # r => OnRecord(q)' = OnRecord(q)
      BY <2>2 DEF OnRecord
    <3> QED  BY <2>1, <2>2, <3>1, <3>2
  <2>3. CASE stage[r] = "ending" /\ Reply(r, "500", NoRow) /\ UNCHANGED decisions
    <3>1. \A q \in Debates : OnRecord(q)' = OnRecord(q)
      BY <2>3 DEF OnRecord
    <3> QED  BY <2>1, <2>3, <3>1 DEF Reply
  <2>4. CASE stage[r] = "raised" /\ UNCHANGED <<decisions, reply>>
    <3>1. \A q \in Debates : OnRecord(q)' = OnRecord(q)
      BY <2>4 DEF OnRecord
    <3> QED  BY <2>1, <2>4, <3>1
  <2> QED  BY <1>3, <2>2, <2>3, <2>4 DEF EndDecision
<1>4. CASE DecideQuiet \/ UNCHANGED decideVars
  BY <1>4 DEF DecideQuiet, decideVars, OnRecord
<1> QED  BY <1>1, <1>2, <1>3, <1>4 DEF DecideNext

LEMMA DecisionsHold == DecideSpec => []DecideInv
BY DecideStart, DecideStep, PTL DEF DecideSpec

\* A decision without a recommendation has an error.
LEMMA BlankSaysWhy ==
    ASSUME NEW res \in Results, Decision(res).recommendation = Blank
    PROVE  Decision(res).error
<1>1. CASE res.raised \/ res.output = <<>>
  BY <1>1 DEF Decision, NoRow
<1>2. CASE ~res.raised /\ res.output # <<>>
  <2>1. res.output \in Answers /\ Decision(res).recommendation = Recommendation(res.output)
    BY <1>2 DEF Results, Decision
  <2> QED  BY <1>2, <2>1, RecommendationNotBlank
<1> QED  BY <1>1, <1>2

\* What is answered is on record, and nothing else, whatever the debate came to.
THEOREM DecisionsAreRecorded == DecideSpec => []DecisionIsRecorded
<1>1. DecideInv => DecisionIsRecorded
  <2> SUFFICES ASSUME DecideInv, NEW r \in Debates, stage[r] = "done"
               PROVE  /\ OnRecord(r) = IF reply[r].status = "200"
                                       THEN {[id |-> r, row |-> reply[r].decision]} ELSE {}
                      /\ reply[r].status = "200" /\ reply[r].decision.recommendation = Blank =>
                            reply[r].decision.error
    BY DEF DecisionIsRecorded, OnRecord
  <2>1. result[r] \in Results
    BY DEF DecideInv
  <2>2. CASE /\ reply[r] = [status |-> "200", decision |-> Decision(result[r])]
             /\ OnRecord(r) = {[id |-> r, row |-> Decision(result[r])]}
    BY <2>1, <2>2, BlankSaysWhy
  <2>3. CASE reply[r] = [status |-> "500", decision |-> NoRow] /\ OnRecord(r) = {}
    BY <2>3
  <2> QED  BY <2>2, <2>3 DEF DecideInv
<1> QED  BY <1>1, DecisionsHold, PTL

\* An answer in the form that the prompt asks for is read as it is meant, for texts of
\* any length with any other labels before, between and behind the two, if those with a
\* body are words.
THEOREM PromptFormIsRead == DecideSpec => []FormIsRead
<1>1. DecideInv => FormIsRead
  <2> SUFFICES ASSUME DecideInv, NEW r \in Debates, stage[r] = "done",
                      reply[r].status = "200", ~result[r].raised,
                      NEW i \in DOMAIN result[r].output,
                      result[r].output[i].label = "RECOMMENDATION",
                      NEW j \in DOMAIN result[r].output,
                      result[r].output[j].label = "RATIONALE",
                      Cardinality({k \in DOMAIN result[r].output :
                          result[r].output[k].label = "RECOMMENDATION"}) = 1,
                      Cardinality({k \in DOMAIN result[r].output :
                          result[r].output[k].label = "RATIONALE"}) = 1,
                      Under(result[r].output, i) # <<>>, Under(result[r].output, j) # <<>>,
                      Formed(result[r].output)
               PROVE  /\ reply[r].decision.recommendation = Under(result[r].output, i)[1]
                      /\ reply[r].decision.rationale = Under(result[r].output, j)
    BY DEF FormIsRead, Formed
  <2> DEFINE text == result[r].output
  <2>1. reply[r].decision = Decision(result[r]) /\ result[r] \in Results
    BY DEF DecideInv
  <2>2. text # <<>>
    BY EmptySeq
  <2>3. text \in Answers
    BY <2>1, <2>2 DEF Results
  <2>4. /\ Decision(result[r]).recommendation = Recommendation(text)
        /\ Decision(result[r]).rationale = Rationale(text)
    BY <2>2 DEF Decision
  <2> HIDE DEF text
  <2>5. Recommendation(text) = Under(text, i)[1] /\ Rationale(text) = Under(text, j)
    BY <2>3, FormOfText DEF text
  <2> QED  BY <2>1, <2>4, <2>5 DEF text
<1> QED  BY <1>1, DecisionsHold, PTL
============================================================================
