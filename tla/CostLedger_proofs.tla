------------------------- MODULE CostLedger_proofs -------------------------
(***************************************************************************)
(* The month's spending is never overstated, and understated only where a   *)
(* run writes over another's, for any number of runs and admins, any costs  *)
(* and any fraction of a cent they are counted in.                          *)
(***************************************************************************)
EXTENDS CostLedger, TLAPS

\* The bound: what may at most be shown as spent, in half units of a cent.
Bound == 2 * logged + Cent * entries

\* Rounding to cents adds or takes at most half a cent.
LEMMA Rounding ==
    ASSUME NEW m \in Nat
    PROVE  /\ ToCents(m) \in Nat
           /\ 2 * Cent * ToCents(m) <= 2 * m + Cent
           /\ 2 * m <= 2 * Cent * ToCents(m) + Cent
<1> DEFINE c == 2 * Cent
<1> DEFINE n == 2 * m + Cent
<1>1. c \in Nat \ {0} /\ n \in Nat
  BY LedgerAssumption
<1>2. n \div c \in Nat /\ c * (n \div c) <= n /\ n <= c * (n \div c) + c
  <2> HIDE DEF c, n
  <2>1. QED
    BY <1>1
<1>3. ToCents(m) = n \div c
  BY DEF ToCents
<1>4. 2 * m + Cent <= c * ToCents(m) + c
  BY <1>2, <1>3
<1>5. c * ToCents(m) \in Nat /\ c = Cent + Cent
  BY <1>1, <1>2, <1>3, LedgerAssumption
<1>6. 2 * m <= c * ToCents(m) + Cent
  BY <1>1, <1>4, <1>5, LedgerAssumption
<1> QED
  BY <1>2, <1>3, <1>6, LedgerAssumption

LEMMA Amounts ==
    ASSUME LedgerTypeOK
    PROVE  /\ Bound \in Nat
           /\ \A a \in Actors : 2 * Cent * seen[a].spent \in Nat /\ amount[a] \in Nat
           /\ 2 * Cent * row.spent \in Nat
           /\ 2 * Cent * written.spent \in Nat
<1>1. /\ logged \in Nat /\ entries \in Nat /\ row.spent \in Nat /\ written.spent \in Nat
      /\ \A a \in Actors : seen[a].spent \in Nat /\ amount[a] \in Nat
  BY DEF LedgerTypeOK, Row
<1>2. \A m, n \in Nat : m * n \in Nat
  OBVIOUS
<1>3. QED
  BY <1>1, <1>2, LedgerAssumption DEF Bound

\* A run is charged a natural number.
LEMMA Charges == UsageCosts \subseteq Nat
<1> SUFFICES ASSUME NEW t \in TaskLengths, NEW n \in CodeLengths, NEW p \in Providers
             PROVE  UsageCost(t, n, p) \in Nat
  BY DEF UsageCosts
<1>1. t \in Nat /\ n \in Nat
  BY LedgerAssumption
<1>2. n \div 4 \in Nat /\ t \div 4 \in Nat /\ (35 * t) \div 100 \in Nat
  BY <1>1
<1>3. EstimateTokens(t) \in Nat
  BY <1>2 DEF EstimateTokens, AtMost, AtLeast
<1>4. \A k \in Nat : CalculateCost(k, p) \in Nat
  BY DEF CalculateCost, RATES_PER_TOKEN
<1>5. AtMost(AtLeast(n \div 4 + t \div 4, EstimateTokens(t)), 100000) \in Nat
  BY <1>2, <1>3 DEF AtMost, AtLeast
<1> QED  BY <1>4, <1>5 DEF UsageCost

LEMMA LedgerInitOK == LedgerInit => LedgerInv
<1> SUFFICES ASSUME LedgerInit PROVE LedgerInv
  OBVIOUS
<1>1. /\ row = NoRow /\ lock = Nobody /\ logged = 0 /\ entries = 0 /\ ~overtaken
      /\ \A a \in Actors : phase[a] = "idle" /\ lock # a
  BY LedgerAssumption DEF LedgerInit
<1>2. LedgerTypeOK
  BY LedgerAssumption DEF LedgerInit, LedgerTypeOK, Row, NoRow
<1>3. SpentIsLogged /\ LoggedIsSpent
  <2>1. Cent * 0 = 0 /\ 2 * Cent * 0 = 0
    BY LedgerAssumption
  <2>2. NoRow.spent = 0
    BY DEF NoRow
  <2> QED  BY <1>1, <2>1, <2>2 DEF SpentIsLogged, LoggedIsSpent
<1> QED  BY <1>1, <1>2, <1>3 DEF LedgerInv, SpendingIsComplete

\* What the invariant says of one actor, with the numbers it is about.
ActorOK(a) ==
    /\ phase[a] = "flushed" /\ lock # a /\ a \in Spenders => amount[a] = 0
    /\ phase[a] \in {"read", "flushed"} => 2 * Cent * seen[a].spent <= Bound
    /\ lock = a => 2 * Cent * written.spent
                      <= Bound + (IF a \in Spenders THEN 2 * amount[a] + Cent ELSE 0)
    /\ lock = a /\ ~overtaken =>
          2 * logged + (IF a \in Spenders THEN 2 * amount[a] ELSE 0)
              <= 2 * Cent * written.spent + Cent * entries
                    + (IF a \in Spenders THEN Cent ELSE 0)

LEMMA Parts ==
    LedgerInv <=> /\ LedgerTypeOK
                  /\ SpentIsLogged
                  /\ SpendingIsComplete
                  /\ lock # Nobody => phase[lock] = "flushed" /\ written.present
                  /\ ~row.present => row = NoRow
                  /\ \A a \in Actors : ActorOK(a)
BY DEF LedgerInv, ActorOK, Bound

LEMMA PartsAfter ==
    ASSUME LedgerTypeOK', SpentIsLogged', SpendingIsComplete',
           lock' # Nobody => phase'[lock'] = "flushed" /\ written'.present,
           ~row'.present => row' = NoRow,
           \A a \in Actors : ActorOK(a)'
    PROVE  LedgerInv'
BY DEF LedgerInv, ActorOK, Bound

LEMMA ReadKeeps ==
    ASSUME LedgerInv, NEW a \in Actors, Read(a)  PROVE LedgerInv'
<1> USE LedgerAssumption
<1>t. LedgerTypeOK
  BY DEF LedgerInv
<1>1. amount' \in [Actors -> Nat] /\ \A b \in Actors \ {a} : amount'[b] = amount[b]
  BY <1>t, Charges DEF Read, LedgerTypeOK, Actors
<1>2. LedgerTypeOK'
  BY <1>t, <1>1 DEF Read, LedgerTypeOK, Actors
<1>3. /\ UNCHANGED <<row, lock, written, logged, entries, overtaken>>
      /\ seen'[a] = row /\ phase'[a] = "read" /\ phase[a] = "idle"
      /\ \A b \in Actors \ {a} : seen'[b] = seen[b] /\ phase'[b] = phase[b]
  BY <1>t DEF Read, LedgerTypeOK
<1>4. lock # a
  BY <1>3, Parts DEF LedgerTypeOK
<1>5. SpentIsLogged' /\ SpendingIsComplete'
  BY <1>3, Parts DEF SpentIsLogged, SpendingIsComplete, LoggedIsSpent
<1>6. ActorOK(a)'
  BY <1>3, <1>4, Parts DEF ActorOK, SpentIsLogged, Bound
<1>7. ASSUME NEW b \in Actors \ {a} PROVE ActorOK(b)'
  BY <1>1, <1>3, Parts DEF ActorOK, Bound
<1>8. lock' # Nobody => phase'[lock'] = "flushed" /\ written'.present
  BY <1>t, <1>3, <1>4, Parts DEF LedgerTypeOK
<1> HIDE DEF ActorOK
<1> QED
  BY <1>2, <1>3, <1>5, <1>6, <1>7, <1>8, Parts, PartsAfter

\* The flush that takes the lock: what is written is within both bounds.
LEMMA FlushWrites ==
    ASSUME LedgerInv, NEW a \in Actors, Flush(a), lock = Nobody, lock' = a,
           seen[a].present = row.present,
           written' = IF a \in Spenders THEN Spend(a, row) ELSE SetBudget(a, row),
           overtaken' = (overtaken \/ (a \in Spenders /\ seen[a].spent # row.spent))
    PROVE  /\ written' \in Row /\ written'.present
           /\ 2 * Cent * written'.spent
                 <= Bound + (IF a \in Spenders THEN 2 * amount[a] + Cent ELSE 0)
           /\ ~overtaken' =>
                 2 * logged + (IF a \in Spenders THEN 2 * amount[a] ELSE 0)
                     <= 2 * Cent * written'.spent + Cent * entries
                           + (IF a \in Spenders THEN Cent ELSE 0)
<1> USE LedgerAssumption
<1>t. LedgerTypeOK
  BY DEF LedgerInv
<1>1. /\ seen[a] \in Row /\ amount[a] \in Nat /\ row \in Row /\ Bound \in Nat
      /\ logged \in Nat /\ Cent * entries \in Nat
      /\ Bound = 2 * logged + Cent * entries
  BY <1>t, Amounts DEF LedgerTypeOK, Bound
<1>2. 2 * Cent * seen[a].spent <= Bound /\ 2 * Cent * row.spent <= Bound
  BY Parts DEF Flush, ActorOK, SpentIsLogged, Bound
<1>3. ~overtaken => 2 * logged <= 2 * Cent * row.spent + Cent * entries
  BY Parts DEF SpendingIsComplete, LoggedIsSpent
<1>4. ~row.present => row.spent = 0 /\ 2 * Cent * row.spent = 0
  BY Parts DEF NoRow
<1>5. CASE a \in Spenders
  <2> DEFINE base == IF seen[a].present THEN seen[a].spent ELSE 0
             m == base * Cent + amount[a]
  <2>1. base \in Nat /\ m \in Nat /\ 2 * m = 2 * Cent * base + 2 * amount[a]
        /\ 2 * Cent * base \in Nat
    BY <1>1 DEF Row
  <2>2. /\ ToCents(m) \in Nat
        /\ 2 * Cent * ToCents(m) <= 2 * m + Cent
        /\ 2 * m <= 2 * Cent * ToCents(m) + Cent
    BY <2>1, Rounding
  <2>3. written' \in Row /\ written'.present /\ written'.spent = ToCents(m)
    <3>1. CASE seen[a].present
      BY <1>1, <1>5, <2>2, <3>1 DEF Spend, Row
    <3>2. CASE ~seen[a].present
      <4>1. m = amount[a]
        BY <1>1, <3>2
      <4>2. ToCents(amount[a]) = ToCents(m)
        BY <4>1
      <4> HIDE DEF m
      <4> QED  BY <1>1, <1>5, <2>2, <3>2, <4>2 DEF Spend, Row
    <3> QED  BY <3>1, <3>2
  <2>4. 2 * Cent * base <= Bound
    BY <1>1, <1>2, <2>1
  <2>5. ~overtaken' => ~overtaken /\ 2 * Cent * base = 2 * Cent * row.spent
    BY <1>4, <1>5
  <2> HIDE DEF base, m
  <2>6. 2 * Cent * ToCents(m) \in Nat
    BY <2>2
  <2>7. 2 * Cent * written'.spent <= Bound + 2 * amount[a] + Cent
    BY <1>1, <2>1, <2>2, <2>3, <2>4, <2>6
  <2>8. ~overtaken' =>
            2 * logged + 2 * amount[a] <= 2 * Cent * written'.spent + Cent * entries + Cent
    BY <1>1, <1>3, <2>1, <2>2, <2>3, <2>5, <2>6
  <2> QED  BY <1>1, <1>5, <2>3, <2>7, <2>8
<1>6. CASE a \notin Spenders
  <2>1. written' \in Row /\ written'.present /\ 2 * Cent * written'.spent = 2 * Cent * row.spent
    BY <1>1, <1>4, <1>6 DEF SetBudget, Row
  <2>2. 2 * Cent * row.spent \in Nat
    BY <1>t, Amounts
  <2>3. ~overtaken' => ~overtaken
    OBVIOUS
  <2>4. 2 * Cent * written'.spent <= Bound
    BY <1>2, <2>1
  <2>5. ~overtaken' => 2 * logged <= 2 * Cent * written'.spent + Cent * entries
    BY <1>3, <2>1, <2>3
  <2>6. 2 * Cent * written'.spent \in Nat
    BY <2>1, <2>2
  <2> QED  BY <1>1, <1>6, <2>1, <2>4, <2>5, <2>6
<1> QED  BY <1>5, <1>6

LEMMA FlushKeeps ==
    ASSUME LedgerInv, NEW a \in Actors, Flush(a)  PROVE LedgerInv'
<1> USE LedgerAssumption
<1>t. LedgerTypeOK
  BY DEF LedgerInv
<1>0. /\ UNCHANGED <<row, logged, entries, seen, amount>>
      /\ phase[a] = "read" /\ lock # a
      /\ \A b \in Actors \ {a} : phase'[b] = phase[b]
  BY <1>t, Parts DEF Flush, LedgerTypeOK
<1>u. Bound' = Bound
  BY <1>0 DEF Bound
<1>1. CASE phase' = [phase EXCEPT ![a] = "flushed"] /\ ~Dirty(a) /\ UNCHANGED <<lock, written, overtaken>>
  <2>1. LedgerTypeOK'
    BY <1>t, <1>0, <1>1 DEF LedgerTypeOK
  <2>2. a \in Spenders => amount[a] = 0
    BY <1>1 DEF Dirty
  <2>3. \A b \in Actors : ActorOK(b)'
    BY <1>t, <1>0, <1>1, <1>u, <2>2, Parts DEF ActorOK, LedgerTypeOK
  <2>4. SpentIsLogged' /\ SpendingIsComplete'
    BY <1>0, <1>1, Parts DEF SpentIsLogged, SpendingIsComplete, LoggedIsSpent
  <2>5. lock' # Nobody => phase'[lock'] = "flushed" /\ written'.present
    BY <1>t, <1>0, <1>1, Parts DEF LedgerTypeOK
  <2> QED  BY <1>0, <2>1, <2>3, <2>4, <2>5, Parts, PartsAfter
<1>2. CASE phase' = [phase EXCEPT ![a] = "failed"] /\ lock = Nobody /\ UNCHANGED <<lock, written, overtaken>>
  <2>1. LedgerTypeOK'
    BY <1>t, <1>0, <1>2 DEF LedgerTypeOK
  <2>3. \A b \in Actors : ActorOK(b)'
    BY <1>t, <1>0, <1>2, <1>u, Parts DEF ActorOK, LedgerTypeOK
  <2>4. SpentIsLogged' /\ SpendingIsComplete'
    BY <1>0, <1>2, Parts DEF SpentIsLogged, SpendingIsComplete, LoggedIsSpent
  <2> QED  BY <1>0, <1>2, <2>1, <2>3, <2>4, Parts, PartsAfter
<1>3. CASE /\ lock = Nobody /\ lock' = a /\ seen[a].present = row.present
           /\ written' = IF a \in Spenders THEN Spend(a, row) ELSE SetBudget(a, row)
           /\ phase' = [phase EXCEPT ![a] = "flushed"]
           /\ overtaken' = (overtaken \/ (a \in Spenders /\ seen[a].spent # row.spent))
  <2>1. /\ written' \in Row /\ written'.present
        /\ 2 * Cent * written'.spent
              <= Bound + (IF a \in Spenders THEN 2 * amount[a] + Cent ELSE 0)
        /\ ~overtaken' =>
              2 * logged + (IF a \in Spenders THEN 2 * amount[a] ELSE 0)
                  <= 2 * Cent * written'.spent + Cent * entries
                        + (IF a \in Spenders THEN Cent ELSE 0)
    BY <1>3, FlushWrites
  <2>2. LedgerTypeOK'
    BY <1>t, <1>0, <1>3, <2>1 DEF LedgerTypeOK
  <2>3. ActorOK(a)'
    BY <1>t, <1>0, <1>3, <1>u, <2>1, Parts DEF ActorOK, LedgerTypeOK
  <2>4. ASSUME NEW b \in Actors \ {a} PROVE ActorOK(b)'
    BY <1>t, <1>0, <1>3, <1>u, Parts DEF ActorOK, LedgerTypeOK
  <2>5. SpentIsLogged' /\ SpendingIsComplete'
    BY <1>0, <1>3, Parts DEF SpentIsLogged, SpendingIsComplete, LoggedIsSpent
  <2>6. phase'[lock'] = "flushed" /\ written'.present
    BY <1>t, <1>3, <2>1 DEF LedgerTypeOK
  <2> QED  BY <1>0, <2>2, <2>3, <2>4, <2>5, <2>6, Parts, PartsAfter
<1> QED
  BY <1>1, <1>2, <1>3 DEF Flush

LEMMA CommitKeeps ==
    ASSUME LedgerInv, NEW a \in Actors, Commit(a)  PROVE LedgerInv'
<1> USE LedgerAssumption
<1>t. LedgerTypeOK
  BY DEF LedgerInv
<1>1. LedgerTypeOK'
  BY <1>t DEF Commit, LedgerTypeOK, NoRow, Row
<1>2. /\ UNCHANGED <<seen, amount, overtaken>>
      /\ phase[a] = "flushed" /\ phase'[a] = "committed"
      /\ \A b \in Actors \ {a} : phase'[b] = phase[b]
      /\ logged' = logged + (IF a \in Spenders THEN amount[a] ELSE 0)
      /\ entries' = entries + (IF a \in Spenders THEN 1 ELSE 0)
      /\ IF lock = a THEN row' = written /\ lock' = Nobody /\ written' = NoRow
                     ELSE UNCHANGED <<row, lock, written>>
  BY <1>t DEF Commit, LedgerTypeOK
<1>3. /\ logged \in Nat /\ amount[a] \in Nat /\ Bound \in Nat /\ Cent * entries \in Nat
      /\ Bound = 2 * logged + Cent * entries
      /\ 2 * Cent * row.spent \in Nat /\ 2 * Cent * written.spent \in Nat
  BY <1>t, Amounts DEF LedgerTypeOK, Bound
<1>4. Cent * entries' = Cent * entries + (IF a \in Spenders THEN Cent ELSE 0)
  BY <1>t, <1>2 DEF LedgerTypeOK
<1>5. Bound' = Bound + (IF a \in Spenders THEN 2 * amount[a] + Cent ELSE 0)
  BY <1>2, <1>3, <1>4 DEF Bound
<1>6. lock # a /\ a \in Spenders => amount[a] = 0
  BY <1>2, Parts DEF ActorOK
<1>7. SpentIsLogged'
  <2>1. CASE lock = a
    BY <1>2, <1>3, <1>5, <2>1, Parts DEF ActorOK, SpentIsLogged, Bound
  <2>2. CASE lock # a
    <3>1. 2 * Cent * row.spent <= Bound
      BY Parts DEF SpentIsLogged, Bound
    <3>2. 2 * Cent * row'.spent <= Bound'
      BY <1>2, <1>3, <1>5, <2>2, <3>1
    <3> QED  BY <3>2 DEF SpentIsLogged, Bound
  <2> QED  BY <2>1, <2>2
<1>8. SpendingIsComplete'
  <2> SUFFICES ASSUME ~overtaken
               PROVE  2 * logged' <= 2 * Cent * row'.spent + Cent * entries'
    BY <1>2 DEF SpendingIsComplete, LoggedIsSpent
  <2>0. 2 * logged' = 2 * logged + (IF a \in Spenders THEN 2 * amount[a] ELSE 0)
    BY <1>2, <1>3
  <2>1. CASE lock = a
    <3>1. 2 * logged + (IF a \in Spenders THEN 2 * amount[a] ELSE 0)
              <= 2 * Cent * written.spent + Cent * entries + (IF a \in Spenders THEN Cent ELSE 0)
      BY <2>1, Parts DEF ActorOK
    <3> QED  BY <1>2, <1>3, <1>4, <2>0, <2>1, <3>1
  <2>2. CASE lock # a
    <3>1. 2 * logged <= 2 * Cent * row.spent + Cent * entries
      BY Parts DEF SpendingIsComplete, LoggedIsSpent
    <3> QED  BY <1>2, <1>3, <1>4, <1>6, <2>0, <2>2, <3>1
  <2> QED  BY <2>1, <2>2
<1>9. ASSUME NEW b \in Actors \ {a} PROVE ActorOK(b)'
  <2>1. /\ phase'[b] = phase[b] /\ (lock' = b => lock = b /\ lock # a /\ written' = written)
        /\ (lock' # b => lock # b) /\ seen'[b] = seen[b] /\ amount'[b] = amount[b]
    BY <1>2
  <2>2. ActorOK(b)
    BY Parts
  <2>3. /\ 2 * Cent * seen[b].spent \in Nat /\ amount[b] \in Nat
    BY <1>t, Amounts
  <2>4. phase'[b] \in {"read", "flushed"} => 2 * Cent * seen'[b].spent <= Bound'
    BY <1>3, <1>5, <2>1, <2>2, <2>3 DEF ActorOK
  <2>5. ASSUME lock' = b
        PROVE  2 * Cent * written'.spent
                   <= Bound' + (IF b \in Spenders THEN 2 * amount'[b] + Cent ELSE 0)
    <3>1. 2 * Cent * written.spent
              <= Bound + (IF b \in Spenders THEN 2 * amount[b] + Cent ELSE 0)
      BY <2>1, <2>2, <2>5 DEF ActorOK
    <3> QED  BY <1>3, <1>5, <2>1, <2>3, <2>5, <3>1
  <2>6. ASSUME lock' = b, ~overtaken'
        PROVE  2 * logged' + (IF b \in Spenders THEN 2 * amount'[b] ELSE 0)
                   <= 2 * Cent * written'.spent + Cent * entries'
                         + (IF b \in Spenders THEN Cent ELSE 0)
    <3>1. 2 * logged + (IF b \in Spenders THEN 2 * amount[b] ELSE 0)
              <= 2 * Cent * written.spent + Cent * entries + (IF b \in Spenders THEN Cent ELSE 0)
      BY <1>2, <2>1, <2>2, <2>6 DEF ActorOK
    <3>2. 2 * logged' = 2 * logged
      <4>1. a \in Spenders => amount[a] = 0
        BY <1>6, <2>1, <2>6
      <4>2. logged' = logged
        BY <1>2, <1>3, <4>1
      <4> QED  BY <4>2
    <3> QED  BY <1>3, <1>4, <2>1, <2>3, <2>6, <3>1, <3>2
  <2> QED  BY <2>1, <2>2, <2>4, <2>5, <2>6 DEF ActorOK
<1>10. ActorOK(a)'
  BY <1>2 DEF ActorOK
<1>11. lock' # Nobody => phase'[lock'] = "flushed" /\ written'.present
  BY <1>t, <1>2, Parts DEF LedgerTypeOK
<1>12. ~row'.present => row' = NoRow
  <2>1. CASE lock # a
    BY <1>2, <2>1, Parts
  <2>2. CASE lock = a
    BY <1>2, <2>2, Parts, LedgerAssumption DEF Actors
  <2> QED  BY <2>1, <2>2
<1> HIDE DEF ActorOK
<1> QED
  BY <1>1, <1>7, <1>8, <1>9, <1>10, <1>11, <1>12, Parts, PartsAfter

LEMMA RollbackKeeps ==
    ASSUME LedgerInv, NEW a \in Actors, Rollback(a)  PROVE LedgerInv'
<1> USE LedgerAssumption
<1>t. LedgerTypeOK
  BY DEF LedgerInv
<1>1. LedgerTypeOK'
  BY <1>t DEF Rollback, LedgerTypeOK, Actors, Row, NoRow
<1>2. /\ UNCHANGED <<row, logged, entries, seen, amount, overtaken>>
      /\ phase'[a] = "failed" /\ \A b \in Actors \ {a} : phase'[b] = phase[b]
      /\ IF lock = a THEN lock' = Nobody ELSE UNCHANGED <<lock, written>>
  BY <1>t DEF Rollback, LedgerTypeOK
<1>3. \A b \in Actors : ActorOK(b)'
  BY <1>t, <1>2, Parts DEF ActorOK, Bound
<1>4. SpentIsLogged' /\ SpendingIsComplete'
  BY <1>2, Parts DEF SpentIsLogged, SpendingIsComplete, LoggedIsSpent
<1>5. lock' # Nobody => phase'[lock'] = "flushed" /\ written'.present
  BY <1>t, <1>2, Parts DEF LedgerTypeOK
<1> QED
  BY <1>1, <1>2, <1>3, <1>4, <1>5, Parts, PartsAfter

LEMMA LedgerStep ==
    ASSUME LedgerInv, [LedgerNext]_ledgerVars
    PROVE  LedgerInv'
<1>1. CASE UNCHANGED ledgerVars
  BY <1>1 DEF ledgerVars, LedgerInv, LedgerTypeOK, SpentIsLogged, SpendingIsComplete, LoggedIsSpent
<1> QED
  BY <1>1, ReadKeeps, FlushKeeps, CommitKeeps, RollbackKeeps DEF LedgerNext, LedgerQuiet

THEOREM Ledger == LedgerSpec => []LedgerInv
BY LedgerInitOK, LedgerStep, PTL DEF LedgerSpec

\* No cost is added twice, and no warning comes too early.
THEOREM Spending == LedgerSpec => []NeverOverstated
<1>1. LedgerInv => NeverOverstated
  <2> SUFFICES ASSUME LedgerInv PROVE NeverOverstated
    OBVIOUS
  <2>1. row.budget \in Nat /\ row.spent \in Nat /\ SpentIsLogged /\ logged \in Nat /\ entries \in Nat
    BY DEF LedgerInv, LedgerTypeOK, Row
  <2>2. ASSUME BudgetAlert PROVE 5 * (2 * logged + Cent * entries) >= 8 * Cent * row.budget
    <3> DEFINE budget == Cent * row.budget
               spent  == Cent * row.spent
    <3>1. 5 * row.spent >= 4 * row.budget
      BY <2>1, <2>2 DEF BudgetAlert
    <3>2. Cent * (5 * row.spent) >= Cent * (4 * row.budget)
      BY <2>1, <3>1, LedgerAssumption
    <3>3. budget \in Nat /\ spent \in Nat /\ 5 * spent >= 4 * budget
      BY <2>1, <3>2, LedgerAssumption
    <3>4. Cent * entries \in Nat /\ 2 * spent <= 2 * logged + Cent * entries
      BY <2>1, LedgerAssumption DEF SpentIsLogged
    <3>5. 5 * (2 * logged + Cent * entries) >= 8 * budget
      BY <2>1, <3>3, <3>4
    <3> QED  BY <2>1, <3>5, LedgerAssumption
  <2> QED  BY <2>1, <2>2 DEF NeverOverstated
<1>2. QED
  BY <1>1, Ledger, PTL

\* Nothing but what a run writes over is missing in what is shown as spent.
THEOREM NothingUnspent == LedgerSpec => []SpendingIsComplete
<1>1. LedgerInv => SpendingIsComplete
  BY DEF LedgerInv
<1> QED  BY <1>1, Ledger, PTL

\* A run that is about to commit a row it found leaves the budget as it is by now:
\* nobody can set another while the run holds the row.
Kept == \A a \in Spenders : lock = a /\ row.present => written.budget = row.budget

LEMMA KeptStep ==
    ASSUME LedgerInv, Kept, [LedgerNext]_ledgerVars
    PROVE  Kept'
<1> USE LedgerAssumption DEF Kept, Actors
<1>1. ASSUME NEW a \in Actors, Read(a) PROVE Kept'
  BY <1>1 DEF Read
<1>2. ASSUME NEW a \in Actors, Flush(a) PROVE Kept'
  <2>1. row' = row
    BY <1>2 DEF Flush
  <2>2. CASE UNCHANGED <<lock, written>>
    BY <2>1, <2>2
  <2>3. CASE /\ seen[a].present = row.present /\ lock' = a
             /\ written' = IF a \in Spenders THEN Spend(a, row) ELSE SetBudget(a, row)
    <3>1. row \in Row
      BY DEF LedgerInv, LedgerTypeOK
    <3>2. a \in Spenders /\ row.present => written'.budget = row.budget
      BY <2>3, <3>1 DEF Spend, Row
    <3> QED  BY <2>1, <2>3, <3>2
  <2> QED  BY <1>2, <2>2, <2>3 DEF Flush
<1>3. ASSUME NEW a \in Actors, Commit(a) PROVE Kept'
  <2>1. lock = a => lock' = Nobody
    BY <1>3 DEF Commit
  <2>2. lock # a => UNCHANGED <<lock, row, written>>
    BY <1>3 DEF Commit
  <2> QED  BY <2>1, <2>2
<1>4. ASSUME NEW a \in Actors, Rollback(a) PROVE Kept'
  <2>1. row' = row /\ (lock = a => lock' = Nobody)
    BY <1>4 DEF Rollback
  <2>2. lock # a => UNCHANGED <<lock, written>>
    BY <1>4 DEF Rollback
  <2> QED  BY <2>1, <2>2
<1>5. CASE UNCHANGED ledgerVars
  BY <1>5 DEF ledgerVars
<1> QED  BY <1>1, <1>2, <1>3, <1>4, <1>5 DEF LedgerNext, LedgerQuiet

\* No run undoes the budget that an admin has set, though it commits a row that it
\* may have read before.
THEOREM KeepingBudget == LedgerSpec => RunsKeepBudget
<1> DEFINE Keeps == \A a \in Spenders : phase[a] # phase'[a] /\ row.present => row'.budget = row.budget
<1>1. LedgerInit => Kept
  BY LedgerAssumption DEF LedgerInit, Kept, Actors
<1>2. LedgerInv /\ Kept /\ [LedgerNext]_ledgerVars => Kept'
  BY KeptStep
<1>3. ASSUME LedgerInv, Kept, [LedgerNext]_ledgerVars PROVE [Keeps]_ledgerVars
  <2> SUFFICES ASSUME LedgerNext, NEW a \in Spenders, phase[a] # phase'[a], row.present
               PROVE  row'.budget = row.budget
    BY <1>3
  <2>1. phase \in [Actors -> {"idle", "read", "flushed", "committed", "failed"}]
    BY <1>3 DEF LedgerInv, LedgerTypeOK
  <2>2. PICK b \in Actors : Read(b) \/ Flush(b) \/ Commit(b) \/ Rollback(b)
    BY DEF LedgerNext, LedgerQuiet, ledgerVars
  <2>3. row' = row \/ (Commit(b) /\ lock = b /\ row' = written)
    BY <2>2 DEF Read, Flush, Commit, Rollback
  <2>4. CASE Commit(b) /\ lock = b /\ row' = written
    <3>1. b = a
      BY <2>1, <2>4 DEF Commit, Actors
    <3> QED  BY <1>3, <2>4, <3>1 DEF Kept
  <2> QED  BY <2>3, <2>4
<1> HIDE DEF Keeps
<1>4. LedgerInv /\ Kept /\ [LedgerNext]_ledgerVars => [Keeps]_ledgerVars
  BY <1>3
<1> QED  BY <1>1, <1>2, <1>4, Ledger, PTL DEF LedgerSpec, RunsKeepBudget, Keeps
=============================================================================
