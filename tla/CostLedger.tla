---------------------------- MODULE CostLedger ----------------------------
(***************************************************************************)
(* The month's row of adk_monthly_budget and the usage log beside it: every *)
(* pipeline run logs its cost and adds it to spent_usd, POST /cost/budget    *)
(* sets budget_usd, GET /cost/summary warns at 80%.  Each reads the row,    *)
(* works on what it read and writes when its transaction is flushed, all at *)
(* READ COMMITTED; the row's lock, or for a first row the unique year_month,*)
(* is held from the flush to the end of the transaction.                    *)
(*                                                                         *)
(* Money is counted in units of which Cent make a cent: the log keeps the   *)
(* fractions of a cent, the columns of the row do not.                      *)
(***************************************************************************)
EXTENDS Integers

CONSTANTS
    Spenders,       \* runs that come to record_usage
    Admins,         \* requests to POST /cost/budget
    TaskLengths,    \* lengths of the tasks that the runs are about, in characters
    CodeLengths,    \* lengths of the code that answers them
    Providers,      \* settings.llm_provider, over the month
    Budgets,        \* budgets in cents that an admin may set
    DefaultBudget,  \* monthly_budget_usd, in cents
    Cent,           \* units of money to a cent
    Nobody          \* nobody holds the lock

Actors == Spenders \cup Admins

ASSUME LedgerAssumption ==
    /\ Spenders \cap Admins = {}
    /\ Nobody \notin Actors
    /\ TaskLengths \subseteq Nat /\ CodeLengths \subseteq Nat
    /\ Budgets \subseteq Nat
    /\ DefaultBudget \in Nat
    /\ Cent \in Nat \ {0}

VARIABLES
    row,        \* the committed row of the month
    lock,       \* whose transaction has written the row
    written,    \* the row as the transaction that holds the lock sees it
    logged,     \* the costs in the committed rows of the usage log, summed up
    entries,    \* how many they are
    phase,      \* where each transaction is
    seen,       \* the row as each transaction has read it
    amount,     \* the cost of a run, the budget an admin sets
    overtaken   \* history: a run has written over spending that it had not read

ledgerVars == <<row, lock, written, logged, entries, phase, seen, amount, overtaken>>

Row == [present : BOOLEAN, budget : Nat, spent : Nat]
NoRow == [present |-> FALSE, budget |-> 0, spent |-> 0]

\* Numeric(18, 2) rounds to whole cents, halves up.
ToCents(money) == (2 * money + Cent) \div (2 * Cent)

---------------------------------------------------------------------------
(* What a run is charged *)

\* Whole units per token; the log's column keeps 1e-8 of a dollar, a
\* rounding left out.
RATES_PER_TOKEN == [local |-> 0, openai |-> 30, anthropic |-> 50, google |-> 15, azure |-> 28]

\* An unknown provider costs nothing.
CalculateCost(tokens, provider) ==
    IF provider \in DOMAIN RATES_PER_TOKEN THEN tokens * RATES_PER_TOKEN[provider] ELSE 0

AtMost(n, cap) == IF n < cap THEN n ELSE cap
AtLeast(n, floor) == IF n > floor THEN n ELSE floor

EstimateTokens(task) == AtMost(AtLeast((35 * task) \div 100 + 128, 64), 12000)

\* run_task charges for both texts, at least what select_model has estimated.
UsageCost(task, code, provider) ==
    CalculateCost(AtMost(AtLeast(code \div 4 + task \div 4, EstimateTokens(task)), 100000),
                  provider)

UsageCosts == {UsageCost(t, n, p) : t \in TaskLengths, n \in CodeLengths, p \in Providers}

---------------------------------------------------------------------------
LedgerInit ==
    /\ row = NoRow
    /\ lock = Nobody
    /\ written = NoRow
    /\ logged = 0
    /\ entries = 0
    /\ phase = [a \in Actors |-> "idle"]
    /\ seen = [a \in Actors |-> NoRow]
    /\ amount = [a \in Actors |-> 0]
    /\ overtaken = FALSE

---------------------------------------------------------------------------
(* record_usage and set_monthly_budget read the row ... *)

Read(a) ==
    /\ phase[a] = "idle"
    /\ \E n \in IF a \in Spenders THEN UsageCosts ELSE Budgets :
          amount' = [amount EXCEPT ![a] = n]
    /\ seen' = [seen EXCEPT ![a] = row]
    /\ phase' = [phase EXCEPT ![a] = "read"]
    /\ UNCHANGED <<row, lock, written, logged, entries, overtaken>>

(* ... change the object in memory, and the flush sends what has changed: *)

\* Mutant: the UPDATE of a run sets every column of the object.
SpendAllColumns(a, stored) ==
    IF seen[a].present
      THEN [seen[a] EXCEPT !.spent = ToCents(seen[a].spent * Cent + amount[a])]
      ELSE [present |-> TRUE, budget |-> DefaultBudget, spent |-> ToCents(amount[a])]

\* spent_usd is what was read and the cost, rounded by the database.
Spend(a, stored) ==
    IF seen[a].present
      THEN [stored EXCEPT !.spent = ToCents(seen[a].spent * Cent + amount[a])]
      ELSE [present |-> TRUE, budget |-> DefaultBudget, spent |-> ToCents(amount[a])]

\* Mutant: a new budget starts from nothing.
SetBudgetAnew(a, stored) == [present |-> TRUE, budget |-> amount[a], spent |-> 0]

SetBudget(a, stored) ==
    IF seen[a].present
      THEN [stored EXCEPT !.budget = amount[a]]
      ELSE [present |-> TRUE, budget |-> amount[a], spent |-> 0]

\* The object differs from what was read, so that there is something to send.
Dirty(a) == ~seen[a].present \/ (IF a \in Spenders THEN amount[a] # 0
                                               ELSE amount[a] # seen[a].budget)

\* INSERT or UPDATE, once no other transaction holds the row.  An INSERT that
\* finds the month inserted meanwhile fails on the unique year_month.
Flush(a) ==
    /\ phase[a] = "read"
    /\ \/ /\ ~Dirty(a)
          /\ phase' = [phase EXCEPT ![a] = "flushed"]
          /\ UNCHANGED <<lock, written, overtaken>>
       \/ /\ Dirty(a)
          /\ lock = Nobody
          /\ IF seen[a].present = row.present
               THEN /\ lock' = a
                    /\ written' = IF a \in Spenders THEN Spend(a, row) ELSE SetBudget(a, row)
                    /\ phase' = [phase EXCEPT ![a] = "flushed"]
                    /\ overtaken' = (overtaken \/ (a \in Spenders /\ seen[a].spent # row.spent))
               ELSE /\ phase' = [phase EXCEPT ![a] = "failed"]
                    /\ UNCHANGED <<lock, written, overtaken>>
    /\ UNCHANGED <<row, logged, entries, seen, amount>>

\* The end of get_db; a run's entry of the log is committed with it.
Commit(a) ==
    /\ phase[a] = "flushed"
    /\ row' = IF lock = a THEN written ELSE row
    /\ lock' = IF lock = a THEN Nobody ELSE lock
    /\ written' = IF lock = a THEN NoRow ELSE written
    /\ logged' = IF a \in Spenders THEN logged + amount[a] ELSE logged
    /\ entries' = IF a \in Spenders THEN entries + 1 ELSE entries
    /\ phase' = [phase EXCEPT ![a] = "committed"]
    /\ UNCHANGED <<seen, amount, overtaken>>

\* Mutant: the money is spent before the handler fails, outside its transaction.
RollbackSpends(a) ==
    /\ phase[a] \in {"read", "flushed"}
    /\ row' = IF lock = a THEN written ELSE row
    /\ lock' = IF lock = a THEN Nobody ELSE lock
    /\ written' = IF lock = a THEN NoRow ELSE written
    /\ phase' = [phase EXCEPT ![a] = "failed"]
    /\ UNCHANGED <<logged, entries, seen, amount, overtaken>>

\* The handler fails later on, or the commit does: everything is rolled back.
Rollback(a) ==
    /\ phase[a] \in {"read", "flushed"}
    /\ lock' = IF lock = a THEN Nobody ELSE lock
    /\ written' = IF lock = a THEN NoRow ELSE written
    /\ phase' = [phase EXCEPT ![a] = "failed"]
    /\ UNCHANGED <<row, logged, entries, seen, amount, overtaken>>

LedgerQuiet ==
    /\ \A a \in Actors : phase[a] \in {"committed", "failed"}
    /\ UNCHANGED ledgerVars

LedgerIdle == \A a \in Actors : phase[a] = "idle"

LedgerNext ==
    \/ \E a \in Actors : Read(a) \/ Flush(a) \/ Commit(a) \/ Rollback(a)
    \/ LedgerQuiet

LedgerSpec == LedgerInit /\ [][LedgerNext]_ledgerVars

---------------------------------------------------------------------------
\* GET /cost/summary: budget_alert is not empty.
BudgetAlert == row.present /\ row.budget > 0 /\ 100 * row.spent >= 80 * row.budget

LedgerTypeOK ==
    /\ row \in Row
    /\ lock \in Actors \cup {Nobody}
    /\ written \in Row
    /\ logged \in Nat
    /\ entries \in Nat
    /\ phase \in [Actors -> {"idle", "read", "flushed", "committed", "failed"}]
    /\ seen \in [Actors -> Row]
    /\ amount \in [Actors -> Nat]
    /\ overtaken \in BOOLEAN

SpentIsLogged == 2 * Cent * row.spent <= 2 * logged + Cent * entries

\* What is shown as spent never exceeds what was logged by more than half a cent
\* of rounding for each entry: whatever runs overlap, and whichever roll back, no
\* cost is added twice, and no warning comes before 80% of the budget are spent.
NeverOverstated ==
    /\ SpentIsLogged
    /\ BudgetAlert => 5 * (2 * logged + Cent * entries) >= 8 * Cent * row.budget

LoggedIsSpent == 2 * logged <= 2 * Cent * row.spent + Cent * entries

\* Nor is anything lost but to a run that writes over what another has added since it
\* read the row: budgets set at the same time, rollbacks and refused first rows take
\* nothing from what is shown as spent but half a cent of rounding for each entry.
SpendingIsComplete == ~overtaken => LoggedIsSpent

\* The inductive invariant: the upper bound holds of every row that was read, and of the
\* row that is about to be committed with the cost of its run; so does the lower one,
\* of the latter, which nobody can change while the lock is held.
LedgerInv ==
    /\ LedgerTypeOK
    /\ SpentIsLogged
    /\ SpendingIsComplete
    /\ lock # Nobody => phase[lock] = "flushed" /\ written.present
    /\ ~row.present => row = NoRow
    /\ \A a \in Actors :
        /\ phase[a] = "flushed" /\ lock # a /\ a \in Spenders => amount[a] = 0
        /\ phase[a] \in {"read", "flushed"} =>
              2 * Cent * seen[a].spent <= 2 * logged + Cent * entries
        /\ lock = a => 2 * Cent * written.spent <=
              2 * logged + Cent * entries + (IF a \in Spenders THEN 2 * amount[a] + Cent ELSE 0)
        /\ lock = a /\ ~overtaken =>
              2 * logged + (IF a \in Spenders THEN 2 * amount[a] ELSE 0) <=
                  2 * Cent * written.spent + Cent * entries
                      + (IF a \in Spenders THEN Cent ELSE 0)

\* The budget changes only when an admin's request commits: a run that commits
\* after it, with what it read before, keeps the budget that was set.
RunsKeepBudget ==
    [][\A a \in Spenders : phase[a] # phase'[a] /\ row.present => row'.budget = row.budget]_ledgerVars
============================================================================
