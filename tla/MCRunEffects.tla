--------------------------- MODULE MCRunEffects ---------------------------
(* Instances of CostLedger, GitAutoCommit and CodeRequests for TLC: what    *)
(* the calls of the pipeline leave behind besides the row of their task.    *)
(* The three share nothing, so that in a behaviour there is one of them.    *)
EXTENDS CostLedger, GitAutoCommit, CodeRequests, TLC

CONSTANTS g1, g2, g3, c1, c2, a1, r1, v1, f1, prose, blank, good, plain, long, head

---------------------------------------------------------------------------
(* GitAutoCommit: the requests are interchangeable. *)

ThreeGenerates == {g1, g2, g3}
Symmetry == Permutations(ThreeGenerates)

---------------------------------------------------------------------------
(* CostLedger *)

TwoSpenders == {c1, c2}
OneAdmin    == {a1}

\* 2,000,000 units of 5e-9 USD.
OneCent == 2000000

\* With the code, tasks of a few hundred tokens, of the 20,000 that cost half a cent,
\* and of more than the 100,000 that are charged.
SomeTasks   == {150, 40000}
SomeCode    == {100, 40000, 400000}
SomeBudgets == {0, 1, 7}

---------------------------------------------------------------------------
(* CodeRequests *)

OneRun    == {r1}
OneReview == {v1}
OneFix    == {f1}

\* good has a function, plain has none, long has one and is cut to its head.
AllSources  == {prose, blank, good, plain, long, head}
SomeParse   == {blank, good, plain, long}
SomeDefine  == {good, long, head}
SomeTop     == {good, long}
SomeName    == {good, long, head} \X {"python", "typescript", "rust"}
SomeCompile == {good, plain, long} \X {"typescript", "rust"}
CutLong     == [c \in AllSources |-> IF c = long THEN head ELSE c]

SomeLanguages == {"python", "py", "ts", "rust", "cobol"}

\* The ways to tag up to three markers, the chunks between them given; and two
\* blocks, opened and closed.
Between(chunks, n, tags) ==
    {[chunks |-> SubSeq(chunks, 1, n + 1), tags |-> t] : t \in [1..n -> tags]}
SomeOutputs ==
    {Plain(c) : c \in AllSources}
    \cup Between(<<prose, good>>, 1, {"", "ts", "js"})
    \cup Between(<<prose, good, blank>>, 2, {"", "ts", "js"})
    \cup Between(<<prose, good, plain, long>>, 3, {"", "ts"})
    \cup {[chunks |-> <<blank, long, prose, good, prose>>, tags |-> <<a, "", b, "">>] :
             a \in {"", "js", "ts"}, b \in {"ts", "rs"}}

\* Functions conform in all languages, long ones in Rust only; a fallback payload
\* conforms if a name was found, a nameless program in the languages that compile.
SomeConforming ==
    {[form |-> "function", name |-> c, language |-> "python"] : c \in {good}}
    \cup {[form |-> "fallback", name |-> c, language |-> l] :
             c \in SomeDefine, l \in SomeLanguages}
    \cup {[form |-> "polyglot", code |-> Plain(good), name |-> good, language |-> l] :
             l \in SUPPORTED_LANGUAGES}
    \cup {[form |-> "polyglot", code |-> Plain(plain), name |-> blank, language |-> l] :
             l \in {"typescript", "rust"}}
    \cup {[form |-> "polyglot", code |-> Plain(c), name |-> c, language |-> "rust"] :
             c \in {long, head}}

---------------------------------------------------------------------------
vars == <<ledgerVars, gitVars, requestVars>>

\* Nor does a run share anything with the metered calls: here it waits for their end.
RunsComeLast ==
    (\E r \in Runs : pc'[r] # "idle") => \A m \in Metered : pc[m] = "done"

Init == LedgerInit /\ GitInit /\ RequestsInit

Next == \/ GitIdle /\ RequestsIdle /\ LedgerNext /\ UNCHANGED <<gitVars, requestVars>>
        \/ LedgerIdle /\ RequestsIdle /\ GitNext /\ UNCHANGED <<ledgerVars, requestVars>>
        \/ /\ LedgerIdle /\ GitIdle /\ RequestsNext /\ UNCHANGED <<ledgerVars, gitVars>>
           /\ RunsComeLast

Spec == Init /\ [][Next]_vars
============================================================================
