----------------------- MODULE ArchitectureDecision -----------------------
(***************************************************************************)
(* POST /architecture/decide: a debate of agents, what is read out of their *)
(* answer, and the decision that is recorded and answered.                  *)
(* A text is a sequence of lines without blank ones at its ends; a line has *)
(* a label ("RECOMMENDATION:", "RATIONALE:", another word, or none) and a   *)
(* body, which may be empty.                                                *)
(***************************************************************************)
EXTENDS Sequences, Naturals, FiniteSets, FiniteSetsExt

CONSTANTS
    Debates,        \* requests to POST /architecture/decide
    Lines,          \* lines that its agents may write
    Words,          \* labels of three characters or more without a space
    Answers         \* texts that the debate may end with, <<>> among them

\* A line; a word or a body may be missing.
Nothing == ""
IsLine(l) == l = [label |-> l.label, body |-> l.body]

Blank == [label |-> Nothing, body |-> Nothing]

ASSUME DecideAssumption ==
    /\ \A l \in Lines : IsLine(l)
    /\ Answers \subseteq Seq(Lines)
    /\ \A text \in Answers \ {<<>>} : text[1] # Blank /\ text[Len(text)] # Blank

VARIABLES
    stage,          \* where each request is
    result,         \* what the orchestrator returned, or that it raised
    row,            \* the row of its session
    decisions,      \* committed rows of software_lore_decisions
    reply           \* the status code and what is answered

decideVars == <<stage, result, row, decisions, reply>>

---------------------------------------------------------------------------
(* parse_architecture_answer *)

\* Where the text behind the label of line i begins: in the line, or else in the
\* next one that is not blank, for \s* goes across line ends; 0 if nowhere.
Start(text, i) ==
    IF text[i].body # Nothing THEN i
    ELSE LET filled == {j \in i + 1 .. Len(text) : text[j] # Blank} IN
         IF filled = {} THEN 0 ELSE Min(filled)

\* The first line with the label that has something behind it; 0 if there is none.
Labelled(text, label) ==
    LET lines == {i \in DOMAIN text : text[i].label = label /\ Start(text, i) # 0} IN
    IF lines = {} THEN 0 ELSE Min(lines)

\* The line at which the text behind the label of line i begins, without that label.
FirstLine(text, i) ==
    IF text[i].body # Nothing THEN [text[i] EXCEPT !.label = Nothing] ELSE text[Start(text, i)]

\* Mutant: only a label alone on its line ends the rationale.
EndsBareOnly(text, k) == text[k].label # Nothing /\ text[k].body = Nothing /\ k < Len(text)

\* The lookahead of _RAT_PATTERN: any label alone on its line, with another line behind
\* it, or a word with its body.
Ends(text, k) ==
    /\ text[k].label # Nothing
    /\ IF text[k].body = Nothing THEN k < Len(text) ELSE text[k].label \in Words

\* " ".join(group.split()): the lines from i to the one before end, without blank ones.
Filled(text, i, end) ==
    LET from[k \in 1 .. end] ==
            IF k = end THEN <<>>
            ELSE IF text[k] = Blank THEN from[k + 1]
            ELSE <<text[k]>> \o from[k + 1]
    IN from[i]

Recommendation(text) ==
    LET i == Labelled(text, "RECOMMENDATION") IN
    IF i = 0 THEN text[1] ELSE FirstLine(text, i)

Rationale(text) ==
    LET i == Labelled(text, "RATIONALE")
        j == Start(text, i)
        end == Min({k \in j + 1 .. Len(text) : Ends(text, k)} \cup {Len(text) + 1}) IN
    IF i = 0 THEN text
    ELSE <<FirstLine(text, i)>> \o Filled(text, j + 1, end)

---------------------------------------------------------------------------
(* decide *)

NoResult == [output |-> <<>>, passed |-> FALSE, error |-> FALSE, raised |-> FALSE]
NoRow    == [recommendation |-> Blank, rationale |-> <<>>, passed |-> FALSE, error |-> FALSE]

DecideInit ==
    /\ stage = [r \in Debates |-> "idle"]
    /\ result = [r \in Debates |-> NoResult]
    /\ row = [r \in Debates |-> NoRow]
    /\ decisions = {}
    /\ reply = [r \in Debates |-> [status |-> "none", decision |-> NoRow]]

\* Orchestrator.execute raises, or returns an output, a verdict and perhaps an error.
Debate(r) ==
    /\ stage[r] = "idle"
    /\ \/ result' = [result EXCEPT ![r] = [NoResult EXCEPT !.raised = TRUE]]
       \/ \E text \in Answers, passed, error \in BOOLEAN :
            result' = [result EXCEPT ![r] =
                [output |-> text, passed |-> passed, error |-> error, raised |-> FALSE]]
    /\ stage' = [stage EXCEPT ![r] = "debated"]
    /\ UNCHANGED <<row, decisions, reply>>

\* The row, and the payload that answers it: both are made from the same locals.
Decision(res) ==
    IF res.raised THEN [NoRow EXCEPT !.error = TRUE]
    ELSE IF res.output = <<>> THEN [NoRow EXCEPT !.passed = res.passed, !.error = TRUE]
    ELSE [recommendation |-> Recommendation(res.output), rationale |-> Rationale(res.output),
          passed |-> res.passed, error |-> res.error]

Reply(r, status, decision) ==
    /\ reply' = [reply EXCEPT ![r] = [status |-> status, decision |-> decision]]

\* The row is added and flushed; a flush that fails is answered 500.
Record(r) ==
    /\ stage[r] = "debated"
    /\ LET decision == Decision(result[r]) IN
       \/ /\ row' = [row EXCEPT ![r] = decision]
          /\ stage' = [stage EXCEPT ![r] = "ending"]
          /\ Reply(r, "200", decision)
       \/ /\ stage' = [stage EXCEPT ![r] = "raised"]
          /\ Reply(r, "500", NoRow)
          /\ UNCHANGED row
    /\ UNCHANGED <<result, decisions>>

\* Mutant: the session is closed without a commit after a debate that did not pass.
EndDecisionPassed(r) ==
    /\ \/ /\ stage[r] = "ending"
          /\ decisions' = IF row[r].passed THEN decisions \cup {[id |-> r, row |-> row[r]]}
                          ELSE decisions
          /\ UNCHANGED reply
       \/ stage[r] = "ending" /\ Reply(r, "500", NoRow) /\ UNCHANGED decisions
       \/ stage[r] = "raised" /\ UNCHANGED <<decisions, reply>>
    /\ stage' = [stage EXCEPT ![r] = "done"]
    /\ UNCHANGED <<result, row>>

\* get_db: commit, or a commit that fails and answers 500; rollback after an exception.
EndDecision(r) ==
    /\ \/ /\ stage[r] = "ending"
          /\ decisions' = decisions \cup {[id |-> r, row |-> row[r]]}
          /\ UNCHANGED reply
       \/ stage[r] = "ending" /\ Reply(r, "500", NoRow) /\ UNCHANGED decisions
       \/ stage[r] = "raised" /\ UNCHANGED <<decisions, reply>>
    /\ stage' = [stage EXCEPT ![r] = "done"]
    /\ UNCHANGED <<result, row>>

DecideIdle == \A r \in Debates : stage[r] = "idle"

DecideQuiet ==
    /\ \A r \in Debates : stage[r] = "done"
    /\ UNCHANGED decideVars

DecideNext ==
    \/ \E r \in Debates : Debate(r) \/ Record(r) \/ EndDecision(r)
    \/ DecideQuiet

DecideSpec == DecideInit /\ [][DecideNext]_decideVars

---------------------------------------------------------------------------
\* Every answered decision is on record as it was answered, debates that failed or
\* did not pass included, and nothing else is; one without a recommendation says why.
DecisionIsRecorded ==
    \A r \in Debates : stage[r] = "done" =>
        /\ {d \in decisions : d.id = r} =
              IF reply[r].status = "200" THEN {[id |-> r, row |-> reply[r].decision]} ELSE {}
        /\ reply[r].status = "200" /\ reply[r].decision.recommendation = Blank =>
              reply[r].decision.error

\* What stands under a label, read the plain way: the lines up to the next label.
Under(text, i) ==
    LET next == Min({k \in i + 1 .. Len(text) : text[k].label # Nothing} \cup {Len(text) + 1}) IN
    (IF text[i].body = Nothing THEN <<>> ELSE <<[text[i] EXCEPT !.label = Nothing]>>)
        \o Filled(text, i + 1, next)

\* In an answer that follows the prompt, each label once with something under it,
\* the decision is the first line under the one and all lines under the other.
\* Other labels, in any order, make no difference, except that one which ends the
\* text is taken to be text, and so is one with a body that is no word ("No: ...").
FormIsRead ==
    \A r \in Debates : stage[r] = "done" /\ reply[r].status = "200" /\ ~result[r].raised =>
        LET text == result[r].output
            lines(label) == {i \in DOMAIN text : text[i].label = label} IN
        \A i \in lines("RECOMMENDATION"), j \in lines("RATIONALE") :
            /\ Cardinality(lines("RECOMMENDATION")) = 1
            /\ Cardinality(lines("RATIONALE")) = 1
            /\ Under(text, i) # <<>> /\ Under(text, j) # <<>>
            /\ text[Len(text)].body # Nothing
            /\ \A k \in DOMAIN text : text[k].body # Nothing => text[k].label \in Words \cup {Nothing}
            =>
            /\ reply[r].decision.recommendation = Under(text, i)[1]
            /\ reply[r].decision.rationale = Under(text, j)
============================================================================
