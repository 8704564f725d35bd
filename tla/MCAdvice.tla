----------------------------- MODULE MCAdvice -----------------------------
(* Instances of KnowledgeBase, ArchitectureDecision and SvgGeneration for   *)
(* TLC: the services beside the pipeline.  They share nothing, so that in a *)
(* behaviour there is one of them.                                         *)
EXTENDS KnowledgeBase, ArchitectureDecision, SvgGeneration, TLC

CONSTANTS edge, below, zero, far1, far2, far3, far4, i1, i2, i3, i4, i5, s1, g1, d1, nan,
          r1, r2, r3, r4, k1, k2, k3

\* Of seven usable executions one is similar, just so, and one has no direction; with
\* the two that are added there are more than the eight in the window of a search.
SomeOld == {edge, below, zero, far1, far2, far3, far4}
SomeIndexings == {i1, i2, i3, i4, i5}
SomeSearches == {s1}
SomeSuggests == {g1}
SomeDist == edge :> 20 @@ below :> 21 @@ zero :> nan
            @@ far1 :> 60 @@ far2 :> 100 @@ far3 :> 150 @@ far4 :> 200
            @@ i1 :> 10 @@ i2 :> 20 @@ i3 :> 0 @@ i4 :> 0 @@ i5 :> 4
SomeSuccess == SomeOld \cup {i1, i2, i3}
SomePassed == SomeOld \cup {i1, i2, i4}
SomeSignature == i4 :> "crash" @@ i5 :> "crash"
OneDebate == {d1}

\* Texts of up to five lines.
SomeLines == {[label |-> "RECOMMENDATION", body |-> ""], [label |-> "RATIONALE", body |-> ""],
              [label |-> "RATIONALE", body |-> "b"], [label |-> "NOTES", body |-> ""],
              [label |-> "NOTES", body |-> "c"], [label |-> "No", body |-> "d"],
              [label |-> "", body |-> "a"], Blank}
SomeWords == {"RECOMMENDATION", "RATIONALE", "NOTES"}
SomeAnswers == {t \in UNION {[1 .. n -> SomeLines] : n \in 0 .. 5} :
                   t # <<>> => t[1] # Blank /\ t[Len(t)] # Blank}

\* Two requests for one document, one for another, and one of a type that does not exist.
FourRequests == {r1, r2, r3, r4}
ThreeKeys    == {k1, k2, k3}
MixedKeys    == [r \in Requests |-> CASE r = r3 -> k2 [] r = r4 -> k3 [] OTHER -> k1]
WrongType    == {k3}
TwoCaching   == {r1, r2}

\* Under a limit of 4: k1 is cut in the middle of an entity, k2 not at all.
Descriptions == (k1 :> <<"plain", "amp", "angle">>) @@ (k2 :> <<"angle", "backslash">>)
                @@ (k3 :> <<"plain">>)

vars == <<knowledgeVars, decideVars, svgVars>>

Init == KnowledgeInit /\ DecideInit /\ SvgInit

Next == \/ DecideIdle /\ SvgIdle /\ KnowledgeNext /\ UNCHANGED <<decideVars, svgVars>>
        \/ KnowledgeIdle /\ SvgIdle /\ DecideNext /\ UNCHANGED <<knowledgeVars, svgVars>>
        \/ KnowledgeIdle /\ DecideIdle /\ SvgNext /\ UNCHANGED <<knowledgeVars, decideVars>>

Spec == Init /\ [][Next]_vars
============================================================================
