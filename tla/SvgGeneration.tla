--------------------------- MODULE SvgGeneration ---------------------------
(***************************************************************************)
(* POST /svg/generate: the Redis cache of SVG documents, the LLM and the    *)
(* fallback for what it writes badly, the ontology, and the row of          *)
(* svg_generations committed before the answer.  Requests interleave at     *)
(* every await; Redis failures count as misses; the store comes before the  *)
(* database knows anything, and the process may die in between.            *)
(*                                                                         *)
(* A document is known by the request it was made for and by what the two   *)
(* validators say of it: both are functions of the document and its type.   *)
(***************************************************************************)
EXTENDS Naturals, Sequences, FiniteSets, SequencesExt

CONSTANTS
    Requests,       \* requests to POST /svg/generate
    Keys,           \* cache keys: description, svg_type and style, hashed
    KeyOf,          \* the key of each request
    Description,    \* Description[k]: the characters of k's description by kind
    DescLimit,      \* length to which the escaped description is cut, 200
    BadType,        \* keys whose svg_type is none of SVG_TYPES
    Caching,        \* the requests made with cache=true
    UseRedis,       \* settings.redis_url is not empty
    Faults,         \* what may fail: "redis", "llm", "ontology", "db"
    MaxCrashes      \* how often the process may die

\* illegal: a character that XML does not allow, such as a control character
Kinds == {"plain", "amp", "angle", "illegal", "backslash"}

ASSUME SvgAssumption ==
    /\ KeyOf \in [Requests -> Keys]
    /\ Description \in [Keys -> Seq(Kinds)]
    /\ DescLimit \in Nat
    /\ BadType \subseteq Keys
    /\ Caching \subseteq Requests
    /\ UseRedis \in BOOLEAN
    /\ MaxCrashes \in Nat

VARIABLES
    cache,      \* cache[k]: what Redis holds under a key
    history,    \* committed rows of svg_generations
    pc,         \* where each request is
    doc,        \* the document each request is about to answer with
    cached,     \* it came from the cache
    answer,     \* the status code, or "lost" in a crash
    crashes     \* how often the process has died

svgVars == <<cache, history, pc, doc, cached, answer, crashes>>

Document == [by : Requests, sound : BOOLEAN, passes : BOOLEAN]
NoDocument == [by |-> "nobody"]

---------------------------------------------------------------------------
(* _minimal_svg_from_template *)

\* Escaping: & becomes &amp;, angle brackets are dropped.
Width(kind) == CASE kind = "amp" -> 5 [] kind = "angle" -> 0 [] OTHER -> 1
Length(desc) == FoldLeft(LAMBDA n, kind : n + Width(kind), 0, desc)

\* The characters that survive the cut to the limit, which comes after the escape.
Kept(desc) == {i \in DOMAIN desc : Length(SubSeq(desc, 1, i)) <= DescLimit}

\* The cut does not go through an entity.
CutIsClean(desc) ==
    \/ Length(desc) <= DescLimit
    \/ \E n \in 0 .. Len(desc) : Length(SubSeq(desc, 1, n)) = DescLimit

\* What the template becomes.  The text is also the replacement of a re.sub, which reads
\* a backslash as an escape: depending on what follows it raises, puts in a character
\* that may be illegal, or one that is not.
Fallback(desc) ==
    (IF CutIsClean(desc) /\ \A i \in Kept(desc) : desc[i] # "illegal" THEN {"sound"} ELSE {"broken"})
    \cup (IF \E i \in Kept(desc) : desc[i] = "backslash" THEN {"broken", "raises"} ELSE {})

---------------------------------------------------------------------------
SvgInit ==
    /\ cache = [k \in Keys |-> NoDocument]
    /\ history = {}
    /\ pc = [r \in Requests |-> "idle"]
    /\ doc = [r \in Requests |-> NoDocument]
    /\ cached = [r \in Requests |-> FALSE]
    /\ answer = [r \in Requests |-> "none"]
    /\ crashes = 0

Goto(r, label) ==
    /\ pc' = [pc EXCEPT ![r] = label]
    /\ UNCHANGED answer

Answer(r, code) ==
    /\ pc' = [pc EXCEPT ![r] = "done"]
    /\ answer' = [answer EXCEPT ![r] = code]

CheckType(r) ==
    /\ pc[r] = "idle"
    /\ IF KeyOf[r] \in BadType
         THEN Answer(r, "400")
         ELSE Goto(r, IF r \in Caching THEN "lookup" ELSE "llm")
    /\ UNCHANGED <<cache, history, doc, cached, crashes>>

\* Redis GET: a hit is validated again, a failure is a miss.
Lookup(r) ==
    /\ pc[r] = "lookup"
    /\ LET held == cache[KeyOf[r]] IN
        \/ /\ held # NoDocument
           /\ doc' = [doc EXCEPT ![r] = held]
           /\ cached' = [cached EXCEPT ![r] = TRUE]
           /\ Goto(r, "validate")
        \/ /\ held = NoDocument \/ "redis" \in Faults
           /\ Goto(r, "llm")
           /\ UNCHANGED <<doc, cached>>
    /\ UNCHANGED <<cache, history, crashes>>

Draft(r, sound, passes) == [by |-> r, sound |-> sound, passes |-> passes]

\* Mutant: the document is stored before the ontology has seen it.
CallLLMStoring(r) ==
    /\ pc[r] = "llm"
    /\ \E sound, passes \in BOOLEAN : doc' = [doc EXCEPT ![r] = Draft(r, sound, passes)]
    /\ cache' = IF UseRedis /\ r \in Caching THEN [cache EXCEPT ![KeyOf[r]] = doc'[r]] ELSE cache
    /\ Goto(r, "validate")
    /\ UNCHANGED <<history, cached, crashes>>

\* The LLM answers with a sound SVG, or with something that is replaced by the template
\* filled in with the description, or raises; the ontology may think either way of it.
CallLLM(r) ==
    /\ pc[r] = "llm"
    /\ \/ /\ \E sound, passes \in BOOLEAN :
                /\ sound \/ "broken" \in Fallback(Description[KeyOf[r]])
                /\ doc' = [doc EXCEPT ![r] = Draft(r, sound, passes)]
          /\ Goto(r, "validate")
       \/ /\ "llm" \in Faults \/ "raises" \in Fallback(Description[KeyOf[r]])
          /\ Answer(r, "500")
          /\ UNCHANGED doc
    /\ UNCHANGED <<cache, history, cached, crashes>>

\* The ontology's verdict; only what is new and passes is stored.
Validate(r) ==
    /\ pc[r] = "validate"
    /\ \/ "ontology" \in Faults /\ Answer(r, "500")
       \/ Goto(r, IF ~cached[r] /\ r \in Caching /\ doc[r].passes THEN "store" ELSE "record")
    /\ UNCHANGED <<cache, history, doc, cached, crashes>>

\* Redis SET: the last to store is what later requests find; errors are swallowed.
Store(r) ==
    /\ pc[r] = "store"
    /\ \/ cache' = IF UseRedis THEN [cache EXCEPT ![KeyOf[r]] = doc[r]] ELSE cache
       \/ "redis" \in Faults /\ UNCHANGED cache
    /\ Goto(r, "record")
    /\ UNCHANGED <<history, doc, cached, crashes>>

\* Mutant: the row is committed by a task in the background.
RecordLater(r) ==
    /\ pc[r] = "record"
    /\ \/ history' = history \cup {[req |-> r, doc |-> doc[r], cached |-> cached[r]]}
       \/ "db" \in Faults /\ UNCHANGED history
    /\ Answer(r, "200")
    /\ UNCHANGED <<cache, doc, cached, crashes>>

\* The row is inserted, and committed by get_db before the answer is sent.
RecordGeneration(r) ==
    /\ pc[r] = "record"
    /\ \/ /\ history' = history \cup {[req |-> r, doc |-> doc[r], cached |-> cached[r]]}
          /\ Answer(r, "200")
       \/ /\ "db" \in Faults
          /\ Answer(r, "500")
          /\ UNCHANGED history
    /\ UNCHANGED <<cache, doc, cached, crashes>>

\* The TTL of seven days runs out.
Expire(k) ==
    /\ cache[k] # NoDocument
    /\ cache' = [cache EXCEPT ![k] = NoDocument]
    /\ UNCHANGED <<history, pc, doc, cached, answer, crashes>>

\* The process dies: what is under way is answered nothing, and a row that was about
\* to be committed is, or is not.  Redis keeps what it has; what a request had made
\* is remembered as history.
Crash ==
    /\ crashes < MaxCrashes
    /\ LET dying == {r \in Requests : pc[r] \notin {"idle", "done"}} IN
        /\ \E R \in SUBSET {r \in dying : pc[r] = "record"} :
              history' = history \cup {[req |-> r, doc |-> doc[r], cached |-> cached[r]] : r \in R}
        /\ pc' = [r \in Requests |-> IF r \in dying THEN "done" ELSE pc[r]]
        /\ answer' = [r \in Requests |-> IF r \in dying THEN "lost" ELSE answer[r]]
    /\ crashes' = crashes + 1
    /\ UNCHANGED <<cache, doc, cached>>

SvgQuiet ==
    /\ \A r \in Requests : pc[r] = "done"
    /\ UNCHANGED svgVars

SvgNext ==
    \/ \E r \in Requests : \/ CheckType(r) \/ Lookup(r) \/ CallLLM(r)
                           \/ Validate(r) \/ Store(r) \/ RecordGeneration(r)
    \/ \E k \in Keys : Expire(k)
    \/ Crash
    \/ SvgQuiet

SvgIdle == cache = [k \in Keys |-> NoDocument] /\ \A r \in Requests : pc[r] = "idle"

SvgSpec == SvgInit /\ [][SvgNext]_svgVars

---------------------------------------------------------------------------
SvgTypeOK ==
    /\ cache \in [Keys -> Document \cup {NoDocument}]
    /\ history \subseteq [req : Requests, doc : Document, cached : BOOLEAN]
    /\ pc \in [Requests -> {"idle", "lookup", "llm", "validate", "store", "record", "done"}]
    /\ doc \in [Requests -> Document \cup {NoDocument}]
    /\ cached \in [Requests -> BOOLEAN]
    /\ answer \in [Requests -> {"none", "200", "400", "500", "lost"}]
    /\ crashes \in 0 .. MaxCrashes

Answered(r) == answer[r] = "200"

\* The history has a row for every answer, and no other but for answers that a crash
\* has lost; it has the very document that was answered.
AnsweredIsRecorded ==
    \A r \in Requests :
        LET rows == {h \in history : h.req = r}
            row == [req |-> r, doc |-> doc[r], cached |-> cached[r]] IN
        /\ rows \subseteq IF Answered(r) \/ answer[r] = "lost" THEN {row} ELSE {}
        /\ Answered(r) => row \in rows

\* A document from the cache passes the ontology and was made by another request that
\* asked for caching under the same key, whichever requests store there at the same
\* time.  Redis is told first and outlives the process, but the document is in the
\* history as newly generated, or about to be, unless the database refused it or the
\* process died in between.
HitHasOrigin ==
    \A r \in Requests : Answered(r) /\ cached[r] =>
        LET origin == doc[r].by IN
        /\ doc[r].passes /\ KeyOf[origin] = KeyOf[r]
        /\ {r, origin} \subseteq Caching /\ origin # r
        /\ ~cached[origin] /\ doc[origin] = doc[r]
        /\ \/ [req |-> origin, doc |-> doc[r], cached |-> FALSE] \in history
           \/ pc[origin] = "record"
           \/ "db" \in Faults /\ answer[origin] = "500"
           \/ crashes > 0 /\ answer[origin] = "lost"

\* The docstring of _minimal_svg_from_template: what is answered is a sound SVG, if not
\* the model's then the safe one made of the template.
AnsweredIsSound == \A r \in Requests : Answered(r) => doc[r].sound

---------------------------------------------------------------------------
(* The inductive invariant *)

\* d was generated for key k by a caching request that has stored it by now, and
\* that reaches the history unless the database fails or the process dies.
Stored(d, k) ==
    /\ d \in Document /\ d.passes /\ KeyOf[d.by] = k /\ d.by \in Caching
    /\ ~cached[d.by] /\ doc[d.by] = d
    /\ \/ pc[d.by] = "record"
       \/ pc[d.by] = "done" /\ Answered(d.by)
       \/ pc[d.by] = "done" /\ "db" \in Faults /\ answer[d.by] = "500"
       \/ pc[d.by] = "done" /\ crashes > 0 /\ answer[d.by] = "lost"

\* A request has a document from the validation on, its own or a stored one.
HasDocument(r) ==
    /\ doc[r] \in Document /\ KeyOf[doc[r].by] = KeyOf[r]
    /\ IF cached[r] THEN r \in Caching /\ doc[r].by # r /\ Stored(doc[r], KeyOf[r])
                    ELSE doc[r].by = r

StoreOK == \A k \in Keys : cache[k] # NoDocument => Stored(cache[k], k)

RequestOK(r) ==
    /\ pc[r] = "lookup" => r \in Caching
    /\ pc[r] \in {"idle", "lookup", "llm"} => ~cached[r]
    /\ pc[r] \in {"validate", "store", "record"} \/ Answered(r) => HasDocument(r)
    /\ pc[r] = "store" => ~cached[r] /\ r \in Caching /\ doc[r].passes
    /\ pc[r] = "done" <=> answer[r] # "none"

\* Why the properties hold: what Redis holds was stored by the request that made
\* it, after the ontology passed it; a request answers with its document or with
\* a stored one; the row and the answer come together unless a crash parts them.
SvgInv ==
    /\ SvgTypeOK
    /\ StoreOK
    /\ \A r \in Requests : RequestOK(r)
    /\ AnsweredIsRecorded
============================================================================
