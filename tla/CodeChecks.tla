---------------------------- MODULE CodeChecks ----------------------------
(***************************************************************************)
(* What the service takes for code in a model's output, and when that code  *)
(* passes: services/polyglot_executor.py and services/code_analyzer.py, all *)
(* of them pure functions but for the call of the sandbox.                  *)
(*                                                                         *)
(* A text is a sequence of chunks with a ``` marker between each two, and   *)
(* tags[i] is what follows marker i on its line: "" if nothing does.  What  *)
(* the chunks are is left open; sets of them say which ones Python parses,  *)
(* the sandbox compiles, or define a function.                              *)
(***************************************************************************)
EXTENDS Naturals, Sequences

CONSTANTS
    Sources,        \* what a chunk may be
    Blank,          \* the chunk of white space only
    Parsing,        \* chunks that ast.parse accepts
    Defining,       \* chunks in which a pattern finds "def name("
    TopLevel,       \* those that ast.parse finds a function in, at top level
    Naming,         \* pairs of a chunk and a language whose patterns find a name in it
    Compiling,      \* pairs of a chunk and the language that it compiles in
    Conforming,     \* payloads that the ontology validator passes
    SandboxUrl      \* settings.code_sandbox_url is not empty

ASSUME ChecksAssumption ==
    /\ Blank \in Sources
    /\ Parsing \subseteq Sources
    /\ Defining \subseteq Sources
    /\ TopLevel \subseteq Parsing \cap Defining
    /\ Naming \subseteq Sources \X {"python", "typescript", "rust"}
    /\ SandboxUrl \in BOOLEAN

SUPPORTED_LANGUAGES == {"python", "typescript", "rust"}

\* POLYGLOT_LANGUAGE_ALIASES, after lower() and strip().
Aliases ==
    [py |-> "python", python3 |-> "python", ts |-> "typescript", tsx |-> "typescript",
     javascript |-> "typescript", js |-> "typescript", rs |-> "rust"]

NormalizeLanguage(language) ==
    IF language \in DOMAIN Aliases THEN Aliases[language] ELSE language

---------------------------------------------------------------------------
(* extract_fenced_code *)

Plain(chunk) == [chunks |-> <<chunk>>, tags |-> <<>>]

\* The tags that are looked for, one after the other; the last is the bare fence.
FenceTags(lang) ==
    CASE lang = "typescript" -> <<"typescript", "ts", "">>
      [] lang = "rust"       -> <<"rust", "rs", "">>
      [] OTHER               -> <<"python", "py", "">>

First(S) == CHOOSE i \in S : \A j \in S : i <= j

\* The pattern wants a marker with that tag and any other marker after it: it
\* does not know which markers open a block and which close one.
Matches(text, tag) == {i \in 1..(Len(text.tags) - 1) : text.tags[i] = tag}

\* Mutant: the bare fence is looked for first.
ExtractBareFirst(text, lang) ==
    LET tags == <<"">> \o FenceTags(lang)
        hits == {k \in DOMAIN tags : Matches(text, tags[k]) # {}} IN
    IF hits = {} THEN text
    ELSE Plain(text.chunks[First(Matches(text, tags[First(hits)])) + 1])

\* What stands between the first match and the next marker; else all of it.
Extract(text, lang) ==
    LET tags == FenceTags(lang)
        hits == {k \in DOMAIN tags : Matches(text, tags[k]) # {}} IN
    IF hits = {} THEN text
    ELSE Plain(text.chunks[First(Matches(text, tags[First(hits)])) + 1])

---------------------------------------------------------------------------
(* Validation *)

\* A text with markers in it is no program of any of the languages.
Parses(text) == text.tags = <<>> /\ text.chunks[1] \in Parsing
Compiles(text, lang) == text.tags = <<>> /\ <<text.chunks[1], lang>> \in Compiling

\* The first name that the pattern for "def name(" finds, if any.
DefinedName(text) ==
    LET named == {i \in DOMAIN text.chunks : text.chunks[i] \in Defining} IN
    IF named = {} THEN Blank ELSE text.chunks[First(named)]

\* CodeAnalyzer: Python that parses and has a function is described by its tree;
\* whatever else, broken Python included, by constants and a name found in it.
\* The language is compared as it comes, aliases are not resolved.
SoftwarePayload(text, language) ==
    IF language = "python" /\ Parses(text) /\ text.chunks[1] \in TopLevel
      THEN [form |-> "function", name |-> text.chunks[1], language |-> "python"]
      ELSE [form |-> "fallback", name |-> DefinedName(text), language |-> language]

\* The first name that the patterns of the language find; Blank stands for "snippet".
InferredName(text, lang) ==
    LET named == {i \in DOMAIN text.chunks : <<text.chunks[i], lang>> \in Naming} IN
    IF named = {} THEN Blank ELSE text.chunks[First(named)]

\* validate_polyglot_ontology: the code itself and the name inferred from it.
PolyglotPayload(text, language) ==
    LET lang == IF language \in SUPPORTED_LANGUAGES THEN language ELSE "python" IN
    [form |-> "polyglot", code |-> text, name |-> InferredName(text, lang), language |-> lang]

\* Mutant: a sandbox that cannot be reached objects to nothing.
ValidSyntaxUnlessRefused(text, lang, reached) ==
    IF lang = "python" THEN Parses(text)
                       ELSE SandboxUrl /\ (reached => Compiles(text, lang))

\* validate_syntax: Python here, the others in the sandbox; one that is not
\* configured, not reached or that answers with an error accepts nothing.
ValidSyntax(text, lang, reached) ==
    IF lang = "python" THEN Parses(text)
                       ELSE SandboxUrl /\ reached /\ Compiles(text, lang)

\* on_pass of run_task: for Python the analyzer's word alone.
RunPasses(text, lang, reached) ==
    IF lang = "python"
      THEN SoftwarePayload(text, "python") \in Conforming
      ELSE /\ PolyglotPayload(text, lang) \in Conforming
           /\ ValidSyntax(text, lang, reached)

\* The answer of POST /pipeline/validate with ontology=true; "400" is a refusal.
ValidateAnswer(text, language, reached) ==
    LET lang == NormalizeLanguage(language) IN
    IF lang \notin SUPPORTED_LANGUAGES THEN "400"
    ELSE IF ValidSyntax(text, lang, reached) /\ PolyglotPayload(text, lang) \in Conforming
           THEN "valid" ELSE "invalid"
============================================================================
