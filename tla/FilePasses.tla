------------------------------ MODULE FilePasses ------------------------------
(***************************************************************************)
(* The per-file passes over the mirrored files of one account: enrichment reads  *)
(* a file's content from Drive and stores what it extracts, embedding and        *)
(* intelligence store what they derive from the extracted text. Which files a    *)
(* pass takes is a query over timestamps, and the timestamps are all the          *)
(* bookkeeping there is.                                                       *)
(***************************************************************************)
EXTENDS Integers

CONSTANTS
    Files, NoFile,
    Overlap,        \* whether a scan and an enrichment may run beside other passes
    MaxEdits,       \* bound on edits in Drive
    MaxTime,        \* bound on what is stamped
    MaxPasses,      \* bound on passes
    MaxUpgrades     \* bound on changes of the models

VARIABLES
    content,    \* each file in Drive: the version of its content
    mirror,     \* files: what version a scan saw, and scanned_at
    extracted,  \* file_extractions and file_metadata, written together
    embedded,   \* embeddings
    analysed,   \* file_intelligence
    model,      \* the models configured, for embedding and for completion
    pass,       \* the pass under way of each kind
    now,        \* the clock
    passes      \* against the bound

derivedVars == <<extracted, embedded, analysed>>
vars == <<content, mirror, derivedVars, model, pass, now, passes>>

Passes == {"enrichment", "embedding", "intelligence"}

Versions == 0 .. MaxEdits + 1
Models   == 0 .. MaxUpgrades
Times    == 0 .. MaxTime

\* An edit may leave the text of a file as it was.
Text(v) == v \div 2

\* Time 0: there is no row.
Mirror    == [ver : Versions, at : Times]
Extracted == [ver : Versions, at : Times, ok : BOOLEAN]
Derived   == [ver : Versions, at : Times, model : Models]
NoMirror    == [ver |-> 0, at |-> 0]
NoExtracted == [ver |-> 0, at |-> 0, ok |-> FALSE]
NoDerived   == [ver |-> 0, at |-> 0, model |-> 0]

Pass == [pc : {"idle", "list", "file", "stamp", "store"}, left : SUBSET Files,
         file : Files \cup {NoFile}, ver : Versions, ok : BOOLEAN, at : Times]
AtList(left) == [pc |-> "list", left |-> left, file |-> NoFile, ver |-> 0, ok |-> FALSE, at |-> 0]
Idle == [pc |-> "idle", left |-> {}, file |-> NoFile, ver |-> 0, ok |-> FALSE, at |-> 0]

TypeOK ==
    /\ content \in [Files -> Versions] /\ mirror \in [Files -> Mirror]
    /\ extracted \in [Files -> Extracted]
    /\ embedded \in [Files -> Derived] /\ analysed \in [Files -> Derived]
    /\ model \in Models /\ now \in Times
    /\ pass \in [Passes -> Pass] /\ passes \in 0 .. MaxPasses

Init ==
    /\ content = [f \in Files |-> 1] /\ mirror = [f \in Files |-> NoMirror]
    /\ extracted = [f \in Files |-> NoExtracted]
    /\ embedded = [f \in Files |-> NoDerived] /\ analysed = [f \in Files |-> NoDerived]
    /\ model = 0 /\ pass = [p \in Passes |-> Idle] /\ now = 0 /\ passes = 0

-----------------------------------------------------------------------------
(* Which files are pending *)

HasRow(f) == mirror[f].at > 0

\* Never enriched, or scanned again since.
PendingEnrichment(f) == HasRow(f) /\ (extracted[f].at = 0 \/ mirror[f].at > extracted[f].at)

PendingEmbedding_Once(f) == HasRow(f) /\ extracted[f].ok /\ embedded[f].at = 0
\* Extracted with success; and never embedded, extracted again since, or embedded
\* by another model.
PendingEmbedding(f) ==
    /\ HasRow(f) /\ extracted[f].ok
    /\ embedded[f].at = 0 \/ extracted[f].at > embedded[f].at \/ embedded[f].model # model

PendingIntelligence(f) ==
    /\ HasRow(f) /\ extracted[f].ok
    /\ analysed[f].at = 0 \/ extracted[f].at > analysed[f].at \/ analysed[f].model # model

Pending(p) ==
    CASE p = "enrichment"   -> {f \in Files : PendingEnrichment(f)}
      [] p = "embedding"    -> {f \in Files : PendingEmbedding(f)}
      [] p = "intelligence" -> {f \in Files : PendingIntelligence(f)}

-----------------------------------------------------------------------------
(* Drive, the scans and the settings *)

Edits(f) ==
    /\ content[f] <= MaxEdits
    /\ content' = [content EXCEPT ![f] = @ + 1]
    /\ UNCHANGED <<mirror, derivedVars, model, pass, now, passes>>

MayScan == ~ Overlap => pass["enrichment"].pc = "idle"

\* A scan upserts the row, changed or not.
Ingests(f) ==
    /\ MayScan /\ now < MaxTime
    /\ mirror' = [mirror EXCEPT ![f] = [ver |-> content[f], at |-> now + 1]]
    /\ now' = now + 1
    /\ UNCHANGED <<content, derivedVars, model, pass, passes>>

\* A scan deletes the row, and what was derived goes with it.
Removes(f) ==
    /\ MayScan /\ HasRow(f)
    /\ mirror' = [mirror EXCEPT ![f] = NoMirror]
    /\ extracted' = [extracted EXCEPT ![f] = NoExtracted]
    /\ embedded' = [embedded EXCEPT ![f] = NoDerived]
    /\ analysed' = [analysed EXCEPT ![f] = NoDerived]
    /\ UNCHANGED <<content, model, pass, now, passes>>

\* Another model, or another provider, is configured and the worker restarted.
Upgrades ==
    /\ model < MaxUpgrades
    /\ \A p \in Passes : pass[p].pc = "idle"
    /\ model' = model + 1
    /\ UNCHANGED <<content, mirror, derivedVars, pass, now, passes>>

-----------------------------------------------------------------------------
(* The loop of every pass *)

\* Embedding and intelligence follow one enrichment side by side.
MayBegin(p) ==
    \A o \in Passes : pass[o].pc # "idle" => Overlap \/ {o, p} = {"embedding", "intelligence"}

Begins(p) ==
    /\ pass[p].pc = "idle" /\ MayBegin(p)
    /\ passes < MaxPasses /\ passes' = passes + 1
    /\ pass' = [pass EXCEPT ![p] = AtList(Pending(p))]
    /\ UNCHANGED <<content, mirror, derivedVars, model, now>>

Takes(p, f) ==
    /\ pass[p].pc = "list" /\ f \in pass[p].left /\ HasRow(f)
    /\ pass' = [pass EXCEPT ![p].pc = "file", ![p].file = f, ![p].left = @ \ {f}]
    /\ UNCHANGED <<content, mirror, derivedVars, model, now, passes>>

\* The row of a file that was listed is gone: reading its name raises, outside
\* what isolates one file's failure, and the pass is over.
FindsNoRow(p) ==
    /\ \/ pass[p].pc = "list" /\ \E f \in pass[p].left : ~ HasRow(f)
       \/ pass[p].pc \in {"file", "stamp", "store"} /\ ~ HasRow(pass[p].file)
    /\ pass' = [pass EXCEPT ![p] = Idle]
    /\ UNCHANGED <<content, mirror, derivedVars, model, now, passes>>

Goes(p) == pass' = [pass EXCEPT ![p] = AtList(pass[p].left)]

\* One file's failure is rolled back, and the next file taken.
FileFails(p) ==
    /\ pass[p].pc \in {"file", "stamp", "store"} /\ HasRow(pass[p].file)
    /\ Goes(p)
    /\ UNCHANGED <<content, mirror, derivedVars, model, now, passes>>

\* Every file is done; or the pass is cancelled, loses what it depends on, or dies.
EndsOrAborts(p) ==
    /\ pass[p].pc # "idle"
    /\ pass' = [pass EXCEPT ![p] = Idle]
    /\ UNCHANGED <<content, mirror, derivedVars, model, now, passes>>

-----------------------------------------------------------------------------
(* Enrichment *)

\* The content as Drive has it now. What is too large, of no known type, forbidden
\* or unreadable is an outcome like any other, without text.
Extracts ==
    /\ pass["enrichment"].pc = "file" /\ HasRow(pass["enrichment"].file)
    /\ \E ok \in BOOLEAN :
           pass' = [pass EXCEPT !["enrichment"].pc = "stamp", !["enrichment"].ok = ok,
                                !["enrichment"].ver = content[pass["enrichment"].file]]
    /\ UNCHANGED <<content, mirror, derivedVars, model, now, passes>>

\* extracted_at and enriched_at: the time after the download, before the commit.
Stamps ==
    /\ pass["enrichment"].pc = "stamp" /\ now < MaxTime
    /\ pass' = [pass EXCEPT !["enrichment"].pc = "store", !["enrichment"].at = now + 1]
    /\ now' = now + 1
    /\ UNCHANGED <<content, mirror, derivedVars, model, passes>>

ExtractionUpsert(f, ver, at, ok) ==
    extracted' = [extracted EXCEPT ![f] = [ver |-> ver, at |-> at, ok |-> ok]]

EnrichFile ==
    LET e == pass["enrichment"]
    IN  /\ e.pc = "store" /\ HasRow(e.file)
        /\ ExtractionUpsert(e.file, e.ver, e.at, e.ok)
        /\ Goes("enrichment")
        /\ UNCHANGED <<content, mirror, embedded, analysed, model, now, passes>>

-----------------------------------------------------------------------------
(* Embedding and intelligence *)

ReadsText(p) ==
    LET f == pass[p].file
    IN  /\ p # "enrichment" /\ pass[p].pc = "file" /\ HasRow(f)
        /\ pass' = [pass EXCEPT ![p].pc = "store", ![p].ok = extracted[f].ok,
                                ![p].ver = extracted[f].ver]
        /\ UNCHANGED <<content, mirror, derivedVars, model, now, passes>>

\* The text by its hash, and the model by its name and version.
AlreadyEmbedded(f, ver) ==
    embedded[f].at > 0 /\ Text(embedded[f].ver) = Text(ver) /\ embedded[f].model = model

EmbeddingUpsert(f, ver) ==
    embedded' = [embedded EXCEPT ![f] = [ver |-> ver, at |-> now + 1, model |-> model]]

EmbedFile ==
    LET e == pass["embedding"]
    IN  /\ e.pc = "store" /\ HasRow(e.file) /\ now < MaxTime
        /\ IF e.ok /\ ~ AlreadyEmbedded(e.file, e.ver)
           THEN EmbeddingUpsert(e.file, e.ver) /\ now' = now + 1
           ELSE UNCHANGED <<embedded, now>>
        /\ Goes("embedding")
        /\ UNCHANGED <<content, mirror, extracted, analysed, model, passes>>

IntelligenceUpsert(f, ver) ==
    analysed' = [analysed EXCEPT ![f] = [ver |-> ver, at |-> now + 1, model |-> model]]

\* An answer that cannot be parsed, or a text that is gone, is stored as well.
AnalyzeFile ==
    LET e == pass["intelligence"]
    IN  /\ e.pc = "store" /\ HasRow(e.file) /\ now < MaxTime
        /\ IntelligenceUpsert(e.file, e.ver) /\ now' = now + 1
        /\ Goes("intelligence")
        /\ UNCHANGED <<content, mirror, extracted, embedded, model, passes>>

-----------------------------------------------------------------------------

Next ==
    \/ \E f \in Files : Edits(f) \/ Ingests(f) \/ Removes(f)
    \/ Upgrades
    \/ \E p \in Passes : \/ Begins(p) \/ FindsNoRow(p) \/ FileFails(p) \/ EndsOrAborts(p)
                         \/ ReadsText(p)
                         \/ \E f \in Files : Takes(p, f)
    \/ Extracts \/ Stamps \/ EnrichFile \/ EmbedFile \/ AnalyzeFile

Spec == Init /\ [][Next]_vars

-----------------------------------------------------------------------------
(* Properties *)

\* A file that a scan saw changed is pending until its content of that time or of a
\* later one has been extracted, wherever passes were cut short.
EnrichedOrPending ==
    \A f \in Files : HasRow(f) => PendingEnrichment(f) \/ extracted[f].ver >= mirror[f].ver

\* A file whose text was extracted is pending until that very text is embedded by
\* the model in use.
EmbeddedOrPending ==
    \A f \in Files : HasRow(f) /\ extracted[f].ok =>
        \/ PendingEmbedding(f)
        \/ Text(embedded[f].ver) = Text(extracted[f].ver) /\ embedded[f].model = model

\* And likewise until it is analysed by the provider and model in use.
AnalysedOrPending ==
    \A f \in Files : HasRow(f) /\ extracted[f].ok =>
        \/ PendingIntelligence(f)
        \/ analysed[f].ver = extracted[f].ver /\ analysed[f].model = model

\* What is not derived from the newest input is pending.
DerivedOrPending == TypeOK /\ EnrichedOrPending /\ EmbeddedOrPending /\ AnalysedOrPending
=============================================================================
