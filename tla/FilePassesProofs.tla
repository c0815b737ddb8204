--------------------------- MODULE FilePassesProofs ---------------------------
(***************************************************************************)
(* Proof about the per-file passes: what is not derived from the newest input   *)
(* is pending, for any files, edits, passes and changes of the models, as long   *)
(* as a scan and an enrichment do not run beside other passes.                  *)
(***************************************************************************)
EXTENDS FilePasses, TLAPS

\* What the bounds are, and that no pass runs beside an enrichment.
InTurn ==
    /\ MaxEdits \in Nat /\ MaxTime \in Nat /\ MaxPasses \in Nat /\ MaxUpgrades \in Nat
    /\ Overlap = FALSE

\* A pass at a file has one, and only an enrichment stamps.
AtFile ==
    \A p \in Passes : /\ pass[p].pc \in {"file", "stamp", "store"} => pass[p].file \in Files
                      /\ pass[p].pc = "stamp" => p = "enrichment"

Exclusive ==
    pass["enrichment"].pc # "idle" =>
        pass["embedding"].pc = "idle" /\ pass["intelligence"].pc = "idle"

\* Nothing is stamped with a time to come, or stored for models to come; what has a text
\* has a row.
ClockInv ==
    \A f \in Files :
        /\ mirror[f].at <= now /\ extracted[f].at <= now
        /\ embedded[f].at <= now /\ analysed[f].at <= now
        /\ embedded[f].model <= model /\ analysed[f].model <= model
        /\ extracted[f].ok => extracted[f].at > 0 /\ HasRow(f)

\* An enrichment has content at least as new as the last scan saw, and a stamp that is
\* newer than anything derived so far.
EnrichInv ==
    /\ \A f \in Files : mirror[f].ver <= content[f]
    /\ pass["enrichment"].pc \in {"stamp", "store"} =>
           mirror[pass["enrichment"].file].ver <= pass["enrichment"].ver
    /\ pass["enrichment"].pc = "store" =>
           /\ 0 < pass["enrichment"].at /\ pass["enrichment"].at <= now
           /\ \A f \in Files : /\ embedded[f].at < pass["enrichment"].at
                               /\ analysed[f].at < pass["enrichment"].at

\* The text that a pass has read is the file's: nobody extracts another meanwhile, and a
\* row that has come back since has none.
TextInv ==
    \A p \in {"embedding", "intelligence"} :
        pass[p].pc = "store" /\ extracted[pass[p].file].ok =>
            pass[p].ver = extracted[pass[p].file].ver

PassInv ==
    /\ TypeOK /\ AtFile /\ Exclusive /\ ClockInv /\ EnrichInv /\ TextInv
    /\ EnrichedOrPending /\ EmbeddedOrPending /\ AnalysedOrPending

-----------------------------------------------------------------------------
(* Types *)

LEMMA Facts ==
    ASSUME InTurn, TypeOK
    PROVE  /\ Versions \subseteq Int /\ Models \subseteq Int /\ Times \subseteq Int
           /\ 0 \in Versions /\ 0 \in Models /\ 0 \in Times /\ now \in Times /\ model \in Models
           /\ now < MaxTime => now + 1 \in Times
           /\ \A f \in Files :
                 /\ content[f] \in Versions
                 /\ mirror[f].ver \in Versions /\ mirror[f].at \in Times
                 /\ extracted[f].ver \in Versions /\ extracted[f].at \in Times
                 /\ extracted[f].ok \in BOOLEAN
                 /\ embedded[f].ver \in Versions /\ embedded[f].at \in Times
                 /\ embedded[f].model \in Models
                 /\ analysed[f].ver \in Versions /\ analysed[f].at \in Times
                 /\ analysed[f].model \in Models
           /\ \A p \in Passes :
                 /\ pass[p] \in Pass /\ pass[p].left \subseteq Files /\ pass[p].ver \in Versions
                 /\ pass[p].ok \in BOOLEAN /\ pass[p].at \in Times
<1>1. /\ Versions \subseteq Int /\ Models \subseteq Int /\ Times \subseteq Int
      /\ 0 \in Versions /\ 0 \in Models /\ 0 \in Times
      /\ \A n \in Times : n < MaxTime => n + 1 \in Times
  BY DEF InTurn, Versions, Models, Times
<1>2. /\ now \in Times /\ model \in Models
      /\ \A f \in Files : content[f] \in Versions /\ mirror[f] \in Mirror
                          /\ extracted[f] \in Extracted /\ embedded[f] \in Derived
                          /\ analysed[f] \in Derived
      /\ \A p \in Passes : pass[p] \in Pass
  BY DEF TypeOK
<1> QED
  BY <1>1, <1>2 DEF Mirror, Extracted, Derived, Pass

\* What a pass makes of its own record; the others are not disturbed.
LEMMA PassType ==
    ASSUME TypeOK, NEW p \in Passes, NEW r \in Pass, pass' = [pass EXCEPT ![p] = r]
    PROVE  /\ pass' \in [Passes -> Pass] /\ pass'[p] = r
           /\ \A o \in Passes : o # p => pass'[o] = pass[o]
BY DEF TypeOK

LEMMA RestTypes ==
    ASSUME InTurn, TypeOK
    PROVE  /\ Idle \in Pass /\ Idle.pc = "idle"
           /\ \A left \in SUBSET Files : AtList(left) \in Pass /\ AtList(left).pc = "list"
           /\ NoMirror \in Mirror /\ NoMirror.ver = 0 /\ NoMirror.at = 0
           /\ NoExtracted \in Extracted /\ NoExtracted.at = 0 /\ NoExtracted.ok = FALSE
           /\ NoDerived \in Derived /\ NoDerived.at = 0 /\ NoDerived.model = 0
BY Facts DEF Idle, AtList, NoMirror, NoExtracted, NoDerived, Pass, Mirror, Extracted, Derived

-----------------------------------------------------------------------------
(* Steps of a pass that store nothing *)

\* A pass comes to its list, or to its end.
LEMMA Quiet ==
    ASSUME InTurn, PassInv, NEW p \in Passes, NEW r \in Pass, pass' = [pass EXCEPT ![p] = r],
           r.pc \in {"idle", "list"}, r.pc = "list" => pass[p].pc # "idle" \/ MayBegin(p),
           UNCHANGED <<content, mirror, derivedVars, model, now>>, passes' \in 0 .. MaxPasses
    PROVE  PassInv'
<1> USE DEF PassInv, derivedVars
<1>1. /\ pass' \in [Passes -> Pass] /\ pass'[p] = r
      /\ \A o \in Passes : o # p => pass'[o] = pass[o]
  BY PassType
<1>2. TypeOK'
  BY <1>1 DEF TypeOK
<1>3. AtFile'
  BY <1>1 DEF AtFile
<1>4. Exclusive'
  BY <1>1 DEF Exclusive, Passes, MayBegin, InTurn
<1>5. ClockInv' /\ EnrichInv'
  BY <1>1 DEF ClockInv, EnrichInv, Passes, HasRow
<1>6. TextInv'
  BY <1>1 DEF TextInv, Passes
<1>7. EnrichedOrPending' /\ EmbeddedOrPending' /\ AnalysedOrPending'
  BY DEF EnrichedOrPending, EmbeddedOrPending, AnalysedOrPending, PendingEnrichment,
         PendingEmbedding, PendingIntelligence, HasRow
<1> QED
  BY <1>2, <1>3, <1>4, <1>5, <1>6, <1>7

LEMMA QuietSteps ==
    ASSUME InTurn, PassInv, NEW p \in Passes,
           Begins(p) \/ FindsNoRow(p) \/ FileFails(p) \/ EndsOrAborts(p)
    PROVE  PassInv'
<1>0. TypeOK /\ passes \in 0 .. MaxPasses
  BY DEF PassInv, TypeOK
<1>1. CASE Begins(p)
  <2>1. Pending(p) \subseteq Files
    BY DEF Pending, Passes
  <2>2. passes' \in 0 .. MaxPasses
    BY <1>0, <1>1 DEF Begins, InTurn
  <2> QED BY <1>0, <1>1, <2>1, <2>2, Quiet, RestTypes DEF Begins
<1>2. CASE FindsNoRow(p) \/ EndsOrAborts(p)
  BY <1>0, <1>2, Quiet, RestTypes DEF FindsNoRow, EndsOrAborts
<1>3. CASE FileFails(p)
  <2>1. pass[p].left \subseteq Files /\ pass[p].pc # "idle"
    BY <1>0, <1>3, Facts DEF FileFails
  <2> QED BY <1>0, <1>3, <2>1, Quiet, RestTypes DEF FileFails, Goes
<1> QED
  BY <1>1, <1>2, <1>3

\* A pass goes on to, or with, a file.
LEMMA AtFileStep ==
    ASSUME InTurn, PassInv, NEW p \in Passes, NEW r \in Pass, pass' = [pass EXCEPT ![p] = r],
           pass[p].pc # "idle", r.file \in Files, r.pc = "stamp" => p = "enrichment",
           UNCHANGED <<content, mirror, derivedVars, model, passes>>,
           now' \in Times, now <= now',
           EnrichInv', TextInv'
    PROVE  PassInv'
<1> USE DEF PassInv, derivedVars
<1>1. /\ pass' \in [Passes -> Pass] /\ pass'[p] = r
      /\ \A o \in Passes : o # p => pass'[o] = pass[o]
  BY PassType
<1>2. TypeOK'
  BY <1>1 DEF TypeOK
<1>3. AtFile'
  BY <1>1 DEF AtFile
<1>4. Exclusive'
  BY <1>1 DEF Exclusive, Passes
<1>5. ClockInv'
  <2>1. \A n \in Times : n <= now => n <= now'
    BY Facts
  <2> QED BY <2>1, Facts DEF ClockInv, HasRow
<1>7. EnrichedOrPending' /\ EmbeddedOrPending' /\ AnalysedOrPending'
  BY DEF EnrichedOrPending, EmbeddedOrPending, AnalysedOrPending, PendingEnrichment,
         PendingEmbedding, PendingIntelligence, HasRow
<1> QED
  BY <1>2, <1>3, <1>4, <1>5, <1>7

LEMMA FileSteps ==
    ASSUME InTurn, PassInv, NEW p \in Passes,
           (\E f \in Files : Takes(p, f)) \/ ReadsText(p)
    PROVE  PassInv'
<1>0. /\ TypeOK /\ pass[p] \in Pass /\ now \in Times /\ now <= now
      /\ pass[p].pc \in {"file", "stamp", "store"} => pass[p].file \in Files
  BY Facts DEF PassInv, AtFile
<1>1. ASSUME NEW f \in Files, Takes(p, f)
      PROVE  PassInv'
  <2> DEFINE r == [pass[p] EXCEPT !.pc = "file", !.file = f, !.left = pass[p].left \ {f}]
  <2>1. r \in Pass /\ r.pc = "file" /\ r.file = f
    BY <1>0 DEF Pass
  <2>2. pass' = [pass EXCEPT ![p] = r]
    BY <1>0, <1>1 DEF Takes, TypeOK
  <2>3. UNCHANGED <<content, mirror, derivedVars, model, now, passes>>
    BY <1>1 DEF Takes
  <2> HIDE DEF r
  <2>4. /\ pass'[p] = r /\ \A o \in Passes : o # p => pass'[o] = pass[o]
    BY <1>0, <2>1, <2>2, PassType
  <2>5. EnrichInv'
    BY <2>1, <2>3, <2>4 DEF PassInv, EnrichInv, Passes, derivedVars
  <2>6. TextInv'
    BY <2>1, <2>3, <2>4 DEF PassInv, TextInv, Passes, derivedVars
  <2> QED BY <1>0, <1>1, <2>1, <2>2, <2>3, <2>5, <2>6, AtFileStep DEF Takes
<1>2. CASE ReadsText(p)
  <2> DEFINE f == pass[p].file
             r == [pass[p] EXCEPT !.pc = "store", !.ok = extracted[f].ok, !.ver = extracted[f].ver]
  <2>0. f \in Files /\ extracted[f].ok \in BOOLEAN /\ extracted[f].ver \in Versions
    BY <1>0, <1>2, Facts DEF ReadsText
  <2>1. r \in Pass /\ r.pc = "store" /\ r.file = f /\ r.ver = extracted[f].ver
    BY <1>0, <2>0 DEF Pass
  <2>2. pass' = [pass EXCEPT ![p] = r]
    BY <1>0, <1>2 DEF ReadsText, TypeOK
  <2>3. UNCHANGED <<content, mirror, derivedVars, model, now, passes>>
    BY <1>2 DEF ReadsText
  <2>4. /\ pass'[p] = r /\ \A o \in Passes : o # p => pass'[o] = pass[o]
    BY <1>0, <2>1, <2>2, PassType
  <2>5. p # "enrichment" /\ pass[p].pc = "file"
    BY <1>2 DEF ReadsText
  <2> HIDE DEF r
  <2>6. EnrichInv'
    BY <2>3, <2>4, <2>5 DEF PassInv, EnrichInv, Passes, derivedVars
  <2>7. TextInv'
    BY <2>1, <2>3, <2>4 DEF PassInv, TextInv, Passes, derivedVars
  <2> QED BY <1>0, <2>0, <2>1, <2>2, <2>3, <2>5, <2>6, <2>7, AtFileStep
<1> QED
  BY <1>1, <1>2

LEMMA EnrichSteps ==
    ASSUME InTurn, PassInv, Extracts \/ Stamps
    PROVE  PassInv'
<1> DEFINE e == pass["enrichment"]
<1>0. /\ TypeOK /\ e \in Pass /\ now \in Times /\ now <= now /\ "enrichment" \in Passes
      /\ e.pc \in {"file", "stamp", "store"} => e.file \in Files
  BY Facts DEF PassInv, AtFile, Passes
<1>1. CASE Extracts
  <2>1. PICK ok \in BOOLEAN :
           pass' = [pass EXCEPT !["enrichment"].pc = "stamp", !["enrichment"].ok = ok,
                                !["enrichment"].ver = content[e.file]]
    BY <1>1 DEF Extracts
  <2> DEFINE r == [e EXCEPT !.pc = "stamp", !.ok = ok, !.ver = content[e.file]]
  <2>2. e.pc = "file" /\ e.file \in Files /\ content[e.file] \in Versions
    BY <1>0, <1>1, Facts DEF Extracts
  <2>3. r \in Pass /\ r.pc = "stamp" /\ r.file = e.file /\ r.ver = content[e.file]
    BY <1>0, <2>2 DEF Pass
  <2>4. pass' = [pass EXCEPT !["enrichment"] = r]
    BY <1>0, <2>1 DEF TypeOK
  <2>5. UNCHANGED <<content, mirror, derivedVars, model, now, passes>>
    BY <1>1 DEF Extracts
  <2> HIDE DEF r
  <2>6. /\ pass'["enrichment"] = r /\ \A o \in Passes : o # "enrichment" => pass'[o] = pass[o]
    BY <1>0, <2>3, <2>4, PassType
  <2>7. EnrichInv'
    BY <2>2, <2>3, <2>5, <2>6 DEF PassInv, EnrichInv, derivedVars
  <2>8. TextInv'
    BY <2>5, <2>6 DEF PassInv, TextInv, Passes, derivedVars
  <2> QED BY <1>0, <2>2, <2>3, <2>4, <2>5, <2>7, <2>8, AtFileStep
<1>2. CASE Stamps
  <2> DEFINE r == [e EXCEPT !.pc = "store", !.at = now + 1]
  <2>1. e.pc = "stamp" /\ e.file \in Files /\ now' = now + 1 /\ now + 1 \in Times /\ now \in Int
    BY <1>0, <1>2, Facts DEF Stamps
  <2>2. r \in Pass /\ r.pc = "store" /\ r.file = e.file /\ r.ver = e.ver /\ r.at = now + 1
    BY <1>0, <2>1 DEF Pass
  <2>3. pass' = [pass EXCEPT !["enrichment"] = r]
    BY <1>0, <1>2 DEF Stamps, TypeOK
  <2>4. UNCHANGED <<content, mirror, derivedVars, model, passes>>
    BY <1>2 DEF Stamps
  <2> HIDE DEF r
  <2>5. /\ pass'["enrichment"] = r /\ \A o \in Passes : o # "enrichment" => pass'[o] = pass[o]
    BY <1>0, <2>2, <2>3, PassType
  <2>6. \A f \in Files : embedded[f].at < now + 1 /\ analysed[f].at < now + 1
    <3>1. \A f \in Files : embedded[f].at <= now /\ analysed[f].at <= now
      BY DEF PassInv, ClockInv
    <3>2. \A f \in Files : embedded[f].at \in Int /\ analysed[f].at \in Int
      BY <1>0, Facts
    <3> QED BY <2>1, <3>1, <3>2
  <2>7. 0 < now + 1 /\ now <= now' /\ now' \in Times
    BY <1>0, <2>1 DEF Times
  <2>8. EnrichInv'
    BY <2>1, <2>2, <2>4, <2>5, <2>6, <2>7 DEF PassInv, EnrichInv, derivedVars
  <2>9. TextInv'
    BY <2>4, <2>5 DEF PassInv, TextInv, Passes, derivedVars
  <2> QED BY <1>0, <2>1, <2>2, <2>3, <2>4, <2>7, <2>8, <2>9, AtFileStep
<1> QED
  BY <1>1, <1>2

-----------------------------------------------------------------------------
(* Drive, the scans and the settings *)

LEMMA OutsideSteps ==
    ASSUME InTurn, PassInv, NEW f \in Files, Edits(f) \/ Ingests(f) \/ Removes(f)
    PROVE  PassInv'
<1> USE DEF PassInv
<1>0. UNCHANGED <<model, pass, passes>>
  BY DEF Edits, Ingests, Removes
<1>1. CASE Edits(f)
  <2>1. /\ content' = [content EXCEPT ![f] = content[f] + 1] /\ content[f] + 1 \in Versions
        /\ UNCHANGED <<mirror, derivedVars, now>>
    <3>1. content[f] \in Versions /\ content[f] <= MaxEdits
      BY <1>1, Facts DEF Edits
    <3>2. content[f] + 1 \in Versions
      BY <3>1 DEF Versions, InTurn
    <3> QED BY <1>1, <3>2 DEF Edits
  <2>2. TypeOK'
    BY <1>0, <2>1 DEF TypeOK, derivedVars
  <2>3. \A g \in Files : mirror'[g].ver <= content'[g]
    BY <2>1, Facts DEF TypeOK, EnrichInv
  <2>4. EnrichInv'
    BY <1>0, <2>1, <2>3 DEF EnrichInv, derivedVars
  <2>5. AtFile' /\ Exclusive' /\ ClockInv' /\ TextInv'
    BY <1>0, <2>1 DEF AtFile, Exclusive, ClockInv, TextInv, HasRow, derivedVars
  <2>6. EnrichedOrPending' /\ EmbeddedOrPending' /\ AnalysedOrPending'
    BY <1>0, <2>1 DEF EnrichedOrPending, EmbeddedOrPending, AnalysedOrPending, PendingEnrichment,
           PendingEmbedding, PendingIntelligence, HasRow, derivedVars
  <2> QED BY <2>2, <2>4, <2>5, <2>6
<1>2. CASE Ingests(f)
  <2>1. /\ mirror' = [mirror EXCEPT ![f] = [ver |-> content[f], at |-> now + 1]]
        /\ now' = now + 1 /\ now + 1 \in Times /\ now \in Int /\ content[f] \in Versions
        /\ UNCHANGED <<content, derivedVars>> /\ pass["enrichment"].pc = "idle"
    BY <1>2, Facts DEF Ingests, MayScan, InTurn
  <2>2. /\ mirror'[f].ver = content[f] /\ mirror'[f].at = now + 1
        /\ mirror' \in [Files -> Mirror]
        /\ \A g \in Files : g # f => mirror'[g] = mirror[g]
    BY <2>1 DEF TypeOK, Mirror
  <2>3. TypeOK'
    BY <1>0, <2>1, <2>2 DEF TypeOK, derivedVars
  <2>4. \A g \in Files : mirror'[g].ver <= content'[g]
    BY <2>1, <2>2, Facts DEF EnrichInv
  <2>5. EnrichInv'
    BY <1>0, <2>1, <2>4 DEF EnrichInv
  <2>6. \A g \in Files : mirror'[g].at <= now'
    BY <2>1, <2>2, Facts DEF ClockInv
  <2>7. ClockInv'
    <3>1. \A n \in Times : n <= now => n <= now'
      BY <2>1, Facts
    <3>2. HasRow(f)' /\ \A g \in Files : HasRow(g) => HasRow(g)'
      <4>1. now + 1 > 0
        BY Facts DEF Times
      <4> QED BY <2>1, <2>2, <4>1 DEF HasRow
    <3> QED BY <1>0, <2>1, <2>6, <3>1, <3>2, Facts DEF ClockInv, derivedVars
  <2>8. AtFile' /\ Exclusive' /\ TextInv'
    BY <1>0, <2>1 DEF AtFile, Exclusive, TextInv, derivedVars
  <2>9. extracted[f].at <= now
    BY DEF ClockInv
  <2>10. EnrichedOrPending'
    <3>0. extracted[f].at \in Int /\ now + 1 > 0
      BY <2>1, Facts DEF Times
    <3>1. PendingEnrichment(f)'
      <4>1. mirror'[f].at > 0 /\ mirror'[f].at > extracted'[f].at
        BY <2>1, <2>2, <2>9, <3>0 DEF derivedVars
      <4> QED BY <4>1 DEF PendingEnrichment, HasRow
    <3>2. ASSUME NEW g \in Files, g # f, HasRow(g)'
          PROVE  PendingEnrichment(g)' \/ extracted'[g].ver >= mirror'[g].ver
      BY <2>1, <2>2, <3>2 DEF EnrichedOrPending, PendingEnrichment, HasRow, derivedVars
    <3> QED BY <3>1, <3>2 DEF EnrichedOrPending
  <2>11. \A g \in Files : extracted[g].ok => HasRow(g)
    BY DEF ClockInv
  <2>12. EmbeddedOrPending' /\ AnalysedOrPending'
    BY <1>0, <2>1, <2>11 DEF EmbeddedOrPending, AnalysedOrPending, PendingEmbedding,
       PendingIntelligence, derivedVars
  <2> QED
    BY <2>3, <2>5, <2>7, <2>8, <2>10, <2>12
<1>3. CASE Removes(f)
  <2>0. /\ NoMirror.ver = 0 /\ NoMirror.at = 0 /\ NoExtracted.at = 0 /\ NoExtracted.ok = FALSE
        /\ NoDerived.at = 0 /\ NoDerived.model = 0
    BY RestTypes
  <2>1. /\ mirror' = [mirror EXCEPT ![f] = NoMirror]
        /\ extracted' = [extracted EXCEPT ![f] = NoExtracted]
        /\ embedded' = [embedded EXCEPT ![f] = NoDerived]
        /\ analysed' = [analysed EXCEPT ![f] = NoDerived]
        /\ UNCHANGED <<content, now>> /\ pass["enrichment"].pc = "idle"
    BY <1>3 DEF Removes, MayScan, InTurn
  <2>2. /\ mirror'[f] = NoMirror /\ extracted'[f] = NoExtracted
        /\ embedded'[f] = NoDerived /\ analysed'[f] = NoDerived
        /\ \A g \in Files : g # f => /\ mirror'[g] = mirror[g] /\ extracted'[g] = extracted[g]
                                     /\ embedded'[g] = embedded[g] /\ analysed'[g] = analysed[g]
    BY <2>1 DEF TypeOK
  <2>3. TypeOK'
    BY <1>0, <2>1, RestTypes DEF TypeOK
  <2>4. EnrichInv'
    <3>1. mirror'[f].ver <= content'[f]
      BY <2>0, <2>1, <2>2, Facts DEF Versions
    <3>2. \A g \in Files : mirror'[g].ver <= content'[g]
      BY <2>1, <2>2, <3>1 DEF EnrichInv
    <3> QED BY <1>0, <2>1, <3>2 DEF EnrichInv
  <2>5. ClockInv'
    <3>1. 0 <= now /\ 0 <= model
      BY Facts DEF Times, Models
    <3>2. \A g \in Files : g # f /\ HasRow(g) => HasRow(g)'
      BY <2>2 DEF HasRow
    <3> QED BY <1>0, <2>0, <2>1, <2>2, <3>1, <3>2 DEF ClockInv
  <2>6. AtFile' /\ Exclusive'
    BY <1>0, <2>1 DEF AtFile, Exclusive
  <2>7. TextInv'
    BY <1>0, <2>0, <2>2 DEF TextInv, AtFile, Passes
  <2>8. ~ HasRow(f)' /\ ~ extracted'[f].ok
    BY <2>0, <2>2 DEF HasRow
  <2>9. EnrichedOrPending' /\ EmbeddedOrPending' /\ AnalysedOrPending'
    BY <1>0, <2>2, <2>8 DEF EnrichedOrPending, EmbeddedOrPending, AnalysedOrPending,
       PendingEnrichment, PendingEmbedding, PendingIntelligence, HasRow
  <2> QED BY <2>3, <2>4, <2>5, <2>6, <2>7, <2>9
<1> QED
  BY <1>1, <1>2, <1>3

\* Another model is configured: what was stored by older ones is pending again.
LEMMA UpgradeStep ==
    ASSUME InTurn, PassInv, Upgrades
    PROVE  PassInv'
<1> USE DEF PassInv
<1>1. /\ model' = model + 1 /\ model + 1 \in Models /\ model \in Int
      /\ \A p \in Passes : pass[p].pc = "idle"
      /\ UNCHANGED <<content, mirror, derivedVars, pass, now, passes>>
  <2>1. model \in Models
    BY Facts
  <2> QED BY <2>1 DEF Upgrades, Models, InTurn
<1>2. TypeOK'
  BY <1>1 DEF TypeOK, derivedVars
<1>3. \A f \in Files : /\ embedded[f].model <= model /\ embedded[f].model \in Int
                       /\ analysed[f].model <= model /\ analysed[f].model \in Int
  BY Facts DEF ClockInv
<1>4. \A f \in Files : /\ embedded'[f].model <= model' /\ embedded'[f].model # model'
                       /\ analysed'[f].model <= model' /\ analysed'[f].model # model'
  BY <1>1, <1>3 DEF derivedVars
<1>5. AtFile' /\ Exclusive' /\ ClockInv' /\ EnrichInv' /\ TextInv'
  BY <1>1, <1>4 DEF AtFile, Exclusive, ClockInv, EnrichInv, TextInv, HasRow, derivedVars, Passes
<1>6. EnrichedOrPending'
  BY <1>1 DEF EnrichedOrPending, PendingEnrichment, HasRow, derivedVars
<1>7. EmbeddedOrPending' /\ AnalysedOrPending'
  BY <1>4 DEF EmbeddedOrPending, AnalysedOrPending, PendingEmbedding, PendingIntelligence
<1> QED
  BY <1>2, <1>5, <1>6, <1>7

-----------------------------------------------------------------------------
(* What the passes store *)

\* The new text is newer than anything derived from the old one.
LEMMA EnrichStores ==
    ASSUME InTurn, PassInv, EnrichFile
    PROVE  PassInv'
<1> USE DEF PassInv
<1> DEFINE e == pass["enrichment"]
           f == e.file
           x == [ver |-> e.ver, at |-> e.at, ok |-> e.ok]
<1>1. /\ e.pc = "store" /\ HasRow(f) /\ f \in Files /\ "enrichment" \in Passes
      /\ extracted' = [extracted EXCEPT ![f] = x]
      /\ pass' = [pass EXCEPT !["enrichment"] = AtList(e.left)]
      /\ UNCHANGED <<content, mirror, embedded, analysed, model, now, passes>>
  BY DEF EnrichFile, ExtractionUpsert, Goes, AtFile, Passes
<1>2. /\ e.ver \in Versions /\ e.at \in Times /\ e.ok \in BOOLEAN
      /\ AtList(e.left) \in Pass /\ AtList(e.left).pc = "list"
  BY <1>1, Facts, RestTypes
<1>3. /\ mirror[f].ver <= e.ver /\ 0 < e.at /\ e.at <= now
      /\ embedded[f].at < e.at /\ analysed[f].at < e.at
  BY <1>1 DEF EnrichInv
<1>4. /\ x \in Extracted /\ x.ver = e.ver /\ x.at = e.at /\ x.ok = e.ok
  BY <1>2 DEF Extracted
<1>5. /\ extracted' \in [Files -> Extracted] /\ extracted'[f] = x
      /\ \A g \in Files : g # f => extracted'[g] = extracted[g]
  BY <1>1, <1>4 DEF TypeOK
<1>6. /\ pass' \in [Passes -> Pass] /\ pass'["enrichment"].pc = "list"
      /\ \A o \in Passes : o # "enrichment" => pass'[o] = pass[o]
      /\ pass["embedding"].pc = "idle" /\ pass["intelligence"].pc = "idle"
  BY <1>1, <1>2, PassType DEF Exclusive
<1> HIDE DEF x, f, e
<1>7. TypeOK'
  BY <1>1, <1>5, <1>6 DEF TypeOK
<1>8. AtFile' /\ Exclusive' /\ TextInv' /\ EnrichInv'
  BY <1>1, <1>6 DEF AtFile, Exclusive, TextInv, EnrichInv, Passes
<1>9. ClockInv'
  BY <1>1, <1>3, <1>4, <1>5 DEF ClockInv, HasRow
<1>10. EnrichedOrPending'
  <2>1. extracted'[f].ver >= mirror'[f].ver
    BY <1>1, <1>2, <1>3, <1>4, <1>5, Facts
  <2> QED BY <1>1, <1>5, <2>1 DEF EnrichedOrPending, PendingEnrichment, HasRow
<1>11. extracted'[f].at > embedded'[f].at /\ extracted'[f].at > analysed'[f].at
  BY <1>1, <1>2, <1>3, <1>4, <1>5, Facts
<1>12. EmbeddedOrPending' /\ AnalysedOrPending'
  BY <1>1, <1>5, <1>11 DEF EmbeddedOrPending, AnalysedOrPending, PendingEmbedding,
     PendingIntelligence, HasRow
<1> QED
  BY <1>7, <1>8, <1>9, <1>10, <1>12

\* What two passes store alike: the record of one file, stamped now, for the text they read.
LEMMA DerivedStored ==
    ASSUME InTurn, PassInv, NEW p \in {"embedding", "intelligence"}, pass[p].pc = "store",
           pass' = [pass EXCEPT ![p] = AtList(pass[p].left)],
           now' \in Times, now <= now',
           UNCHANGED <<content, mirror, extracted, model, passes>>,
           embedded' \in [Files -> Derived], analysed' \in [Files -> Derived],
           \A g \in Files :
              /\ embedded'[g].at <= now' /\ analysed'[g].at <= now'
              /\ embedded'[g].model <= model /\ analysed'[g].model <= model
    PROVE  /\ TypeOK' /\ AtFile' /\ Exclusive' /\ ClockInv' /\ EnrichInv' /\ TextInv'
           /\ EnrichedOrPending'
<1> USE DEF PassInv
<1>1. p \in Passes /\ AtList(pass[p].left) \in Pass /\ AtList(pass[p].left).pc = "list"
  BY Facts, RestTypes DEF Passes
<1>2. /\ pass' \in [Passes -> Pass] /\ pass'[p].pc = "list"
      /\ \A o \in Passes : o # p => pass'[o] = pass[o]
      /\ pass["enrichment"].pc = "idle"
  BY <1>1, PassType DEF Exclusive
<1>3. TypeOK'
  BY <1>2 DEF TypeOK
<1>4. AtFile' /\ Exclusive' /\ TextInv' /\ EnrichInv'
  BY <1>2 DEF AtFile, Exclusive, TextInv, EnrichInv, Passes
<1>5. ClockInv'
  <2>1. \A n \in Times : n <= now => n <= now'
    BY Facts
  <2> QED BY <2>1, Facts DEF ClockInv, HasRow
<1>6. EnrichedOrPending'
  BY DEF EnrichedOrPending, PendingEnrichment, HasRow
<1> QED
  BY <1>3, <1>4, <1>5, <1>6

LEMMA EmbedStores ==
    ASSUME InTurn, PassInv, EmbedFile
    PROVE  PassInv'
<1> USE DEF PassInv
<1> DEFINE e == pass["embedding"]
           f == e.file
           x == [ver |-> e.ver, at |-> now + 1, model |-> model]
<1>1. /\ e.pc = "store" /\ HasRow(f) /\ f \in Files
      /\ pass' = [pass EXCEPT !["embedding"] = AtList(e.left)]
      /\ UNCHANGED <<content, mirror, extracted, analysed, model, passes>>
  BY DEF EmbedFile, Goes, AtFile, Passes
<1>2. now \in Times /\ now + 1 \in Times /\ model \in Models /\ e.ver \in Versions
  BY Facts DEF EmbedFile, Passes
<1>3. /\ now < now + 1 /\ now <= now /\ model <= model /\ now + 1 <= now + 1
      /\ now <= now + 1 /\ \A n \in Times : n <= now => n <= now + 1
  BY <1>2 DEF Times, Models
<1>4. \A g \in Files : /\ embedded[g].at <= now /\ analysed[g].at <= now
                       /\ embedded[g].model <= model /\ analysed[g].model <= model
                       /\ embedded[g].at \in Times /\ analysed[g].at \in Times
  BY Facts DEF ClockInv
<1>5. AnalysedOrPending'
  BY <1>1 DEF AnalysedOrPending, PendingIntelligence, HasRow
<1>6. CASE UNCHANGED <<embedded, now>>
  <2>1. EmbeddedOrPending'
    BY <1>1, <1>6 DEF EmbeddedOrPending, PendingEmbedding, HasRow
  <2> QED BY <1>1, <1>2, <1>3, <1>4, <1>5, <1>6, <2>1, DerivedStored DEF TypeOK
<1>7. CASE embedded' = [embedded EXCEPT ![f] = x] /\ now' = now + 1
  <2>1. x \in Derived /\ x.at = now + 1 /\ x.model = model /\ x.ver = e.ver
    BY <1>2 DEF Derived
  <2> HIDE DEF x
  <2>2. /\ embedded' \in [Files -> Derived] /\ embedded'[f] = x
        /\ \A g \in Files : g # f => embedded'[g] = embedded[g]
    BY <1>1, <1>7, <2>1 DEF TypeOK
  <2>3. extracted[f].ok => Text(x.ver) = Text(extracted[f].ver)
    BY <1>1, <2>1 DEF TextInv
  <2>4. EmbeddedOrPending'
    BY <1>1, <2>1, <2>2, <2>3 DEF EmbeddedOrPending, PendingEmbedding, HasRow
  <2>5. \A g \in Files : embedded'[g].at <= now' /\ embedded'[g].model <= model
    BY <1>3, <1>4, <1>7, <2>1, <2>2
  <2>6. \A g \in Files : analysed'[g].at <= now' /\ analysed'[g].model <= model
    BY <1>1, <1>3, <1>4, <1>7
  <2> QED
    BY <1>1, <1>2, <1>3, <1>5, <1>7, <2>2, <2>4, <2>5, <2>6, DerivedStored DEF TypeOK
<1> QED
  BY <1>6, <1>7 DEF EmbedFile, EmbeddingUpsert

LEMMA AnalyzeStores ==
    ASSUME InTurn, PassInv, AnalyzeFile
    PROVE  PassInv'
<1> USE DEF PassInv
<1> DEFINE e == pass["intelligence"]
           f == e.file
           x == [ver |-> e.ver, at |-> now + 1, model |-> model]
<1>1. /\ e.pc = "store" /\ HasRow(f) /\ f \in Files
      /\ pass' = [pass EXCEPT !["intelligence"] = AtList(e.left)]
      /\ analysed' = [analysed EXCEPT ![f] = x] /\ now' = now + 1
      /\ UNCHANGED <<content, mirror, extracted, embedded, model, passes>>
  BY DEF AnalyzeFile, IntelligenceUpsert, Goes, AtFile, Passes
<1>2. now \in Times /\ now + 1 \in Times /\ model \in Models /\ e.ver \in Versions
  BY Facts DEF AnalyzeFile, Passes
<1>3. /\ now < now + 1 /\ model <= model /\ now + 1 <= now + 1
      /\ now <= now + 1 /\ \A n \in Times : n <= now => n <= now + 1
  BY <1>2 DEF Times, Models
<1>4. \A g \in Files : /\ embedded[g].at <= now /\ analysed[g].at <= now
                       /\ embedded[g].model <= model /\ analysed[g].model <= model
                       /\ embedded[g].at \in Times /\ analysed[g].at \in Times
  BY Facts DEF ClockInv
<1>5. EmbeddedOrPending'
  BY <1>1 DEF EmbeddedOrPending, PendingEmbedding, HasRow
<1>6. x \in Derived /\ x.at = now + 1 /\ x.model = model /\ x.ver = e.ver
  BY <1>2 DEF Derived
<1> HIDE DEF x
<1>7. /\ analysed' \in [Files -> Derived] /\ analysed'[f] = x
      /\ \A g \in Files : g # f => analysed'[g] = analysed[g]
  BY <1>1, <1>6 DEF TypeOK
<1>8. extracted[f].ok => x.ver = extracted[f].ver
  BY <1>1, <1>6 DEF TextInv
<1>9. AnalysedOrPending'
  BY <1>1, <1>6, <1>7, <1>8 DEF AnalysedOrPending, PendingIntelligence, HasRow
<1>10. \A g \in Files : analysed'[g].at <= now' /\ analysed'[g].model <= model
  BY <1>1, <1>3, <1>4, <1>6, <1>7
<1>11. \A g \in Files : embedded'[g].at <= now' /\ embedded'[g].model <= model
  BY <1>1, <1>3, <1>4
<1> QED
  BY <1>1, <1>2, <1>3, <1>5, <1>7, <1>9, <1>10, <1>11, DerivedStored DEF TypeOK

-----------------------------------------------------------------------------

LEMMA PassInit == ASSUME InTurn PROVE Init => PassInv
<1> SUFFICES ASSUME Init PROVE PassInv
  OBVIOUS
<1>1. TypeOK
  BY DEF Init, TypeOK, InTurn, Versions, Times, Models, Mirror, Extracted, Derived, Pass, NoMirror,
         NoExtracted, NoDerived, Idle
<1>2. AtFile /\ Exclusive /\ TextInv
  BY DEF Init, AtFile, Exclusive, TextInv, Passes, Idle
<1>3. ClockInv /\ EnrichInv
  BY DEF Init, ClockInv, EnrichInv, Passes, Idle, NoMirror, NoExtracted, NoDerived
<1>4. EnrichedOrPending /\ EmbeddedOrPending /\ AnalysedOrPending
  BY DEF Init, EnrichedOrPending, EmbeddedOrPending, AnalysedOrPending, HasRow, NoMirror
<1> QED
  BY <1>1, <1>2, <1>3, <1>4 DEF PassInv

LEMMA PassStep == ASSUME InTurn PROVE PassInv /\ [Next]_vars => PassInv'
<1> SUFFICES ASSUME PassInv, [Next]_vars PROVE PassInv'
  OBVIOUS
<1>1. CASE UNCHANGED vars
  BY <1>1 DEF vars, derivedVars, PassInv, TypeOK, AtFile, Exclusive, ClockInv, EnrichInv, TextInv,
     EnrichedOrPending, EmbeddedOrPending, AnalysedOrPending, PendingEnrichment, PendingEmbedding,
     PendingIntelligence, HasRow
<1> QED
  BY <1>1, QuietSteps, FileSteps, EnrichSteps, OutsideSteps, UpgradeStep, EnrichStores,
     EmbedStores, AnalyzeStores DEF Next

(***************************************************************************)
(* Timestamps are enough: a file whose row, text or models are newer than what  *)
(* was derived from them is taken by the next pass, wherever passes were cut    *)
(* short and whatever was edited, removed and ingested again beside them, for   *)
(* any files, if scans and enrichments run beside no other pass.                *)
(***************************************************************************)
THEOREM DerivedOrPendingHolds ==
    ASSUME InTurn
    PROVE  Spec => []DerivedOrPending
<1>1. PassInv => DerivedOrPending
  BY DEF PassInv, DerivedOrPending
<1> QED
  BY <1>1, PassInit, PassStep, PTL DEF Spec
=============================================================================
