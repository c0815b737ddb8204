------------------------------ MODULE Duplicates ------------------------------
(***************************************************************************)
(* Files with the same content, and what removes all of them but one. Two       *)
(* derivations look for them, each in its own way: the recommendation of the     *)
(* rule duplicate_files goes by the key that enrichment gives to the files of a  *)
(* checksum, storage analysis by the checksums themselves. A plan made from what *)
(* either of them stored trashes its files, one by one, once it is approved.     *)
(*                                                                         *)
(* The files have content of their own and belong to the account, and the        *)
(* organization has enough others for the rules to be evaluated. How a plan is    *)
(* decided, and how a step is carried out, is in PlanApproval and                *)
(* ExecutionEngine.                                                          *)
(***************************************************************************)
EXTENDS Naturals, FiniteSets

CONSTANTS
    Files,
    Checksums,
    NoFile, NoKey,
    MaxActs,        \* bound on what users do in Drive
    MaxRuns         \* bound on the jobs that are run

VARIABLES
    drive,      \* each file in Drive: its content, and where it is
    row,        \* files and file_metadata
    rec,        \* the recommendation
    group,      \* duplicate_groups and their members, by checksum
    reading,    \* what the recommendation job, or the analysis, has read
    plan,       \* the plan in flight of the recommendation, and of each group
    acts, runs  \* against the bounds

derivedVars == <<rec, group, reading>>
vars == <<drive, row, derivedVars, plan, acts, runs>>

Origins == {"recommendation"} \cup Checksums
Jobs == {"recommendation", "analysis"}

InDrive == [content : Checksums, at : {"here", "trash"}]
Row == [there : BOOLEAN, checksum : Checksums, trashed : BOOLEAN, key : Checksums \cup {NoKey}]

\* "sound" is for the properties: whether what a thing was derived from was true of
\* Drive when it was read, and nothing in Drive has changed since but by the plan
\* itself.
Recommendation == [status : {"none", "active", "resolved"}, files : SUBSET Files, sound : BOOLEAN]
Group == [members : SUBSET Files, keep : Files \cup {NoFile}, sound : BOOLEAN]
Reading == [pc : {"idle", "read"}, of : [Checksums -> SUBSET Files], keep : SUBSET Files,
            sound : BOOLEAN]
Plan  == [pc : {"none", "pending", "executing"}, left : SUBSET Files, sound : BOOLEAN]

NoGroup == [members |-> {}, keep |-> NoFile, sound |-> FALSE]
NoPlan  == [pc |-> "none", left |-> {}, sound |-> FALSE]
NoReading == [pc |-> "idle", of |-> [c \in Checksums |-> {}], keep |-> {}, sound |-> FALSE]

TypeOK ==
    /\ drive \in [Files -> InDrive] /\ row \in [Files -> Row]
    /\ rec \in Recommendation /\ group \in [Checksums -> Group]
    /\ reading \in [Jobs -> Reading]
    /\ plan \in [Origins -> Plan] /\ acts \in 0 .. MaxActs /\ runs \in 0 .. MaxRuns

Init ==
    /\ \E c \in Checksums : drive = [f \in Files |-> [content |-> c, at |-> "here"]]
    /\ row = [f \in Files |-> [there |-> TRUE, checksum |-> drive[f].content, trashed |-> FALSE,
                               key |-> NoKey]]
    /\ rec = [status |-> "none", files |-> {}, sound |-> FALSE]
    /\ group = [c \in Checksums |-> NoGroup]
    /\ reading = [j \in Jobs |-> NoReading]
    /\ plan = [o \in Origins |-> NoPlan] /\ acts = 0 /\ runs = 0

Live(f) == drive[f].at = "here"

-----------------------------------------------------------------------------
(* Drive, its scan, and the enrichment of what was scanned *)

\* Drive has changed: what was derived from it before is not sound any more.
Unsound ==
    /\ rec' = [rec EXCEPT !.sound = FALSE]
    /\ group' = [c \in Checksums |-> [group[c] EXCEPT !.sound = FALSE]]
    /\ reading' = [j \in Jobs |-> [reading[j] EXCEPT !.sound = FALSE]]

UserActs(f) ==
    /\ acts < MaxActs /\ acts' = acts + 1
    /\ drive' \in {[drive EXCEPT ![f] = x] : x \in InDrive} /\ drive' # drive
    /\ Unsound /\ plan' = [o \in Origins |-> [plan[o] EXCEPT !.sound = FALSE]]
    /\ UNCHANGED <<row, runs>>

\* A trashed file loses its row, and with it go its metadata, its steps and its
\* memberships.
ScansFile(f) ==
    LET here == Live(f)
    IN  /\ row' = [row EXCEPT ![f] = [there |-> here, checksum |-> drive[f].content, trashed |-> FALSE,
                                      key |-> IF here THEN @.key ELSE NoKey]]
        /\ plan' = IF here THEN plan
                   ELSE [o \in Origins |-> [plan[o] EXCEPT !.left = @ \ {f}]]
        /\ group' = IF here THEN group
                    ELSE [c \in Checksums |-> [group[c] EXCEPT !.members = @ \ {f},
                                                               !.keep = IF @ = f THEN NoFile ELSE @]]
        /\ UNCHANGED <<drive, rec, reading, acts, runs>>

Listed_Trashed == {f \in Files : row[f].there}
\* Every query leaves out the trashed rows.
Listed == {f \in Files : row[f].there /\ ~ row[f].trashed}

SameChecksum(c) == {f \in Listed : row[f].checksum = c}
SameKey(c)      == {f \in Listed : row[f].key = c}

\* _discover_relationships: the files of a checksum get it as their key, and none
\* ever loses it.
DiscoversRelationships ==
    /\ row' = [f \in Files |->
           IF f \in Listed /\ Cardinality(SameChecksum(row[f].checksum)) >= 2
           THEN [row[f] EXCEPT !.key = row[f].checksum] ELSE row[f]]
    /\ UNCHANGED <<drive, derivedVars, plan, acts, runs>>

-----------------------------------------------------------------------------
(* What is derived *)

TwoOrMore(fs) == IF Cardinality(fs) >= 2 THEN fs ELSE {}

\* One copy to keep of each set: the largest, in an order that the query leaves open;
\* or the one that its path and its date speak for.
Keeps(of) == {ks \in SUBSET UNION {of[c] : c \in Checksums} :
                  \A c \in Checksums : of[c] # {} => Cardinality(ks \cap of[c]) = 1}

ChecksumsTrue ==
    \A f \in Files : row[f].there /\ ~ row[f].trashed => Live(f) /\ row[f].checksum = drive[f].content
KeysTrue ==
    \A f \in Files : row[f].there /\ ~ row[f].trashed => Live(f) /\ row[f].key \in {drive[f].content, NoKey}

Reads(j, of, sound) ==
    /\ reading[j].pc = "idle" /\ runs < MaxRuns /\ runs' = runs + 1
    /\ \E ks \in Keeps(of) :
           reading' = [reading EXCEPT ![j] = [pc |-> "read", of |-> of, keep |-> ks, sound |-> sound]]
    /\ UNCHANGED <<drive, row, rec, group, plan, acts>>

ReadsForRules    == Reads("recommendation", [c \in Checksums |-> TwoOrMore(SameKey(c))], KeysTrue)
ReadsForAnalysis == Reads("analysis", [c \in Checksums |-> TwoOrMore(SameChecksum(c))], ChecksumsTrue)

Redundant(r) == (UNION {r.of[c] : c \in Checksums}) \ r.keep

\* The rule fired: its recommendation is revived and refreshed. It did not, or it
\* raised: what is active is resolved.
StoresRecommendation ==
    LET r == reading["recommendation"]
    IN  /\ r.pc = "read"
        /\ \/ /\ Redundant(r) # {}
              /\ rec' = [status |-> "active", files |-> Redundant(r), sound |-> r.sound]
           \/ rec' = [rec EXCEPT !.status = IF @ = "active" THEN "resolved" ELSE @]
        /\ reading' = [reading EXCEPT !["recommendation"] = NoReading]
        /\ UNCHANGED <<drive, row, group, plan, acts, runs>>

\* upsert_group and replace_members; a checksum that was not seen loses its group.
GroupAfter(c) ==
    LET r == reading["analysis"]
    IN  IF r.of[c] = {} THEN NoGroup
        ELSE [members |-> r.of[c], keep |-> CHOOSE f \in r.of[c] : f \in r.keep, sound |-> r.sound]

\* The plans of a deleted group go with it.
StoresGroups ==
    /\ reading["analysis"].pc = "read"
    /\ \A c \in Checksums : \A f \in reading["analysis"].of[c] : row[f].there
    /\ group' = [c \in Checksums |-> GroupAfter(c)]
    /\ plan' = [o \in Origins |->
           IF o \in Checksums /\ reading["analysis"].of[o] = {} THEN NoPlan ELSE plan[o]]
    /\ reading' = [reading EXCEPT !["analysis"] = NoReading]
    /\ UNCHANGED <<drive, row, rec, acts, runs>>

\* The job boundary: what was read is thrown away. A member without a file is one
\* reason.
JobFails(j) ==
    /\ reading[j].pc = "read"
    /\ reading' = [reading EXCEPT ![j] = NoReading]
    /\ UNCHANGED <<drive, row, rec, group, plan, acts, runs>>

-----------------------------------------------------------------------------
(* Plans *)

Creates(o, fs, sound) ==
    /\ plan[o].pc = "none" /\ fs # {}
    /\ plan' = [plan EXCEPT ![o] = [pc |-> "pending", left |-> fs, sound |-> sound]]
    /\ UNCHANGED <<drive, row, derivedVars, acts, runs>>

\* The files as they were stored, those that still have a row.
CreatesPlan ==
    /\ rec.status = "active"
    /\ Creates("recommendation", {f \in rec.files : row[f].there}, rec.sound)

\* All members but the one that is marked to be kept.
CreatesPlanFromGroup(c) ==
    Creates(c, group[c].members \ {group[c].keep}, group[c].sound)

\* A human approves, or rejects, or lets it expire.
Decides(o) ==
    /\ plan[o].pc = "pending"
    /\ plan' \in {[plan EXCEPT ![o].pc = "executing"], [plan EXCEPT ![o] = NoPlan]}
    /\ UNCHANGED <<drive, row, derivedVars, acts, runs>>

Trashes(o, f) ==
    /\ plan[o].pc = "executing" /\ f \in plan[o].left /\ Live(f)
    /\ drive' = [drive EXCEPT ![f].at = "trash"]
    /\ row' = [row EXCEPT ![f].trashed = TRUE]
    /\ plan' = [p \in Origins |-> IF p = o THEN [plan[o] EXCEPT !.left = @ \ {f}]
                                  ELSE [plan[p] EXCEPT !.sound = FALSE]]
    /\ Unsound
    /\ UNCHANGED <<acts, runs>>

\* The file is in the trash already, or Drive refuses.
StepFails(o, f) ==
    /\ plan[o].pc = "executing" /\ f \in plan[o].left
    /\ plan' = [plan EXCEPT ![o].left = @ \ {f}]
    /\ UNCHANGED <<drive, row, derivedVars, acts, runs>>

Ends(o) ==
    /\ plan[o].pc = "executing" /\ plan[o].left = {}
    /\ plan' = [plan EXCEPT ![o] = NoPlan]
    /\ UNCHANGED <<drive, row, derivedVars, acts, runs>>

-----------------------------------------------------------------------------

Next ==
    \/ \E f \in Files : UserActs(f) \/ ScansFile(f)
    \/ DiscoversRelationships
    \/ ReadsForRules \/ ReadsForAnalysis \/ StoresRecommendation \/ StoresGroups
    \/ \E j \in Jobs : JobFails(j)
    \/ CreatesPlan \/ \E c \in Checksums : CreatesPlanFromGroup(c)
    \/ \E o \in Origins : \/ Decides(o) \/ Ends(o)
                          \/ \E f \in Files : Trashes(o, f) \/ StepFails(o, f)

Spec == Init /\ [][Next]_vars

-----------------------------------------------------------------------------
(* Properties *)

TrashedBy(o, f) == f \in plan[o].left \ plan'[o].left /\ Live(f) /\ drive'[f].at = "trash"
OtherCopy(f) == \E g \in Files \ {f} : Live(g) /\ drive[g].content = drive[f].content

\* A plan whose source was true when it was read, and in whose way nobody has come
\* since, leaves a copy of every file it trashes, whichever of the two derivations
\* it comes from, and however late it is approved.
SpareOne == \A o \in Origins, f \in Files : TrashedBy(o, f) /\ plan[o].sound => OtherCopy(f)

\* What the recommendation says of its files: each shares its content with another
\* file, so that no plan trashes the last copy.
LastCopyStays == [][\A o \in Origins, f \in Files : TrashedBy(o, f) => OtherCopy(f)]_vars
=============================================================================
