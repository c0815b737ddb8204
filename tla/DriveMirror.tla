----------------------------- MODULE DriveMirror -----------------------------
(***************************************************************************)
(* The Storage Scanner on one storage source: what Drive holds and logs, the  *)
(* folders and files rows that mirror it, the source's change token, and the   *)
(* full and incremental scans that bring the rows up to date.                  *)
(*                                                                         *)
(* One scan runs at a time; it may be cancelled, lose Drive, fail or die, and   *)
(* be run again from the start. A page holds one item: a longer page is the     *)
(* same writes with no check between them, what was deleted for good last. In   *)
(* that order a cascade takes nothing it would not take here: what changed was *)
(* saved under no folder before. A commit every 200 items is a commit after any *)
(* item.                                                                     *)
(***************************************************************************)
EXTENDS Integers, Sequences

CONSTANTS
    Folders, Files,
    Root,           \* "no parent", and the parent_folder_id NULL
    NoToken,        \* change_token NULL
    Nested,         \* whether folders are put into folders
    Whole,          \* whether a folder goes, and comes back, with what lies in it
    QuietListing,   \* whether Drive stands still from a full listing to its token
    Trashes,        \* whether the Execution Engine trashes files
    MaxChanges,     \* bound on changes in Drive
    MaxScans,       \* bound on scans
    MaxAborts       \* bound on scans that are cut short

VARIABLES
    drive,      \* an item in Drive: its parent, and whether it is live, trashed or gone
    log,        \* Drive's change log, the item of each change
    row,        \* the rows as the scan's transaction sees them
    base,       \* the rows as last committed
    token,      \* storage_sources.change_token: the length of the log it stands for
    scan,       \* the scan under way
    scans, aborts   \* against the bounds

driveVars == <<drive, log>>
boundVars == <<scans, aborts>>
vars == <<driveVars, row, base, token, scan, boundVars>>

Items  == Folders \cup Files
Places == Folders \cup {Root}

\* A row holds the state of its item as of change "ver". "folder" is its
\* parent_folder_id; "steps": an executed step, its result and its rollback
\* record refer to the row, and go when it goes.
Row   == [ver : Nat, parent : Places, folder : Places, steps : BOOLEAN]
NoRow == [ver |-> 0, parent |-> Root, folder |-> Root, steps |-> FALSE]

\* "left" is what a full listing has still to come to, "at" the cursor of an
\* incremental one.
Scan == [pc : {"idle", "list", "changes", "folders", "files", "token"},
         full : BOOLEAN, left : SUBSET Items, at : Nat]
AtScan(p, full, left, at) == [pc |-> p, full |-> full, left |-> left, at |-> at]
Idle == AtScan("idle", FALSE, {}, 0)

TypeOK ==
    /\ drive \in [Items -> [at : Places, is : {"live", "trashed", "gone"}]]
    /\ log \in Seq(Items) /\ Len(log) <= MaxChanges
    /\ row \in [Items -> Row] /\ base \in [Items -> Row]
    /\ token \in Nat \cup {NoToken} /\ scan \in Scan
    /\ scans \in 0 .. MaxScans /\ aborts \in 0 .. MaxAborts

Init ==
    /\ drive = [i \in Items |-> [at |-> Root, is |-> "gone"]] /\ log = <<>>
    /\ row = [i \in Items |-> NoRow] /\ base = [i \in Items |-> NoRow]
    /\ token = NoToken /\ scan = Idle /\ scans = 0 /\ aborts = 0

-----------------------------------------------------------------------------
(* Drive *)

\* Nothing live lies in what is not, unless folders go whole: then an item goes and
\* comes back with what it lies in, and the log names the folder alone.
Live(i) ==
    /\ drive[i].is = "live"
    /\ Whole /\ drive[i].at # Root =>
           LET d == drive[i].at
           IN  drive[d].is = "live" /\ (drive[d].at # Root => drive[drive[d].at].is = "live")

\* The last of the first n changes that is one of i, 0 if there is none.
LastChange(i, n) ==
    LET ks == {k \in 1 .. n : log[k] = i}
    IN  IF ks = {} THEN 0 ELSE CHOOSE k \in ks : \A o \in ks : o <= k

Version(i) == LastChange(i, Len(log))

Changes(i, to) ==
    /\ Len(log) < MaxChanges
    /\ QuietListing => ~ scan.full
    /\ drive' = [drive EXCEPT ![i] = to]
    /\ log' = Append(log, i)

\* A user creates, edits, moves or restores an item; folders are at most two deep.
UserSaves(i, place) ==
    /\ place # i
    /\ place # Root =>
           /\ Live(place)
           /\ i \in Folders => /\ Nested /\ drive[place].at = Root
                              /\ \A o \in Folders : drive[o].is = "live" => drive[o].at # i
    /\ Changes(i, [at |-> place, is |-> "live"])
    /\ UNCHANGED <<row, base, token, scan, boundVars>>

\* A user trashes an item or deletes it for good, or it is no longer shared.
UserRemoves(i, how) ==
    /\ drive[i].is # "gone" /\ drive[i].is # how
    /\ Whole \/ \A o \in Items : Live(o) => drive[o].at # i
    /\ Changes(i, [drive[i] EXCEPT !.is = how])
    /\ UNCHANGED <<row, base, token, scan, boundVars>>

\* The Execution Engine trashes a file and marks its row, waiting for a scan
\* that has an uncommitted write of it.
EngineTrashes(f) ==
    /\ Trashes
    /\ Live(f) /\ base[f] # NoRow /\ row[f] = base[f]
    /\ Changes(f, [drive[f] EXCEPT !.is = "trashed"])
    /\ row' = [row EXCEPT ![f].steps = TRUE]
    /\ base' = [base EXCEPT ![f].steps = TRUE]
    /\ UNCHANGED <<token, scan, boundVars>>

-----------------------------------------------------------------------------
(* ScannerService *)

\* A source without a token is listed in full whatever was asked for.
FirstStep(full) ==
    IF full \/ token = NoToken THEN AtScan("list", TRUE, {i \in Items : Live(i)}, 0)
                               ELSE AtScan("changes", FALSE, {}, token)

StartsScan(full) ==
    /\ scan.pc = "idle"
    /\ scans < MaxScans
    /\ scans' = scans + 1
    /\ scan' = FirstStep(full)
    /\ UNCHANGED <<driveVars, row, base, token, aborts>>

\* The upserts: the row as the provider has it, its steps left alone; they clear
\* "trashed" and all that was resolved before.
FileUpsert(f, parent, folder) ==
    [ver |-> Version(f), parent |-> parent, folder |-> folder, steps |-> row[f].steps]

FolderUpsert(d, parent, folder) ==
    [ver |-> Version(d), parent |-> parent, folder |-> folder, steps |-> FALSE]

\* An item is saved with its parent's provider id, and no parent folder yet.
Ingested_KeepsFolder(i) == [row[i] EXCEPT !.ver = Version(i), !.parent = drive[i].at]
Ingested(i) ==
    IF i \in Folders THEN FolderUpsert(i, drive[i].at, Root) ELSE FileUpsert(i, drive[i].at, Root)

WithoutFile(f) == [row EXCEPT ![f] = NoRow]

\* Deleting a folder's row takes along the rows whose parent_folder_id leads to it.
WithoutFolder(d) ==
    [o \in Items |->
        IF \/ o = d
           \/ row[o].folder = d
           \/ row[o].folder # Root /\ row[row[o].folder].folder = d
        THEN NoRow ELSE row[o]]

\* A removal names no kind: both tables are tried, one of them has the item.
RemoveItem(i) == IF i \in Folders THEN WithoutFolder(i) ELSE WithoutFile(i)

\* A commit may fall after any item.
MayCommit == base' = row' \/ UNCHANGED base

\* What is no longer live is not in the page: "trashed = false".
ListsItem(i) ==
    /\ scan.pc = "list"
    /\ i \in scan.left
    /\ row' = IF Live(i) THEN [row EXCEPT ![i] = Ingested(i)] ELSE row
    /\ MayCommit
    /\ scan' = [scan EXCEPT !.left = @ \ {i}]
    /\ UNCHANGED <<driveVars, token, boundVars>>

EndsListing ==
    /\ scan.pc = "list" /\ scan.left = {}
    /\ base' = row
    /\ scan' = [scan EXCEPT !.pc = "folders"]
    /\ UNCHANGED <<driveVars, row, token, boundVars>>

\* A change shows what its item is by now: live, trashed, or removed. One that was
\* superseded may be left out of the pages.
TakesChange ==
    /\ scan.pc = "changes" /\ scan.at < Len(log)
    /\ LET i == log[scan.at + 1]
       IN  \/ row' = IF Live(i) THEN [row EXCEPT ![i] = Ingested(i)] ELSE RemoveItem(i)
           \/ Version(i) > scan.at + 1 /\ UNCHANGED row
    /\ MayCommit
    /\ scan' = [scan EXCEPT !.at = @ + 1]
    /\ UNCHANGED <<driveVars, token, boundVars>>

\* The last page carries the next token; the hierarchy is resolved if anything
\* was touched.
EndsChanges ==
    /\ scan.pc = "changes" /\ scan.at = Len(log)
    /\ base' = row
    /\ scan' = [scan EXCEPT !.pc = IF scan.at > token THEN "folders" ELSE "token"]
    /\ UNCHANGED <<driveVars, row, token, boundVars>>

\* The row an item's parent_folder_id is to refer to.
ParentRow(i) == IF row[i].parent # Root /\ row[row[i].parent] # NoRow THEN row[i].parent ELSE Root

Resolved(these) ==
    [i \in Items |-> IF i \in these /\ row[i] # NoRow THEN [row[i] EXCEPT !.folder = ParentRow(i)]
                     ELSE row[i]]

ResolvesFolders ==
    /\ scan.pc = "folders"
    /\ row' = Resolved(Folders) /\ base' = row'
    /\ scan' = [scan EXCEPT !.pc = "files"]
    /\ UNCHANGED <<driveVars, token, boundVars>>

ResolvesFiles ==
    /\ scan.pc = "files"
    /\ row' = Resolved(Files) /\ base' = row'
    /\ scan' = [scan EXCEPT !.pc = "token"]
    /\ UNCHANGED <<driveVars, token, boundVars>>

\* A full scan asks for the start token now; an incremental one was given its own.
NextToken == IF scan.full THEN Len(log) ELSE scan.at

SavesToken ==
    /\ scan.pc = "token"
    /\ token' = NextToken
    /\ scan' = Idle
    /\ UNCHANGED <<driveVars, row, base, boundVars>>

\* Cancellation is looked for before each page, and commits what was ingested.
Cancelled ==
    /\ scan.pc \in {"list", "changes"}
    /\ aborts < MaxAborts
    /\ aborts' = aborts + 1
    /\ base' = row
    /\ scan' = Idle
    /\ UNCHANGED <<driveVars, row, token, scans>>

\* Drive is unreachable, a call raises, or the worker dies: what was not
\* committed is undone, and the job is failed, or run again from the start.
CutShort(again) ==
    /\ scan.pc # "idle"
    /\ aborts < MaxAborts
    /\ aborts' = aborts + 1
    /\ row' = base
    /\ scan' = IF again THEN FirstStep(scan.full) ELSE Idle
    /\ UNCHANGED <<driveVars, base, token, scans>>

-----------------------------------------------------------------------------

ScanStep ==
    \/ \E i \in Items : ListsItem(i)
    \/ EndsListing \/ TakesChange \/ EndsChanges
    \/ ResolvesFolders \/ ResolvesFiles \/ SavesToken

Next ==
    \/ \E i \in Items, place \in Places : UserSaves(i, place)
    \/ \E i \in Items, how \in {"trashed", "gone"} : UserRemoves(i, how)
    \/ \E f \in Files : EngineTrashes(f)
    \/ \E b \in BOOLEAN : StartsScan(b) \/ CutShort(b)
    \/ ScanStep \/ Cancelled

Spec == Init /\ [][Next]_vars

-----------------------------------------------------------------------------
(* Properties *)

\* The committed row of an item is what the item is.
Reflects(i) ==
    IF Live(i) THEN base[i].ver = Version(i) /\ base[i].parent = drive[i].at
               ELSE base[i] = NoRow

\* The source's token never runs ahead of its rows: what is live, and did not
\* change after the token, has its row as of its last change. (Only if Drive
\* stands still during a full scan: that asks for its token after its listing.)
NothingMissed ==
    token # NoToken => \A i \in Items : Live(i) /\ Version(i) <= token => Reflects(i)

\* An incremental scan that saves its token has brought up to date, whatever it
\* was preceded by, each item that changed since the old token, removals and
\* all, but for those that have changed again.
CaughtUp ==
    ~ scan.full =>
        \A i \in Items : token < LastChange(i, scan.at) /\ Version(i) <= scan.at => Reflects(i)

\* A scan that resolved the hierarchy leaves each committed row under the row of
\* its parent, if there is one, with no placeholder of its own or of an earlier
\* scan that was cut short.
NoPlaceholder ==
    scan.full \/ scan.at > token =>
        \A i \in Items : base'[i] # NoRow =>
            base'[i].folder = IF base'[i].parent # Root /\ base'[base'[i].parent] # NoRow
                              THEN base'[i].parent ELSE Root

\* What a trashing left to undo it by stays: the row of a trashed file is
\* "deliberately NOT deleted".
TrailKept == [][\A f \in Files : base[f].steps => base'[f].steps]_vars
=============================================================================
