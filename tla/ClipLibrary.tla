---------------------------- MODULE ClipLibrary ----------------------------
(* The clip library of the desktop process (crates/clip-library): completed   *)
(* files in the output directory, the JSON catalog that indexes them, and the *)
(* one worker thread that answers scan, rename, delete, protect and policy    *)
(* requests. The catalog is written with a temporary file and a rename, so a  *)
(* write happens or does not; the requests that touch both a file and the     *)
(* catalog take several steps, and the process may die between any two.       *)
(*                                                                            *)
(* A clip is the number of its recording: a larger number is a younger file.  *)
(* Every clip weighs one unit of quota. Names stand for whole file names;     *)
(* SweptNames are those is_temporary_file takes for left-overs.               *)
EXTENDS Naturals, FiniteSets, Functions

CONSTANTS Dirs, Names, SweptNames, NoClip, NoQuota, MaxClips, Quotas,
    MaxFaults   \* bound on failed writes, crashes and removals behind the library's back

ASSUME LibraryAssumption ==
    /\ IsFiniteSet(Dirs) /\ IsFiniteSet(Names) /\ SweptNames \subseteq Names
    /\ MaxClips \in Nat /\ MaxFaults \in Nat
    /\ NoClip \notin 1..MaxClips
    /\ Quotas \subseteq Nat \cup {NoQuota}

VARIABLES
    files,      \* what each place of the disk holds
    staged,     \* files renamed away by a delete and not removed yet
    rows,       \* the worker's index rows, by place
    catalog,    \* the rows of the last catalog written
    outputDir,  \* the directory the worker manages
    quota,      \* the quota of the storage policy, NoQuota without deletion
    job,        \* the request the worker is in, and how far
    blame,      \* who asked for a clip to go (history)
    pinned,     \* clips the user was told are protected (history)
    unsure,     \* pinned clips whose flag was lost for a known cause (history)
    faults      \* how many of MaxFaults happened

libraryVars ==
    <<files, staged, rows, catalog, outputDir, quota, job, blame, pinned, unsure, faults>>
requestVars == <<outputDir, quota>>

Clips == 1..MaxClips
Places == Dirs \X Names
InDir(d) == {p \in Places : p[1] = d}
Rows == [age : Clips, missing : BOOLEAN, protected : BOOLEAN]
NoRows == [p \in {} |-> [age |-> 1, missing |-> FALSE, protected |-> FALSE]]
NewRow(c) == [age |-> c, missing |-> FALSE, protected |-> FALSE]
Without(table, p) == Restrict(table, DOMAIN table \ {p})
Over(upper, lower) ==
    [p \in DOMAIN upper \cup DOMAIN lower |-> IF p \in DOMAIN upper THEN upper[p] ELSE lower[p]]
With(table, p, row) == Over([q \in {p} |-> row], table)

Fault == faults < MaxFaults /\ faults' = faults + 1
Sound == UNCHANGED faults

Idle == [step |-> "idle", scanned |-> FALSE, freed |-> {}]
Down == [step |-> "down"]

LibraryInit ==
    /\ files = [p \in Places |-> NoClip]
    /\ staged = {}
    /\ rows = NoRows
    /\ catalog = NoRows
    /\ outputDir \in Dirs
    /\ quota \in Quotas
    /\ job = Idle
    /\ blame = [c \in Clips |-> "unsaved"]
    /\ pinned = {}
    /\ unsure = {}
    /\ faults = 0

(* What a scan makes of the rows: files gone are marked, files found are      *)
(* added unprotected, and a directory that is not there marks every row.      *)
Marked(found) ==
    [p \in DOMAIN rows |-> [rows[p] EXCEPT !.missing = ~found \/ files[p] = NoClip]]
Discovered == [p \in {q \in InDir(outputDir) : files[q] # NoClip} |-> NewRow(files[p])]
AlwaysAnew(found) == IF found THEN Over(Discovered, Marked(TRUE)) ELSE Marked(FALSE)
Reconciled(found) == IF found THEN Over(Marked(TRUE), Discovered) ELSE Marked(FALSE)

Present == {p \in DOMAIN rows : ~rows[p].missing}
Eligible == {p \in Present : ~rows[p].protected}
(* A clip under a name the sweep removes is as good as asked to go.           *)
BlameAt(p) == IF p[2] \in SweptNames THEN "temporary name" ELSE "none"
Victims == {p \in Eligible : \A q \in Eligible : rows[p].age <= rows[q].age}
OverQuota == quota # NoQuota /\ Cardinality(Present) > quota

--------------------------------------------------------------------------------
(* The world around the worker: the save worker publishes a clip under a name *)
(* nothing uses (names carry the time of the save), and the user removes      *)
(* files behind the library's back.                                           *)
InJob == {job[f] : f \in {"place", "from", "to"} \cap DOMAIN job}

PublishClip(p) ==
    /\ Sound
    /\ p[2] \notin SweptNames
    /\ files[p] = NoClip /\ p \notin DOMAIN rows \cup DOMAIN catalog \cup InJob
    /\ \E c \in Clips :
        /\ blame[c] = "unsaved" /\ \A b \in Clips : b < c => blame[b] # "unsaved"
        /\ files' = [files EXCEPT ![p] = c]
        /\ blame' = [blame EXCEPT ![c] = "none"]
    /\ UNCHANGED <<staged, rows, catalog, requestVars, job, pinned, unsure>>

RemovedOutside(p) ==
    /\ Fault
    /\ files[p] # NoClip
    /\ files' = [files EXCEPT ![p] = NoClip]
    /\ blame' = [blame EXCEPT ![files[p]] = "outside"]
    /\ UNCHANGED <<staged, rows, catalog, requestVars, job, pinned, unsure>>

--------------------------------------------------------------------------------
(* scan: reconcile, write the catalog, then enforce the quota.                *)
ScanBegin ==
    /\ job.step = "idle"
    /\ \/ rows' = Reconciled(TRUE) /\ Sound
       \/ rows' = Reconciled(FALSE) /\ Fault
    /\ job' = [step |-> "scan_save"]
    /\ UNCHANGED <<files, staged, catalog, requestVars, blame, pinned, unsure>>

ScanFails ==
    /\ Fault
    /\ job.step = "idle"
    /\ rows' \in {rows, Marked(TRUE)}
    /\ job' = Idle
    /\ UNCHANGED <<files, staged, catalog, requestVars, blame, pinned, unsure>>

ScanSave ==
    /\ job.step = "scan_save"
    /\ \/ catalog' = rows /\ job' = [step |-> "enforce", freed |-> {}] /\ Sound
       \/ UNCHANGED catalog /\ job' = Idle /\ Fault
    /\ UNCHANGED <<files, staged, rows, requestVars, blame, pinned, unsure>>

ScanEnd ==
    /\ Sound
    /\ job.step = "enforce" /\ ~(OverQuota /\ Eligible # {})
    /\ job' = [step |-> "idle", scanned |-> TRUE, freed |-> job.freed]
    /\ UNCHANGED <<files, staged, rows, catalog, requestVars, blame, pinned, unsure>>

(* delete: a row whose file is gone is dropped; otherwise the file is staged  *)
(* under another name, the row dropped, the catalog written, the file removed.*)
DeleteBegin(p, auto, freed) ==
    LET missing == rows[p].missing \/ files[p] = NoClip
        clip == files[p]
    IN  /\ rows' = Without(rows, p)
        /\ job' = [step |-> "delete_save", place |-> p, row |-> rows[p], auto |-> auto,
                   clip |-> IF missing THEN NoClip ELSE clip, freed |-> freed]
        /\ IF missing
           THEN /\ unsure' = unsure \cup (pinned \cap {clip})
                /\ UNCHANGED <<files, staged, blame>>
           ELSE /\ files' = [files EXCEPT ![p] = NoClip]
                /\ staged' = staged \cup {[clip |-> clip, dir |-> p[1]]}
                /\ blame' = [blame EXCEPT ![clip] = IF auto THEN "quota" ELSE "user"]
                /\ UNCHANGED unsure
        /\ UNCHANGED <<catalog, requestVars, pinned>>

Delete(p) ==
    /\ Sound
    /\ job.step = "idle" /\ p \in DOMAIN rows
    /\ DeleteBegin(p, FALSE, {})

Evict(p) ==
    /\ Sound
    /\ job.step = "enforce" /\ OverQuota /\ p \in Victims
    /\ DeleteBegin(p, TRUE, job.freed \cup {rows[p].age})

(* The file could not be staged: nothing changed, and a scan gives up.        *)
StagingFails ==
    /\ Fault
    /\ job.step = "enforce" /\ OverQuota /\ Victims # {}
    /\ job' = Idle
    /\ UNCHANGED <<files, staged, rows, catalog, requestVars, blame, pinned, unsure>>

AfterDelete == IF job.auto THEN [step |-> "enforce", freed |-> job.freed] ELSE Idle

DeleteSaved ==
    /\ Sound
    /\ job.step = "delete_save"
    /\ catalog' = rows
    /\ job' = IF job.clip = NoClip THEN AfterDelete ELSE [job EXCEPT !.step = "delete_unlink"]
    /\ UNCHANGED <<files, staged, rows, requestVars, blame, pinned, unsure>>

DeleteSaveFails ==
    /\ Fault
    /\ job.step = "delete_save"
    /\ job' = Idle
    /\ IF job.clip = NoClip
       THEN UNCHANGED <<files, staged, rows, blame>>
       ELSE /\ rows' = With(rows, job.place, job.row)
            /\ \/ /\ files' = [files EXCEPT ![job.place] = job.clip]
                  /\ staged' = {s \in staged : s.clip # job.clip}
                  /\ blame' = [blame EXCEPT ![job.clip] = BlameAt(job.place)]
               \/ UNCHANGED <<files, staged, blame>>
    /\ UNCHANGED <<catalog, requestVars, pinned, unsure>>

DeleteUnlink ==
    /\ job.step = "delete_unlink"
    /\ \/ staged' = {s \in staged : s.clip # job.clip} /\ job' = AfterDelete /\ Sound
       \/ UNCHANGED staged /\ job' = Idle /\ Fault
    /\ UNCHANGED <<files, rows, catalog, requestVars, blame, pinned, unsure>>

--------------------------------------------------------------------------------
(* rename: the file first, then the row and the catalog; a catalog that cannot *)
(* be written takes the name back, which may fail as well.                    *)
CanReplace(from, to) ==
    /\ from \in DOMAIN rows /\ ~rows[from].missing /\ files[from] # NoClip
    /\ to[1] = from[1] /\ to # from
CanRename(from, to) ==
    /\ from \in DOMAIN rows /\ ~rows[from].missing /\ files[from] # NoClip
    /\ to[1] = from[1] /\ to # from
    /\ files[to] = NoClip /\ to \notin DOMAIN rows

RenameBegin(from, to) ==
    /\ Sound
    /\ job.step = "idle"
    /\ CanRename(from, to)
    /\ files' = [files EXCEPT ![to] = files[from], ![from] = NoClip]
    /\ rows' = With(Without(rows, from), to, rows[from])
    /\ blame' = [blame EXCEPT ![files[from]] = BlameAt(to)]
    /\ job' = [step |-> "rename_save", from |-> from, to |-> to]
    /\ UNCHANGED <<staged, catalog, requestVars, pinned, unsure>>

RenameSaved ==
    /\ Sound
    /\ job.step = "rename_save"
    /\ catalog' = rows
    /\ job' = Idle
    /\ UNCHANGED <<files, staged, rows, requestVars, blame, pinned, unsure>>

RenameSaveFails ==
    /\ Fault
    /\ job.step = "rename_save"
    /\ rows' = With(Without(rows, job.to), job.from, rows[job.to])
    /\ job' = Idle
    /\ \/ /\ files[job.to] # NoClip
          /\ files' = [files EXCEPT ![job.from] = files[job.to], ![job.to] = NoClip]
          /\ blame' = [blame EXCEPT ![files[job.to]] = BlameAt(job.from)]
          /\ UNCHANGED unsure
       \/ /\ unsure' = unsure \cup (pinned \cap {files[job.to]})
          /\ UNCHANGED <<files, blame>>
    /\ UNCHANGED <<staged, catalog, requestVars, pinned>>

(* set_protected: the row changes before the catalog is written and stays     *)
(* changed when it cannot be.                                                 *)
ProtectBegin(p, on) ==
    /\ Sound
    /\ job.step = "idle" /\ p \in DOMAIN rows
    /\ rows[p].missing \/ files[p] # NoClip
    /\ rows' = [rows EXCEPT ![p].protected = on]
    /\ job' = [step |-> "protect_save", place |-> p, on |-> on]
    /\ UNCHANGED <<files, staged, catalog, requestVars, blame, pinned, unsure>>

ProtectSaved ==
    /\ Sound
    /\ job.step = "protect_save"
    /\ catalog' = rows
    /\ LET clip == {files[job.place]} \ {NoClip}
       IN  /\ pinned' = IF job.on THEN pinned \cup clip ELSE pinned \ clip
           /\ unsure' = unsure \ clip
    /\ job' = Idle
    /\ UNCHANGED <<files, staged, rows, requestVars, blame>>

ProtectSaveFails ==
    /\ Fault
    /\ job.step = "protect_save"
    /\ unsure' = IF job.on THEN unsure ELSE unsure \cup (pinned \cap {files[job.place]})
    /\ job' = Idle
    /\ UNCHANGED <<files, staged, rows, catalog, requestVars, blame, pinned>>

--------------------------------------------------------------------------------
(* The two requests that follow a change of settings: neither scans nor saves. *)
SetOutputDirectory(d) ==
    /\ Sound
    /\ job.step = "idle"
    /\ outputDir' = d
    /\ rows' = Restrict(rows, DOMAIN rows \cap InDir(d))
    /\ unsure' = unsure \cup (pinned \cap {files[p] : p \in DOMAIN rows \ InDir(d)})
    /\ job' = Idle
    /\ UNCHANGED <<files, staged, catalog, quota, blame, pinned>>

SetStoragePolicy(q) ==
    /\ Sound
    /\ job.step = "idle"
    /\ quota' = q
    /\ job' = Idle
    /\ UNCHANGED <<files, staged, rows, catalog, outputDir, blame, pinned, unsure>>

(* The process ends at any point; the next one sweeps the directory it manages *)
(* and reads the catalog, an unreadable one as empty.                         *)
Crash ==
    /\ Fault
    /\ job.step # "down"
    /\ job' = Down
    /\ rows' = NoRows
    /\ unsure' = IF job.step = "rename_save"
                 THEN unsure \cup (pinned \cap {files[job.to]}) ELSE unsure
    /\ UNCHANGED <<files, staged, catalog, requestVars, blame, pinned>>

Swept(d) == {p \in InDir(d) : p[2] \in SweptNames}

LibraryOpen(d) ==
    /\ job' = Idle
    /\ files' = [p \in Places |-> IF p \in Swept(d) THEN NoClip ELSE files[p]]
    /\ staged' = {s \in staged : s.dir # d}
    /\ \E readable \in BOOLEAN :
        /\ IF readable THEN Sound ELSE Fault
        /\ rows' = IF readable THEN Restrict(catalog, DOMAIN catalog \cap InDir(d)) ELSE NoRows
        /\ unsure' = unsure \cup IF readable
                                THEN pinned \cap {files[p] : p \in DOMAIN catalog \ InDir(d)}
                                ELSE pinned
    /\ UNCHANGED <<catalog, blame, pinned>>

--------------------------------------------------------------------------------
(* What the worker does of its own; ShellSettings adds who asks for it, and   *)
(* when the process starts and dies.                                          *)
LibraryRequest ==
    \/ ScanBegin \/ ScanFails \/ ScanSave \/ ScanEnd
    \/ \E p \in Places : Delete(p) \/ Evict(p)
    \/ StagingFails \/ DeleteSaved \/ DeleteSaveFails \/ DeleteUnlink
    \/ \E p, q \in Places : RenameBegin(p, q)
    \/ RenameSaved \/ RenameSaveFails
    \/ \E p \in Places, on \in BOOLEAN : ProtectBegin(p, on)
    \/ ProtectSaved \/ ProtectSaveFails

--------------------------------------------------------------------------------
LibraryTypeOK ==
    /\ files \in [Places -> Clips \cup {NoClip}]
    /\ staged \subseteq [clip : Clips, dir : Dirs]
    /\ \A table \in {rows, catalog} :
        DOMAIN table \subseteq Places /\ \A p \in DOMAIN table : table[p] \in Rows
    /\ outputDir \in Dirs /\ quota \in Quotas
    /\ job.step \in {"idle", "down", "scan_save", "enforce", "delete_save",
                     "delete_unlink", "rename_save", "protect_save"}
    /\ blame \in [Clips -> {"unsaved", "none", "user", "quota", "outside", "temporary name"}]
    /\ pinned \subseteq Clips /\ unsure \subseteq Clips
    /\ faults \in 0..MaxFaults

(* A completed clip goes only when somebody asked for it: the user, the quota, *)
(* a hand outside, or a new name the start-up sweep takes for a left-over.    *)
(* Renames, failed writes, their roll-backs and crashes in between leave one  *)
(* copy of every other clip on the disk (lib.rs: media files are the truth).  *)
NothingLost ==
    \A c \in Clips : blame[c] = "none" =>
        Cardinality({p \in Places : files[p] = c}) + Cardinality({s \in staged : s.clip = c}) = 1

(* A clip the user was told is protected is not deleted for the quota, through *)
(* renames, crashes and restarts, unless its flag was lost by one of the      *)
(* causes unsure records (threading.md: protected rows are excluded).         *)
ProtectedNeverEvicted ==
    \A c \in Clips : blame[c] = "quota" => c \notin pinned \ unsure

(* A scan that succeeds has met the quota or left nothing that may go, took   *)
(* the oldest unprotected clips and no more of them than it had to.           *)
QuotaMet ==
    job.step = "idle" /\ job.scanned /\ quota # NoQuota =>
        /\ OverQuota => Eligible = {}
        /\ \A a \in job.freed, p \in Eligible : a <= rows[p].age
        /\ job.freed # {} => Cardinality(Present) >= quota

(* Both: the quota takes what it must and never what the user protected.      *)
QuotaSound == ProtectedNeverEvicted /\ QuotaMet
=============================================================================
