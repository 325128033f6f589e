--------------------------- MODULE DesktopProofs ---------------------------
(* What is proved of the desktop process around the recorder: of the shell's  *)
(* settings with the clip library behind them, of the capture session, of the *)
(* replacement of a failed encoder, of the asynchronous transform, of the     *)
(* overlay, of the hotkeys and of the planner of an export.                   *)
EXTENDS ShellSettings, CaptureSession, EncoderFallback, VideoTransform, NativeHud, Hotkeys,
        ExportPlan, FunctionTheorems, FiniteSetTheorems, SequenceTheorems, WellFoundedInduction,
        TLAPS

-----------------------------------------------------------------------------
(* The shell's settings and the clip library                              *)

(* The requests of the library worker, by how far they are.                   *)
JobTyped ==
    /\ job.step \in {"idle", "down", "scan_save", "enforce", "delete_save", "delete_unlink",
                     "rename_save", "protect_save"}
    /\ job.step = "down" => job = Down
    /\ job.step = "idle" => job.scanned \in BOOLEAN
    /\ job.step \in {"idle", "enforce", "delete_save", "delete_unlink"} => job.freed \subseteq Clips
    /\ job.step \in {"delete_save", "delete_unlink"} =>
        /\ {"place", "row", "auto", "clip", "freed"} \subseteq DOMAIN job
        /\ job.row \in Rows /\ job.auto \in BOOLEAN /\ job.clip \in Clips \cup {NoClip}
    /\ job.step \in {"delete_save", "delete_unlink", "protect_save"} =>
        "place" \in DOMAIN job /\ job.place \in Places
    /\ job.step = "protect_save" => job.on \in BOOLEAN
    /\ job.step = "rename_save" =>
        {"from", "to"} \subseteq DOMAIN job /\ job.from \in Places /\ job.to \in Places

Table(table) == DOMAIN table \subseteq Places /\ \A p \in DOMAIN table : table[p] \in Rows

Disk ==
    /\ files \in [Places -> Clips \cup {NoClip}]
    /\ staged \subseteq [clip : Clips, dir : Dirs]
    /\ outputDir \in Dirs /\ quota \in Quotas
    /\ blame \in [Clips -> {"unsaved", "none", "user", "quota", "outside", "temporary name"}]
    /\ pinned \subseteq Clips /\ unsure \subseteq Clips
Tables == Table(rows) /\ Table(catalog)

(* Where the clips are: each in one place or staged, never both, and blamed   *)
(* on nobody while it lies under a name the sweep spares.                     *)
Placed ==
    /\ \A p, q \in Places : files[p] = files[q] /\ files[p] # NoClip => p = q
    /\ \A p \in Places : files[p] # NoClip =>
        /\ \A s \in staged : s.clip # files[p]
        /\ blame[files[p]] = BlameAt(p)
    /\ \A c \in Clips : blame[c] = "none" => \E p \in Places : files[p] = c
    /\ \A s \in staged : blame[s.clip] # "unsaved"

(* What a request has in its hands is still as it left it.                    *)
InHand ==
    /\ job.step = "delete_save" /\ job.clip # NoClip =>
        /\ files[job.place] = NoClip
        /\ \E s \in staged : s.clip = job.clip
    /\ job.step = "rename_save" =>
        /\ job.from # job.to /\ files[job.from] = NoClip
        /\ job.to \in DOMAIN rows
    /\ job.step = "protect_save" =>
        job.place \in DOMAIN rows /\ rows[job.place].protected = job.on

(* A clip that is pinned, and whose flag was not lost, is protected wherever  *)
(* its row is: in the index, in the catalog that the next process reads, and  *)
(* in the hands of a delete that may yet put it back.                         *)
Guarded(table, p) == p \in DOMAIN table /\ table[p].protected
Flagged(c) ==
    /\ blame[c] # "quota"
    /\ \A p \in Places : files[p] = c =>
        /\ job.step # "down" =>
            Guarded(rows, p) \/ (job.step = "protect_save" /\ job.place = p)
        /\ IF job.step = "rename_save" /\ job.to = p THEN Guarded(catalog, job.from)
           ELSE Guarded(catalog, p)
    /\ job.step = "delete_save" /\ job.clip = c => job.row.protected /\ Guarded(catalog, job.place)
Flags ==
    /\ \A c \in pinned : blame[c] # "unsaved"
    /\ \A c \in pinned \ unsure : Flagged(c)

(* What a scan has freed is older than what it leaves, and was too much.      *)
Trimmed(freed) ==
    freed # {} =>
        /\ quota # NoQuota /\ Cardinality(Present) >= quota
        /\ \A a \in freed, p \in Eligible : a <= rows[p].age
Trims ==
    /\ job.step \in {"idle", "enforce", "delete_save", "delete_unlink"} => Trimmed(job.freed)
    /\ job.step = "idle" /\ job.scanned => (OverQuota => Eligible = {})

(* What a change of settings has done so far, and what it has taken back.     *)
KeysFollow(doc) == bound = doc.keys
RecorderKept == "recorder" \in torn \/ recorder = stored
KeysKept == "keys" \in torn \/ bound \in {stored.keys, NoManager}
LibraryFollows(doc) == LibraryUp => outputDir = doc.dir /\ quota = doc.quota
FileKept == "config" \in torn \/ config = stored \/ (config = NoFile /\ stored = DefaultDocument)
Forward(done) ==
    /\ bound = change.next.keys
    /\ IF "recorder" \in done THEN recorder = change.next ELSE RecorderKept
    /\ LibraryUp => outputDir = (IF "dir" \in done THEN change.next ELSE stored).dir
    /\ LibraryUp => quota = (IF "quota" \in done THEN change.next ELSE stored).quota
    /\ IF "file" \in done THEN config = change.next ELSE FileKept

Halfway ==
    /\ change.step = "idle" => RecorderKept /\ KeysKept /\ LibraryFollows(stored) /\ FileKept
    /\ change.step = "recorder" => Forward({})
    /\ change.step = "directory" => Forward({"recorder"})
    /\ change.step = "policy" => Forward({"recorder", "dir"})
    /\ change.step = "persist" => Forward({"recorder", "dir", "quota"})
    /\ change.step = "adopt" => Forward({"recorder", "dir", "quota", "file"})
    /\ change.step = "undo_directory" => FileKept
    /\ change.step = "undo_policy" => FileKept /\ (LibraryUp => outputDir = stored.dir)
    /\ change.step = "undo_recorder" => FileKept /\ LibraryFollows(stored)
    /\ change.step = "undo_keys" => FileKept /\ LibraryFollows(stored) /\ RecorderKept
    /\ change.step = "starting" => RecorderKept /\ KeysKept /\ FileKept

LibraryInv == Disk /\ Tables /\ JobTyped /\ Placed /\ InHand /\ Flags /\ Trims

(* A row put into a table, over the one that was there.                       *)
LEMMA RowPut ==
    ASSUME NEW table, NEW p, NEW row
    PROVE  /\ DOMAIN With(table, p, row) = DOMAIN table \cup {p}
           /\ With(table, p, row)[p] = row
           /\ \A q \in DOMAIN table \ {p} : With(table, p, row)[q] = table[q]
  BY DEF With, Over

(* A row taken out of a table.                                                *)
LEMMA RowTaken ==
    ASSUME NEW table, NEW p
    PROVE  /\ DOMAIN Without(table, p) = DOMAIN table \ {p}
           /\ \A q \in DOMAIN table \ {p} : Without(table, p)[q] = table[q]
  BY DEF Without, Restrict

(* A scan that only looks again marks rows and keeps their flags.             *)
LEMMA Marking ==
    ASSUME LibraryInv, NEW found \in BOOLEAN
    PROVE  /\ Table(Marked(found)) /\ DOMAIN Marked(found) = DOMAIN rows
           /\ \A q \in DOMAIN rows : Marked(found)[q].protected = rows[q].protected
  <1>1. ASSUME NEW q \in DOMAIN rows
        PROVE  Marked(found)[q] \in Rows /\ Marked(found)[q].protected = rows[q].protected
    <2> DEFINE missing == ~found \/ files[q] = NoClip
    <2>1. rows[q] \in Rows /\ missing \in BOOLEAN
      BY DEF LibraryInv, Tables, Table
    <2>2. Marked(found)[q] = [rows[q] EXCEPT !.missing = missing]
      BY DEF Marked
    <2> QED  BY <2>1, <2>2 DEF Rows
  <1> QED  BY <1>1 DEF LibraryInv, Tables, Table, Marked

(* A scan keeps every row with its flag and adds rows for the files it finds. *)
LEMMA Reconciling ==
    ASSUME LibraryInv, NEW found \in BOOLEAN
    PROVE  /\ Table(Reconciled(found)) /\ DOMAIN rows \subseteq DOMAIN Reconciled(found)
           /\ \A q \in DOMAIN rows : Reconciled(found)[q].protected = rows[q].protected
  <1>1. Table(Discovered)
    BY DEF LibraryInv, Disk, Discovered, Table, InDir, NewRow, Rows
  <1>2. CASE ~found
    BY <1>2, Marking DEF Reconciled
  <1>3. CASE found
    <2> DEFINE old == Marked(TRUE)
               all == Over(old, Discovered)
    <2>1. Reconciled(found) = all
      BY <1>3 DEF Reconciled
    <2>2. /\ Table(old) /\ DOMAIN old = DOMAIN rows
          /\ \A q \in DOMAIN rows : old[q].protected = rows[q].protected
      BY Marking
    <2> HIDE DEF old
    <2>3. /\ DOMAIN all = DOMAIN old \cup DOMAIN Discovered
          /\ \A q \in DOMAIN all : all[q] = IF q \in DOMAIN old THEN old[q] ELSE Discovered[q]
      BY DEF Over
    <2> HIDE DEF all
    <2> QED  BY <2>1, <2>2, <2>3, <1>1 DEF Table
  <1> QED  BY <1>2, <1>3

(* There are finitely many rows.                                              *)
LEMMA PresentFinite ==
    ASSUME LibraryInv
    PROVE  IsFiniteSet(Present)
  <1>1. IsFiniteSet(Places)
    BY LibraryAssumption, FS_Product DEF Places
  <1>2. Present \subseteq Places
    BY DEF LibraryInv, Tables, Table, Present
  <1> QED  BY <1>1, <1>2, FS_Subset

(* PublishClip keeps the invariant. *)
LEMMA PublishClipKeeps ==
    ASSUME LibraryInv, NEW p \in Places, PublishClip(p)
    PROVE  LibraryInv'
  <1>a. PICK c \in Clips : /\ blame[c] = "unsaved"
                          /\ files' = [files EXCEPT ![p] = c]
                          /\ blame' = [blame EXCEPT ![c] = "none"]
    BY DEF PublishClip
  <1>b. /\ files[p] = NoClip /\ p[2] \notin SweptNames
        /\ p \notin DOMAIN rows /\ p \notin DOMAIN catalog /\ p \notin InJob
        /\ UNCHANGED <<staged, rows, catalog, outputDir, quota, job, pinned, unsure>>
    BY DEF PublishClip, requestVars
  <1>c. /\ files \in [Places -> Clips \cup {NoClip}] /\ c # NoClip
        /\ files'[p] = c /\ \A q \in Places \ {p} : files'[q] = files[q]
        /\ blame'[c] = "none" /\ \A b \in Clips \ {c} : blame'[b] = blame[b]
    BY <1>a, LibraryAssumption DEF LibraryInv, Disk, Clips
  <1>d. /\ \A q \in Places : files[q] # c
        /\ \A s \in staged : s.clip # c
        /\ c \notin pinned
    <2>1. ASSUME NEW q \in Places, files[q] = c  PROVE  FALSE
      <3>1. blame[c] = BlameAt(q)
        BY <2>1, <1>c DEF LibraryInv, Placed
      <3> QED  BY <3>1, <1>a DEF BlameAt
    <2>2. \A s \in staged : s.clip # c
      BY <1>a DEF LibraryInv, Placed
    <2>3. c \notin pinned
      BY <1>a DEF LibraryInv, Flags
    <2> QED  BY <2>1, <2>2, <2>3
  <1>1. Disk'
    BY <1>a, <1>b, <1>c DEF LibraryInv, Disk
  <1>2. Tables'
    BY <1>b DEF LibraryInv, Tables
  <1>3. JobTyped'
    BY <1>b DEF LibraryInv, JobTyped
  <1>4. Placed'
    <2>1. \A q, r \in Places : files'[q] = files'[r] /\ files'[q] # NoClip => q = r
      BY <1>c, <1>d DEF LibraryInv, Placed
    <2>2. ASSUME NEW q \in Places, files'[q] # NoClip
          PROVE  (\A s \in staged' : s.clip # files'[q]) /\ blame'[files'[q]] = BlameAt(q)
      <3>1. CASE q = p
        BY <3>1, <1>b, <1>c, <1>d DEF BlameAt
      <3>2. CASE q # p
        BY <2>2, <3>2, <1>b, <1>c, <1>d DEF LibraryInv, Placed
      <3> QED  BY <3>1, <3>2
    <2>3. \A b \in Clips : blame'[b] = "none" => \E q \in Places : files'[q] = b
      <3> SUFFICES ASSUME NEW b \in Clips, blame'[b] = "none", b # c
                   PROVE  \E q \in Places : files'[q] = b
        BY <1>c
      <3>1. PICK q \in Places : files[q] = b
        BY <1>c DEF LibraryInv, Placed
      <3>2. q # p
        BY <3>1, <1>b, LibraryAssumption DEF Clips
      <3> QED  BY <3>1, <3>2, <1>c
    <2>4. \A s \in staged' : blame'[s.clip] # "unsaved"
      BY <1>b, <1>c, <1>d DEF LibraryInv, Disk, Placed
    <2> QED  BY <2>1, <2>2, <2>3, <2>4, <1>b DEF Placed, BlameAt
  <1>5. InHand'
    <2>1. job.step \in {"delete_save", "rename_save"} =>
            /\ job.step = "delete_save" => job.place \in Places /\ job.place # p
            /\ job.step = "rename_save" => job.from \in Places /\ job.from # p
      BY <1>b DEF LibraryInv, JobTyped, InJob
    <2> QED  BY <2>1, <1>b, <1>c DEF LibraryInv, InHand
  <1>6. Flags'
    <2>1. \A b \in pinned' : blame'[b] # "unsaved"
      BY <1>b, <1>c DEF LibraryInv, Disk, Flags
    <2>2. ASSUME NEW b \in pinned' \ unsure'  PROVE  Flagged(b)'
      <3>1. b \in pinned \ unsure /\ b # c /\ b \in Clips /\ Flagged(b)
        BY <1>b, <1>d DEF LibraryInv, Flags, Disk
      <3>2. \A q \in Places : files'[q] = b => files[q] = b
        BY <3>1, <1>c
      <3> QED  BY <3>1, <3>2, <1>b, <1>c DEF Flagged, Guarded
    <2> QED  BY <2>1, <2>2 DEF Flags
  <1>7. Trims'
    BY <1>b DEF LibraryInv, Trims, Trimmed, Present, Eligible, OverQuota
  <1> QED  BY <1>1, <1>2, <1>3, <1>4, <1>5, <1>6, <1>7 DEF LibraryInv

(* RemovedOutside keeps the invariant. *)
LEMMA RemovedOutsideKeeps ==
    ASSUME LibraryInv, NEW p \in Places, RemovedOutside(p)
    PROVE  LibraryInv'
  <1>a. /\ files[p] # NoClip
        /\ files' = [files EXCEPT ![p] = NoClip]
        /\ blame' = [blame EXCEPT ![files[p]] = "outside"]
        /\ UNCHANGED <<staged, rows, catalog, outputDir, quota, job, pinned, unsure>>
    BY DEF RemovedOutside, requestVars
  <1>b. /\ files'[p] = NoClip /\ \A q \in Places \ {p} : files'[q] = files[q]
        /\ files[p] \in Clips /\ blame'[files[p]] = "outside"
        /\ \A c \in Clips \ {files[p]} : blame'[c] = blame[c]
    BY <1>a DEF LibraryInv, Disk
  <1>1. Disk'
    BY DEF LibraryInv, Disk, RemovedOutside, requestVars
  <1>2. Tables'
    BY DEF LibraryInv, Tables, Table, RemovedOutside, requestVars
  <1>3. JobTyped'
    BY DEF LibraryInv, JobTyped, RemovedOutside, requestVars
  <1>4. Placed'
    BY ZenonT(60) DEF LibraryInv, Disk, Placed, InHand, RemovedOutside, requestVars
  <1>5. InHand'
    <2>1. /\ job.step = "delete_save" => job.place \in Places
          /\ job.step = "rename_save" => job.from \in Places
      BY DEF LibraryInv, JobTyped
    <2> QED  BY <2>1, <1>a, <1>b DEF LibraryInv, InHand
  <1>6. Flags'
    <2>1. \A c \in pinned' : blame'[c] # "unsaved"
      BY <1>a, <1>b DEF LibraryInv, Disk, Flags
    <2>2. ASSUME NEW c \in pinned' \ unsure'  PROVE  Flagged(c)'
      <3>1. c \in pinned \ unsure /\ c \in Clips /\ Flagged(c)
        BY <1>a DEF LibraryInv, Flags, Disk
      <3>2. \A q \in Places : files'[q] = c => files[q] = c
        BY <3>1, <1>b, LibraryAssumption DEF Clips
      <3>3. blame'[c] # "quota"
        BY <3>1, <1>b DEF Flagged
      <3> QED  BY <3>1, <3>2, <3>3, <1>a DEF Flagged, Guarded
    <2> QED  BY <2>1, <2>2 DEF Flags
  <1>7. Trims'
    BY DEF LibraryInv, JobTyped, Trims, Trimmed, Present, Eligible, OverQuota, RemovedOutside, requestVars
  <1> QED  BY <1>1, <1>2, <1>3, <1>4, <1>5, <1>6, <1>7 DEF LibraryInv

(* ScanBegin keeps the invariant. *)
LEMMA ScanBeginKeeps ==
    ASSUME LibraryInv, ScanBegin
    PROVE  LibraryInv'
  <1>a. /\ job.step = "idle" /\ job' = [step |-> "scan_save"]
        /\ \E found \in BOOLEAN : rows' = Reconciled(found)
        /\ UNCHANGED <<files, staged, catalog, outputDir, quota, blame, pinned, unsure>>
    BY DEF ScanBegin, requestVars
  <1>b. /\ DOMAIN rows \subseteq DOMAIN rows'
        /\ \A q \in DOMAIN rows : rows'[q].protected = rows[q].protected
    BY <1>a, Reconciling DEF LibraryInv
  <1>1. Disk'
    BY DEF LibraryInv, Disk, ScanBegin, requestVars, Idle, Reconciled
  <1>2. Tables'
    BY <1>a, Reconciling DEF LibraryInv, Tables
  <1>3. JobTyped'
    BY DEF LibraryInv, JobTyped, ScanBegin, requestVars, Idle, Reconciled
  <1>4. Placed'
    BY DEF LibraryInv, Disk, Placed, InHand, ScanBegin, requestVars, Idle, Reconciled
  <1>5. InHand'
    BY DEF LibraryInv, InHand, ScanBegin, requestVars, Idle, Reconciled
  <1>6. Flags'
    <2>1. \A c \in pinned' : blame'[c] # "unsaved"
      BY <1>a DEF LibraryInv, Flags
    <2>2. ASSUME NEW c \in pinned' \ unsure'  PROVE  Flagged(c)'
      <3>1. c \in pinned \ unsure /\ Flagged(c)
        BY <1>a DEF LibraryInv, Flags
      <3> QED  BY <3>1, <1>a, <1>b DEF Flagged, Guarded
    <2> QED  BY <2>1, <2>2 DEF Flags
  <1>7. Trims'
    BY DEF LibraryInv, JobTyped, Trims, Trimmed, Present, Eligible, OverQuota, ScanBegin, requestVars, Idle, Reconciled
  <1> QED  BY <1>1, <1>2, <1>3, <1>4, <1>5, <1>6, <1>7 DEF LibraryInv

(* ScanFails keeps the invariant. *)
LEMMA ScanFailsKeeps ==
    ASSUME LibraryInv, ScanFails
    PROVE  LibraryInv'
  <1>a. /\ job.step = "idle" /\ job' = Idle
        /\ rows' \in {rows, Marked(TRUE)}
        /\ UNCHANGED <<files, staged, catalog, outputDir, quota, blame, pinned, unsure>>
    BY DEF ScanFails, requestVars
  <1>b. /\ DOMAIN rows \subseteq DOMAIN rows'
        /\ \A q \in DOMAIN rows : rows'[q].protected = rows[q].protected
        /\ job'.step = "idle"
    BY <1>a, Marking DEF LibraryInv, Idle
  <1>1. Disk'
    BY DEF LibraryInv, Disk, ScanFails, requestVars, Idle
  <1>2. Tables'
    BY <1>a, Marking DEF LibraryInv, Tables
  <1>3. JobTyped'
    BY DEF LibraryInv, JobTyped, ScanFails, requestVars, Idle
  <1>4. Placed'
    BY DEF LibraryInv, Disk, Placed, InHand, ScanFails, requestVars, Idle
  <1>5. InHand'
    BY DEF LibraryInv, InHand, ScanFails, requestVars, Idle
  <1>6. Flags'
    <2>1. \A c \in pinned' : blame'[c] # "unsaved"
      BY <1>a DEF LibraryInv, Flags
    <2>2. ASSUME NEW c \in pinned' \ unsure'  PROVE  Flagged(c)'
      <3>1. c \in pinned \ unsure /\ Flagged(c)
        BY <1>a DEF LibraryInv, Flags
      <3> QED  BY <3>1, <1>a, <1>b DEF Flagged, Guarded
    <2> QED  BY <2>1, <2>2 DEF Flags
  <1>7. Trims'
    BY DEF LibraryInv, JobTyped, Trims, Trimmed, Present, Eligible, OverQuota, ScanFails, requestVars, Idle
  <1> QED  BY <1>1, <1>2, <1>3, <1>4, <1>5, <1>6, <1>7 DEF LibraryInv

(* ScanSave keeps the invariant. *)
LEMMA ScanSaveKeeps ==
    ASSUME LibraryInv, ScanSave
    PROVE  LibraryInv'
  <1>1. Disk'
    BY DEF LibraryInv, Disk, ScanSave, requestVars, Idle
  <1>2. Tables'
    BY DEF LibraryInv, Tables, Table, ScanSave, requestVars, Idle
  <1>3. JobTyped'
    <2>1. CASE job' = Idle
      BY <2>1 DEF JobTyped, Idle
    <2>2. CASE job' = [step |-> "enforce", freed |-> {}]
      BY <2>2 DEF JobTyped
    <2> QED  BY <2>1, <2>2 DEF ScanSave
  <1>4. Placed'
    BY DEF LibraryInv, Disk, Placed, InHand, ScanSave, requestVars, Idle
  <1>5. InHand'
    BY DEF LibraryInv, InHand, ScanSave, requestVars, Idle
  <1>6. Flags'
    BY DEF LibraryInv, Flags, Flagged, Guarded, ScanSave, requestVars, Idle
  <1>7. Trims'
    BY DEF LibraryInv, JobTyped, Trims, Trimmed, Present, Eligible, OverQuota, ScanSave, requestVars, Idle
  <1> QED  BY <1>1, <1>2, <1>3, <1>4, <1>5, <1>6, <1>7 DEF LibraryInv

(* ScanEnd keeps the invariant. *)
LEMMA ScanEndKeeps ==
    ASSUME LibraryInv, ScanEnd
    PROVE  LibraryInv'
  <1>1. Disk'
    BY DEF LibraryInv, Disk, ScanEnd, requestVars
  <1>2. Tables'
    BY DEF LibraryInv, Tables, Table, ScanEnd, requestVars
  <1>3. JobTyped'
    BY DEF LibraryInv, JobTyped, ScanEnd, requestVars
  <1>4. Placed'
    BY DEF LibraryInv, Disk, Placed, InHand, ScanEnd, requestVars
  <1>5. InHand'
    BY DEF LibraryInv, InHand, ScanEnd, requestVars
  <1>6. Flags'
    BY DEF LibraryInv, Flags, Flagged, Guarded, ScanEnd, requestVars
  <1>7. Trims'
    BY DEF LibraryInv, JobTyped, Trims, Trimmed, Present, Eligible, OverQuota, ScanEnd, requestVars
  <1> QED  BY <1>1, <1>2, <1>3, <1>4, <1>5, <1>6, <1>7 DEF LibraryInv

(* A delete that begins: the row goes, and the file is staged, if there is one. *)
LEMMA DeleteBeginKeeps ==
    ASSUME LibraryInv, NEW p \in DOMAIN rows, NEW auto \in BOOLEAN, NEW freed \in SUBSET Clips,
           job.step \in {"idle", "enforce"},
           DeleteBegin(p, auto, freed),
           auto => ~rows[p].protected
    PROVE  Disk' /\ Tables' /\ JobTyped' /\ Placed' /\ InHand' /\ Flags'
  <1> DEFINE missing == rows[p].missing \/ files[p] = NoClip
             clip == files[p]
  <1>a. /\ rows' = Without(rows, p)
        /\ job' = [step |-> "delete_save", place |-> p, row |-> rows[p], auto |-> auto,
                   clip |-> IF missing THEN NoClip ELSE clip, freed |-> freed]
        /\ UNCHANGED <<catalog, outputDir, quota, pinned>>
    BY DEF DeleteBegin, requestVars
  <1>b. p \in Places /\ rows[p] \in Rows /\ clip \in Clips \cup {NoClip}
    BY DEF LibraryInv, Tables, Table, Disk
  <1>c. /\ job'.step = "delete_save" /\ "place" \in DOMAIN job' /\ job'.place = p
        /\ job'.row = rows[p] /\ job'.auto = auto /\ job'.freed = freed
        /\ job'.clip = IF missing THEN NoClip ELSE clip
    BY <1>a
  <1>d. missing => /\ unsure' = unsure \cup (pinned \cap {clip})
                   /\ UNCHANGED <<files, staged, blame>>
    BY DEF DeleteBegin
  <1>e. ~missing => /\ files' = [files EXCEPT ![p] = NoClip]
                    /\ staged' = staged \cup {[clip |-> clip, dir |-> p[1]]}
                    /\ blame' = [blame EXCEPT ![clip] = IF auto THEN "quota" ELSE "user"]
                    /\ UNCHANGED unsure
    BY DEF DeleteBegin
  <1>f. ~missing => clip \in Clips /\ clip # NoClip
    BY <1>b
  <1>g. DOMAIN rows' = DOMAIN rows \ {p} /\ \A q \in DOMAIN rows' : rows'[q] = rows[q]
    BY ZenonT(60), <1>a, RowTaken
  <1>1. Tables'
    BY <1>a, <1>g DEF LibraryInv, Tables, Table
  <1>2. JobTyped'
    BY <1>a, <1>b, <1>c DEF JobTyped
  <1>3. CASE missing
    <2>1. Disk'
      BY <1>3, <1>a, <1>d DEF LibraryInv, Disk
    <2>a. files' = files /\ staged' = staged /\ blame' = blame
      BY <1>3, <1>d
    <2>2. Placed'
      BY <2>a DEF LibraryInv, Placed, BlameAt
    <2>3. InHand'
      BY <1>3, <1>c DEF InHand
    <2>4. ASSUME NEW c \in pinned' \ unsure'  PROVE  Flagged(c)'
      <3>1. c \in pinned \ unsure /\ c # clip /\ Flagged(c) /\ c \in Clips
        BY <1>3, <1>a, <1>d DEF LibraryInv, Flags, Disk
      <3>2. job'.clip # c
        BY <3>1, <1>3, <1>c, LibraryAssumption DEF Clips
      <3>3. ASSUME NEW q \in Places, files'[q] = c  PROVE  Guarded(rows', q) /\ Guarded(catalog', q)
        BY <3>1, <3>3, <1>3, <1>a, <1>d, <1>g DEF Flagged, Guarded
      <3> QED  BY <3>1, <3>2, <3>3, <1>3, <1>c, <1>d DEF Flagged
    <2>5. Flags'
      BY <2>4, <1>3, <1>a, <1>d DEF LibraryInv, Flags
    <2> QED  BY <2>1, <2>2, <2>3, <2>5, <1>1, <1>2
  <1>4. CASE ~missing
    <2> HIDE DEF missing
    <2>a. /\ files'[p] = NoClip /\ \A q \in Places \ {p} : files'[q] = files[q]
          /\ blame'[clip] \in {"quota", "user"} /\ \A c \in Clips \ {clip} : blame'[c] = blame[c]
          /\ ~auto => blame'[clip] = "user"
          /\ \A s \in staged' : s \in staged \/ s.clip = clip
          /\ [clip |-> clip, dir |-> p[1]] \in staged'
      <3>1. /\ files \in [Places -> Clips \cup {NoClip}] /\ DOMAIN blame = Clips
            /\ clip \in Clips
        BY <1>4, <1>f DEF LibraryInv, Disk
      <3>2. /\ files' = [files EXCEPT ![p] = NoClip]
            /\ blame' = [blame EXCEPT ![clip] = IF auto THEN "quota" ELSE "user"]
            /\ staged' = staged \cup {[clip |-> clip, dir |-> p[1]]}
        BY <1>4, <1>e
      <3> HIDE DEF clip
      <3>3. files'[p] = NoClip /\ \A q \in Places \ {p} : files'[q] = files[q]
        BY <3>1, <3>2, <1>b
      <3>4. /\ blame'[clip] = IF auto THEN "quota" ELSE "user"
            /\ \A c \in Clips \ {clip} : blame'[c] = blame[c]
        BY <3>1, <3>2
      <3>5. /\ \A s \in staged' : s \in staged \/ s.clip = clip
            /\ [clip |-> clip, dir |-> p[1]] \in staged'
        BY <3>2
      <3> QED  BY <3>3, <3>4, <3>5
    <2>b. p[1] \in Dirs
      BY <1>b DEF Places
    <2>1. Disk'
      <3>1. /\ files \in [Places -> Clips \cup {NoClip}] /\ clip \in Clips
            /\ staged \subseteq [clip : Clips, dir : Dirs]
            /\ blame \in [Clips -> {"unsaved", "none", "user", "quota", "outside", "temporary name"}]
        BY <1>4, <1>f DEF LibraryInv, Disk
      <3>2. files' \in [Places -> Clips \cup {NoClip}]
        BY <3>1, <1>4, <1>e
      <3>3. staged' \subseteq [clip : Clips, dir : Dirs]
        <4>1. staged' = staged \cup {[clip |-> clip, dir |-> p[1]]}
          BY <1>4, <1>e
        <4> HIDE DEF clip
        <4>2. [clip |-> clip, dir |-> p[1]] \in [clip : Clips, dir : Dirs]
          BY <3>1, <2>b
        <4> QED  BY <4>1, <4>2, <3>1
      <3>4. blame' \in [Clips -> {"unsaved", "none", "user", "quota", "outside", "temporary name"}]
        BY <3>1, <1>4, <1>e
      <3>5. pinned' \subseteq Clips /\ unsure' \subseteq Clips /\ outputDir' \in Dirs /\ quota' \in Quotas
        BY <1>4, <1>a, <1>e DEF LibraryInv, Disk
      <3> QED  BY <3>2, <3>3, <3>4, <3>5 DEF Disk
    <2>2. Placed'
      <3>1. \A q, r \in Places : files'[q] = files'[r] /\ files'[q] # NoClip => q = r
        BY <2>a DEF LibraryInv, Placed
      <3>2. ASSUME NEW q \in Places, files'[q] # NoClip
            PROVE  (\A s \in staged' : s.clip # files'[q]) /\ blame'[files'[q]] = BlameAt(q)
        <4>1. q # p /\ files'[q] = files[q] /\ files[q] # clip /\ files[q] \in Clips
          BY ZenonT(60), <3>2, <2>a, <1>b, <1>f, <1>4 DEF LibraryInv, Placed, Disk
        <4> QED  BY <4>1, <3>2, <2>a DEF LibraryInv, Placed
      <3>3. ASSUME NEW c \in Clips, blame'[c] = "none"  PROVE  \E q \in Places : files'[q] = c
        <4>1. c # clip /\ blame[c] = "none"
          BY <3>3, <2>a
        <4>2. PICK q \in Places : files[q] = c
          BY <4>1 DEF LibraryInv, Placed
        <4> QED  BY <4>1, <4>2, <2>a
      <3>4. \A s \in staged' : blame'[s.clip] # "unsaved"
        BY <2>a DEF LibraryInv, Placed, Disk
      <3> QED  BY <3>1, <3>2, <3>3, <3>4 DEF Placed, BlameAt
    <2>3. InHand'
      BY <2>a, <1>c, <1>4 DEF InHand
    <2>4. ASSUME NEW c \in pinned' \ unsure'  PROVE  Flagged(c)'
      <3>1. c \in pinned \ unsure /\ Flagged(c) /\ c \in Clips
        BY <1>4, <1>a, <1>e DEF LibraryInv, Flags, Disk
      <3>2. c = clip => rows[p].protected /\ Guarded(catalog, p)
        BY <3>1, <1>b DEF Flagged, Guarded
      <3>3. blame'[c] # "quota"
        BY <3>1, <3>2, <2>a DEF Flagged
      <3>4. ASSUME NEW q \in Places, files'[q] = c  PROVE  Guarded(rows', q) /\ Guarded(catalog', q)
        <4>1. q # p /\ files[q] = c
          BY <3>1, <3>4, <2>a, LibraryAssumption DEF Clips
        <4> QED  BY <4>1, <3>1, <1>a, <1>g DEF Flagged, Guarded
      <3> QED  BY <3>2, <3>3, <3>4, <1>4, <1>a, <1>c DEF Flagged
    <2>5. Flags'
      BY <2>4, <2>a, <1>4, <1>a, <1>e DEF LibraryInv, Flags, Disk
    <2> QED  BY <2>1, <2>2, <2>3, <2>5, <1>1, <1>2
  <1> QED  BY <1>3, <1>4

(* A delete the user asked for keeps the invariant.                           *)
LEMMA DeleteKeeps ==
    ASSUME LibraryInv, NEW p \in Places, Delete(p)
    PROVE  LibraryInv'
  <1>1. p \in DOMAIN rows /\ job.step = "idle" /\ DeleteBegin(p, FALSE, {})
    BY DEF Delete
  <1>2. Disk' /\ Tables' /\ JobTyped' /\ Placed' /\ InHand' /\ Flags'
    BY <1>1, DeleteBeginKeeps
  <1>3. Trims'
    BY <1>1 DEF DeleteBegin, Trims, Trimmed
  <1> QED  BY <1>2, <1>3 DEF LibraryInv

(* Nor does one for the quota, which takes an unprotected row, the oldest of  *)
(* them, while there are too many.                                            *)
LEMMA EvictKeeps ==
    ASSUME LibraryInv, NEW p \in Places, Evict(p)
    PROVE  LibraryInv'
  <1> DEFINE freed == job.freed \cup {rows[p].age}
  <1>1. /\ job.step = "enforce" /\ OverQuota /\ p \in Victims
        /\ DeleteBegin(p, TRUE, freed)
    BY DEF Evict
  <1>2. /\ p \in DOMAIN rows /\ ~rows[p].missing /\ ~rows[p].protected
        /\ \A q \in Eligible : rows[p].age <= rows[q].age
    BY <1>1 DEF Victims, Eligible, Present
  <1>3. rows[p] \in Rows /\ freed \in SUBSET Clips
    BY <1>1, <1>2 DEF LibraryInv, Tables, Table, Rows, JobTyped
  <1>4. Disk' /\ Tables' /\ JobTyped' /\ Placed' /\ InHand' /\ Flags'
    BY <1>1, <1>2, <1>3, DeleteBeginKeeps
  <1>5. /\ job'.step = "delete_save" /\ job'.freed = freed /\ quota' = quota
        /\ DOMAIN rows' = DOMAIN rows \ {p} /\ \A q \in DOMAIN rows' : rows'[q] = rows[q]
    <2>1. job'.step = "delete_save" /\ job'.freed = freed
      BY <1>1 DEF DeleteBegin
    <2>2. rows' = Without(rows, p) /\ quota' = quota
      BY <1>1 DEF DeleteBegin, requestVars
    <2>3. DOMAIN rows' = DOMAIN rows \ {p} /\ \A q \in DOMAIN rows' : rows'[q] = rows[q]
      BY <2>2, RowTaken
    <2> QED  BY <2>1, <2>2, <2>3
  <1>6. Present' = Present \ {p} /\ p \in Present
    BY <1>2, <1>5 DEF Present
  <1>7. Eligible' \subseteq Eligible /\ \A q \in Eligible' : rows'[q].age = rows[q].age
    BY <1>5 DEF Present, Eligible
  <1>8. quota # NoQuota /\ Cardinality(Present') >= quota
    <2>1. IsFiniteSet(Present)
      BY PresentFinite
    <2>2. Cardinality(Present') = Cardinality(Present) - 1 /\ Cardinality(Present) \in Nat
      BY <2>1, <1>6, FS_RemoveElement, FS_CardinalityType
    <2>3. quota \in Nat /\ quota # NoQuota /\ Cardinality(Present) > quota
      BY <1>1, LibraryAssumption DEF OverQuota, LibraryInv, Disk
    <2> QED  BY <2>2, <2>3
  <1>9. \A a \in freed, q \in Eligible' : a <= rows'[q].age
    BY <1>1, <1>2, <1>7 DEF LibraryInv, Trims, Trimmed
  <1>10. Trims'
    BY <1>5, <1>8, <1>9 DEF Trims, Trimmed
  <1> QED  BY <1>4, <1>10 DEF LibraryInv

(* StagingFails keeps the invariant. *)
LEMMA StagingFailsKeeps ==
    ASSUME LibraryInv, StagingFails
    PROVE  LibraryInv'
  <1>1. Disk'
    BY DEF LibraryInv, Disk, StagingFails, requestVars, Idle
  <1>2. Tables'
    BY DEF LibraryInv, Tables, Table, StagingFails, requestVars, Idle
  <1>3. JobTyped'
    BY DEF LibraryInv, JobTyped, StagingFails, requestVars, Idle
  <1>4. Placed'
    BY DEF LibraryInv, Disk, Placed, InHand, StagingFails, requestVars, Idle
  <1>5. InHand'
    BY DEF LibraryInv, InHand, StagingFails, requestVars, Idle
  <1>6. Flags'
    BY DEF LibraryInv, Flags, Flagged, Guarded, StagingFails, requestVars, Idle
  <1>7. Trims'
    BY DEF LibraryInv, JobTyped, Trims, Trimmed, Present, Eligible, OverQuota, StagingFails, requestVars, Idle
  <1> QED  BY <1>1, <1>2, <1>3, <1>4, <1>5, <1>6, <1>7 DEF LibraryInv

(* DeleteSaved keeps the invariant. *)
LEMMA DeleteSavedKeeps ==
    ASSUME LibraryInv, DeleteSaved
    PROVE  LibraryInv'
  <1>a. /\ job.step = "delete_save" /\ catalog' = rows
        /\ job' = IF job.clip = NoClip THEN AfterDelete ELSE [job EXCEPT !.step = "delete_unlink"]
        /\ UNCHANGED <<files, staged, rows, outputDir, quota, blame, pinned, unsure>>
    BY DEF DeleteSaved, requestVars
  <1>b. /\ job'.step \in {"idle", "enforce", "delete_unlink"}
        /\ job'.step = "idle" => job'.scanned = FALSE /\ job'.freed = {}
        /\ job'.freed = {} \/ job'.freed = job.freed
        /\ job'.step = "delete_unlink" => job' = [job EXCEPT !.step = "delete_unlink"]
    BY <1>a DEF AfterDelete, Idle
  <1>1. Disk'
    BY DEF LibraryInv, Disk, DeleteSaved, requestVars
  <1>2. Tables'
    BY DEF LibraryInv, Tables, Table, DeleteSaved, requestVars
  <1>3. JobTyped'
    <2>1. CASE job'.step = "delete_unlink"
      <3>1. DOMAIN job' = DOMAIN job /\ job'.row = job.row /\ job'.auto = job.auto /\ job'.clip = job.clip
            /\ job'.place = job.place
        BY <2>1, <1>b, <1>a DEF LibraryInv, JobTyped
      <3> QED  BY <3>1, <2>1, <1>a, <1>b DEF LibraryInv, JobTyped
    <2>2. CASE job'.step # "delete_unlink"
      BY <2>2, <1>a, <1>b DEF LibraryInv, JobTyped
    <2> QED  BY <2>1, <2>2
  <1>4. Placed'
    BY DEF LibraryInv, Disk, Placed, InHand, DeleteSaved, requestVars
  <1>5. InHand'
    BY <1>b DEF InHand
  <1>6. Flags'
    <2>1. \A c \in pinned' : blame'[c] # "unsaved"
      BY <1>a DEF LibraryInv, Flags
    <2>2. ASSUME NEW c \in pinned' \ unsure'  PROVE  Flagged(c)'
      <3>1. c \in pinned \ unsure /\ Flagged(c)
        BY <1>a DEF LibraryInv, Flags
      <3> QED  BY <3>1, <1>a, <1>b DEF Flagged, Guarded
    <2> QED  BY <2>1, <2>2 DEF Flags
  <1>7. Trims'
    BY <1>a, <1>b DEF LibraryInv, Trims, Trimmed, Present, Eligible, OverQuota
  <1> QED  BY <1>1, <1>2, <1>3, <1>4, <1>5, <1>6, <1>7 DEF LibraryInv

(* DeleteUnlink keeps the invariant. *)
LEMMA DeleteUnlinkKeeps ==
    ASSUME LibraryInv, DeleteUnlink
    PROVE  LibraryInv'
  <1>a. /\ job.step = "delete_unlink" /\ job' \in {AfterDelete, Idle}
        /\ staged' \subseteq staged
        /\ UNCHANGED <<files, rows, catalog, outputDir, quota, blame, pinned, unsure>>
    BY DEF DeleteUnlink, requestVars
  <1>b. /\ job'.step \in {"idle", "enforce"}
        /\ job'.step = "idle" => job'.scanned = FALSE /\ job'.freed = {}
        /\ job'.freed = {} \/ job'.freed = job.freed
    BY <1>a DEF AfterDelete, Idle
  <1>1. Disk'
    BY DEF LibraryInv, Disk, DeleteUnlink, requestVars
  <1>2. Tables'
    BY DEF LibraryInv, Tables, Table, DeleteUnlink, requestVars
  <1>3. JobTyped'
    BY <1>a, <1>b DEF LibraryInv, JobTyped
  <1>4. Placed'
    BY <1>a DEF LibraryInv, Placed, BlameAt
  <1>5. InHand'
    BY <1>b DEF InHand
  <1>6. Flags'
    <2>1. \A c \in pinned' : blame'[c] # "unsaved"
      BY <1>a DEF LibraryInv, Flags
    <2>2. ASSUME NEW c \in pinned' \ unsure'  PROVE  Flagged(c)'
      <3>1. c \in pinned \ unsure /\ Flagged(c)
        BY <1>a DEF LibraryInv, Flags
      <3> QED  BY <3>1, <1>a, <1>b DEF Flagged, Guarded
    <2> QED  BY <2>1, <2>2 DEF Flags
  <1>7. Trims'
    BY <1>a, <1>b DEF LibraryInv, Trims, Trimmed, Present, Eligible, OverQuota
  <1> QED  BY <1>1, <1>2, <1>3, <1>4, <1>5, <1>6, <1>7 DEF LibraryInv

(* A delete whose catalog could not be written puts the row back, and the     *)
(* file too, if it can.                                                       *)
LEMMA DeleteSaveFailsKeeps ==
    ASSUME LibraryInv, DeleteSaveFails
    PROVE  LibraryInv'
  <1>a. /\ job.step = "delete_save" /\ job'.step = "idle" /\ job'.scanned = FALSE /\ job'.freed = {}
        /\ UNCHANGED <<catalog, outputDir, quota, pinned, unsure>>
    BY DEF DeleteSaveFails, requestVars, Idle
  <1>b. job.place \in Places /\ job.row \in Rows
    BY <1>a DEF LibraryInv, JobTyped
  <1>c. job.clip = NoClip => files' = files /\ staged' = staged /\ blame' = blame /\ rows' = rows
    BY DEF DeleteSaveFails
  <1>d. job.clip # NoClip =>
        /\ DOMAIN rows' = DOMAIN rows \cup {job.place} /\ rows'[job.place] = job.row
        /\ \A q \in DOMAIN rows \ {job.place} : rows'[q] = rows[q]
    <2> DEFINE p == job.place
               row == job.row
    <2> SUFFICES ASSUME job.clip # NoClip
                 PROVE  /\ DOMAIN rows' = DOMAIN rows \cup {p} /\ rows'[p] = row
                        /\ \A q \in DOMAIN rows \ {p} : rows'[q] = rows[q]
      OBVIOUS
    <2>1. rows' = With(rows, p, row)
      BY DEF DeleteSaveFails
    <2> HIDE DEF p, row
    <2> QED  BY <2>1 DEF With, Over
  <1>e. \/ files' = files /\ staged' = staged /\ blame' = blame
        \/ /\ job.clip # NoClip
           /\ files' = [files EXCEPT ![job.place] = job.clip]
           /\ staged' = {s \in staged : s.clip # job.clip}
           /\ blame' = [blame EXCEPT ![job.clip] = BlameAt(job.place)]
    BY DEF DeleteSaveFails
  <1>1. Tables'
    BY <1>a, <1>b, <1>c, <1>d DEF LibraryInv, Tables, Table
  <1>2. JobTyped'
    BY <1>a DEF JobTyped
  <1>3. InHand' /\ Trims'
    BY <1>a DEF InHand, Trims, Trimmed
  <1>4. CASE files' = files /\ staged' = staged /\ blame' = blame
    <2>1. Disk' /\ Placed'
      BY <1>4, <1>a DEF LibraryInv, Disk, Placed, BlameAt
    <2>2. ASSUME NEW c \in pinned' \ unsure'  PROVE  Flagged(c)'
      <3>1. c \in pinned \ unsure /\ Flagged(c)
        BY <1>a DEF LibraryInv, Flags
      <3>2. ASSUME NEW q \in Places, files[q] = c  PROVE  Guarded(rows', q) /\ Guarded(catalog', q)
        <4>1. Guarded(rows, q) /\ Guarded(catalog, q)
          BY <3>1, <3>2, <1>a DEF Flagged
        <4>2. CASE job.clip = NoClip
          BY <4>1, <4>2, <1>a, <1>c DEF Guarded
        <4>3. CASE job.clip # NoClip
          <5>1. c # NoClip
            BY <3>1, LibraryAssumption DEF LibraryInv, Disk, Clips
          <5>2. q # job.place
            BY <5>1, <4>3, <3>2, <1>a DEF LibraryInv, InHand
          <5> QED  BY <5>2, <4>1, <4>3, <1>a, <1>d DEF Guarded
        <4> QED  BY <4>2, <4>3
      <3> QED  BY <3>1, <3>2, <1>4, <1>a DEF Flagged
    <2>3. Flags'
      BY <2>2, <1>4, <1>a DEF LibraryInv, Flags
    <2> QED  BY <2>1, <2>3, <1>1, <1>2, <1>3 DEF LibraryInv
  <1>5. CASE /\ job.clip # NoClip
             /\ files' = [files EXCEPT ![job.place] = job.clip]
             /\ staged' = {s \in staged : s.clip # job.clip}
             /\ blame' = [blame EXCEPT ![job.clip] = BlameAt(job.place)]
    <2>a. /\ files \in [Places -> Clips \cup {NoClip}] /\ job.clip \in Clips /\ DOMAIN blame = Clips
      BY <1>a, <1>5 DEF LibraryInv, Disk, JobTyped
    <2>b. /\ files'[job.place] = job.clip
          /\ \A q \in Places \ {job.place} : files'[q] = files[q]
          /\ blame'[job.clip] = BlameAt(job.place)
          /\ \A c \in Clips \ {job.clip} : blame'[c] = blame[c]
          /\ staged' \subseteq staged /\ \A s \in staged' : s.clip # job.clip
      BY <2>a, <1>b, <1>5
    <2>c. files[job.place] = NoClip /\ \A q \in Places : files[q] # job.clip
      BY <1>a, <1>b, <1>5 DEF LibraryInv, InHand, Placed
    <2>1. Disk'
      <3>1. blame' \in [Clips -> {"unsaved", "none", "user", "quota", "outside", "temporary name"}]
        BY <2>a, <1>5 DEF LibraryInv, Disk, BlameAt
      <3> QED  BY <3>1, <2>a, <2>b, <1>a, <1>5 DEF LibraryInv, Disk
    <2>2. Placed'
      <3>1. \A q, r \in Places : files'[q] = files'[r] /\ files'[q] # NoClip => q = r
        BY <2>b, <2>c DEF LibraryInv, Placed
      <3>2. ASSUME NEW q \in Places, files'[q] # NoClip
            PROVE  (\A s \in staged' : s.clip # files'[q]) /\ blame'[files'[q]] = BlameAt(q)
        <4>1. CASE q = job.place
          BY <4>1, <2>b
        <4>2. CASE q # job.place
          <5>1. files'[q] = files[q] /\ files[q] # job.clip /\ files[q] \in Clips
            BY <4>2, <3>2, <2>a, <2>b, <2>c
          <5> QED  BY <5>1, <3>2, <2>b DEF LibraryInv, Placed
        <4> QED  BY <4>1, <4>2
      <3>3. ASSUME NEW c \in Clips, blame'[c] = "none"  PROVE  \E q \in Places : files'[q] = c
        <4>1. CASE c = job.clip
          BY <4>1, <2>b, <1>b
        <4>2. CASE c # job.clip
          <5>1. PICK q \in Places : files[q] = c
            BY <4>2, <3>3, <2>b DEF LibraryInv, Placed
          <5>2. q # job.place
            BY <5>1, <2>c, LibraryAssumption DEF Clips
          <5> QED  BY <5>1, <5>2, <2>b
        <4> QED  BY <4>1, <4>2
      <3>4. \A s \in staged' : blame'[s.clip] # "unsaved"
        BY <2>b DEF LibraryInv, Placed, Disk
      <3> QED  BY <3>1, <3>2, <3>3, <3>4 DEF Placed, BlameAt
    <2>3. ASSUME NEW c \in pinned' \ unsure'  PROVE  Flagged(c)'
      <3>1. c \in pinned \ unsure /\ c \in Clips /\ Flagged(c)
        BY <1>a DEF LibraryInv, Flags, Disk
      <3>2. blame'[c] # "quota"
        BY <3>1, <2>b DEF Flagged, BlameAt
      <3>3. ASSUME NEW q \in Places, files'[q] = c  PROVE  Guarded(rows', q) /\ Guarded(catalog', q)
        <4>1. CASE q = job.place
          BY <4>1, <3>1, <3>3, <2>b, <1>a, <1>d, <1>5 DEF Flagged, Guarded
        <4>2. CASE q # job.place
          BY <4>2, <3>1, <3>3, <2>b, <1>a, <1>d, <1>5 DEF Flagged, Guarded
        <4> QED  BY <4>1, <4>2
      <3> QED  BY <3>2, <3>3, <1>a DEF Flagged
    <2>4. \A c \in pinned' : blame'[c] # "unsaved"
      BY <2>b, <1>a DEF LibraryInv, Flags, Disk, BlameAt
    <2> QED  BY <2>1, <2>2, <2>3, <2>4, <1>1, <1>2, <1>3 DEF LibraryInv, Flags
  <1> QED  BY <1>e, <1>4, <1>5

(* A rename, its row put into the table under the new name.                   *)
LEMMA RowMoved ==
    ASSUME NEW table, NEW from \in DOMAIN table, NEW to, from # to,
           Table(table), to \in Places
    PROVE  LET moved == With(Without(table, from), to, table[from])
           IN  /\ Table(moved)
               /\ DOMAIN moved = (DOMAIN table \ {from}) \cup {to}
               /\ moved[to] = table[from]
               /\ \A q \in DOMAIN table \ {from, to} : moved[q] = table[q]
  <1> DEFINE less == Without(table, from)
             moved == With(less, to, table[from])
  <1>1. DOMAIN less = DOMAIN table \ {from} /\ \A q \in DOMAIN table \ {from} : less[q] = table[q]
    BY RowTaken
  <1> HIDE DEF less
  <1>2. /\ DOMAIN moved = DOMAIN less \cup {to} /\ moved[to] = table[from]
        /\ \A q \in DOMAIN less \ {to} : moved[q] = less[q]
    BY DEF With, Over
  <1> HIDE DEF moved
  <1>3. Table(moved)
    BY <1>1, <1>2 DEF Table
  <1>4. \A q \in DOMAIN table \ {from, to} : moved[q] = table[q]
    BY <1>1, <1>2
  <1>5. DOMAIN moved = (DOMAIN table \ {from}) \cup {to} /\ moved[to] = table[from]
    BY <1>1, <1>2
  <1> QED  BY <1>3, <1>4, <1>5 DEF less, moved

(* A file that moves to a free name stays the one copy of its clip.           *)
LEMMA FileMoved ==
    ASSUME LibraryInv, NEW from \in Places, NEW to \in Places, from # to,
           files[from] # NoClip, files[to] = NoClip,
           files' = [files EXCEPT ![to] = files[from], ![from] = NoClip],
           blame' = [blame EXCEPT ![files[from]] = BlameAt(to)],
           UNCHANGED <<staged, outputDir, quota, pinned>>, unsure' \subseteq Clips
    PROVE  /\ Disk' /\ Placed'
           /\ files[from] \in Clips /\ files'[from] = NoClip /\ files'[to] = files[from]
           /\ \A q \in Places \ {from, to} : files'[q] = files[q]
           /\ blame'[files[from]] = BlameAt(to)
           /\ \A c \in Clips \ {files[from]} : blame'[c] = blame[c]
  <1> DEFINE clip == files[from]
  <1>a. files \in [Places -> Clips \cup {NoClip}] /\ clip \in Clips /\ DOMAIN blame = Clips
    BY DEF LibraryInv, Disk
  <1>b. /\ files'[from] = NoClip /\ files'[to] = clip
        /\ \A q \in Places \ {from, to} : files'[q] = files[q]
    BY <1>a
  <1>c. blame'[clip] = BlameAt(to) /\ \A c \in Clips \ {clip} : blame'[c] = blame[c]
    BY <1>a
  <1>1. Disk'
    <2>1. files' \in [Places -> Clips \cup {NoClip}]
      BY <1>a
    <2>2. blame' \in [Clips -> {"unsaved", "none", "user", "quota", "outside", "temporary name"}]
      BY <1>a DEF LibraryInv, Disk, BlameAt
    <2> QED  BY <2>1, <2>2 DEF LibraryInv, Disk
  <1>d. \A q \in Places \ {from} : files[q] # clip
    BY DEF LibraryInv, Placed
  <1> HIDE DEF clip
  <1>2. \A q, r \in Places : files'[q] = files'[r] /\ files'[q] # NoClip => q = r
    <2>1. ASSUME NEW q \in Places, NEW r \in Places, files'[q] = files'[r], files'[q] # NoClip
          PROVE  q = r
      <3>1. q # from /\ r # from
        BY <2>1, <1>b
      <3>2. ASSUME NEW t \in Places, t # from, t # to  PROVE  files'[t] # clip
        BY <3>2, <1>b, <1>d
      <3>4. CASE q = to \/ r = to
        BY <3>1, <3>2, <3>4, <2>1, <1>b
      <3>3. CASE q # to /\ r # to
        <4>1. files[q] = files[r] /\ files[q] # NoClip
          BY <3>1, <3>3, <2>1, <1>b
        <4> QED  BY <4>1 DEF LibraryInv, Placed
      <3> QED  BY <3>3, <3>4
    <2> QED  BY <2>1
  <1>3. ASSUME NEW q \in Places, files'[q] # NoClip
        PROVE  (\A s \in staged' : s.clip # files'[q]) /\ blame'[files'[q]] = BlameAt(q)
    <2>1. CASE q = to
      BY <2>1, <1>b, <1>c DEF LibraryInv, Placed, clip
    <2>2. CASE q # to
      <3>1. q # from /\ files'[q] = files[q] /\ files[q] # clip /\ files[q] \in Clips
        BY <2>2, <1>3, <1>a, <1>b, <1>d
      <3> QED  BY <3>1, <1>3, <1>c DEF LibraryInv, Placed
    <2> QED  BY <2>1, <2>2
  <1>4. ASSUME NEW c \in Clips, blame'[c] = "none"  PROVE  \E q \in Places : files'[q] = c
    <2>1. CASE c = clip
      BY <2>1, <1>b
    <2>2. CASE c # clip
      <3>1. PICK q \in Places : files[q] = c
        BY <2>2, <1>4, <1>c DEF LibraryInv, Placed
      <3>2. q # to /\ q # from
        BY <3>1, <2>2, LibraryAssumption DEF Clips, clip
      <3> QED  BY <3>1, <3>2, <1>b
    <2> QED  BY <2>1, <2>2
  <1>5. \A s \in staged' : blame'[s.clip] # "unsaved"
    BY <1>c DEF LibraryInv, Placed, Disk, BlameAt
  <1>6. Placed'
    BY <1>2, <1>3, <1>4, <1>5 DEF Placed, BlameAt
  <1> QED  BY <1>1, <1>6, <1>a, <1>b, <1>c DEF clip

(* A rename that begins: the file and its row are under the new name.         *)
LEMMA RenameBeginKeeps ==
    ASSUME LibraryInv, NEW from \in Places, NEW to \in Places, RenameBegin(from, to)
    PROVE  LibraryInv'
  <1>a. /\ job.step = "idle" /\ job' = [step |-> "rename_save", from |-> from, to |-> to]
        /\ from # to /\ from \in DOMAIN rows /\ to \notin DOMAIN rows
        /\ files[from] # NoClip /\ files[to] = NoClip
        /\ files' = [files EXCEPT ![to] = files[from], ![from] = NoClip]
        /\ blame' = [blame EXCEPT ![files[from]] = BlameAt(to)]
        /\ rows' = With(Without(rows, from), to, rows[from])
        /\ UNCHANGED <<staged, catalog, outputDir, quota, pinned, unsure>>
    BY DEF RenameBegin, CanRename, requestVars
  <1>b. /\ job'.step = "rename_save" /\ {"from", "to"} \subseteq DOMAIN job'
        /\ job'.from = from /\ job'.to = to
    BY <1>a
  <1>c. /\ Disk' /\ Placed'
        /\ files[from] \in Clips /\ files'[from] = NoClip /\ files'[to] = files[from]
        /\ \A q \in Places \ {from, to} : files'[q] = files[q]
        /\ blame'[files[from]] = BlameAt(to)
        /\ \A c \in Clips \ {files[from]} : blame'[c] = blame[c]
    <2>1. unsure' \subseteq Clips
      BY <1>a DEF LibraryInv, Disk
    <2> QED  BY <2>1, <1>a, FileMoved
  <1>d. /\ Table(rows') /\ DOMAIN rows' = (DOMAIN rows \ {from}) \cup {to}
        /\ rows'[to] = rows[from]
        /\ \A q \in DOMAIN rows \ {from, to} : rows'[q] = rows[q]
    <2>1. Table(rows)
      BY DEF LibraryInv, Tables
    <2> QED  BY SMTT(30), <2>1, <1>a, RowMoved
  <1>1. Tables'
    BY <1>a, <1>d DEF LibraryInv, Tables
  <1>2. JobTyped'
    BY <1>b DEF JobTyped
  <1>3. InHand' /\ Trims'
    BY <1>a, <1>b, <1>c, <1>d DEF InHand, Trims
  <1>4. ASSUME NEW c \in pinned' \ unsure'  PROVE  Flagged(c)'
    <2>1. c \in pinned \ unsure /\ c \in Clips /\ Flagged(c)
      BY <1>a DEF LibraryInv, Flags, Disk
    <2>2. blame'[c] # "quota"
      BY <2>1, <1>c DEF Flagged, BlameAt
    <2>3. ASSUME NEW q \in Places, files'[q] = c
          PROVE  /\ Guarded(rows', q)
                 /\ IF q = to THEN Guarded(catalog', from) ELSE Guarded(catalog', q)
      <3>1. CASE q = to
        <4>1. Guarded(rows, from) /\ Guarded(catalog, from)
          BY <3>1, <2>1, <2>3, <1>a, <1>c DEF Flagged
        <4> QED  BY <4>1, <3>1, <1>a, <1>d DEF Guarded
      <3>2. CASE q # to
        <4>1. q # from /\ files[q] = c
          BY <3>2, <2>1, <2>3, <1>c, LibraryAssumption DEF Clips
        <4>2. Guarded(rows, q) /\ Guarded(catalog, q)
          BY <4>1, <2>1, <1>a DEF Flagged
        <4> QED  BY <4>1, <4>2, <3>2, <1>a, <1>d DEF Guarded
      <3> QED  BY <3>1, <3>2
    <2> QED  BY <2>2, <2>3, <1>b DEF Flagged
  <1>5. \A c \in pinned' : blame'[c] # "unsaved"
    BY <1>a, <1>c DEF LibraryInv, Flags, Disk, BlameAt
  <1> QED  BY <1>1, <1>2, <1>3, <1>4, <1>5, <1>c DEF LibraryInv, Flags

(* RenameSaved keeps the invariant. *)
LEMMA RenameSavedKeeps ==
    ASSUME LibraryInv, RenameSaved
    PROVE  LibraryInv'
  <1>1. Disk'
    BY DEF LibraryInv, Disk, RenameSaved, requestVars, Idle
  <1>2. Tables'
    BY DEF LibraryInv, Tables, Table, RenameSaved, requestVars, Idle
  <1>3. JobTyped'
    BY DEF LibraryInv, JobTyped, RenameSaved, requestVars, Idle
  <1>4. Placed'
    BY DEF LibraryInv, Disk, Placed, InHand, RenameSaved, requestVars, Idle
  <1>5. InHand'
    BY DEF LibraryInv, InHand, RenameSaved, requestVars, Idle
  <1>6. Flags'
    BY DEF LibraryInv, Flags, Flagged, Guarded, RenameSaved, requestVars, Idle
  <1>7. Trims'
    BY DEF LibraryInv, JobTyped, Trims, Trimmed, Present, Eligible, OverQuota, RenameSaved, requestVars, Idle
  <1> QED  BY <1>1, <1>2, <1>3, <1>4, <1>5, <1>6, <1>7 DEF LibraryInv

(* A rename whose catalog could not be written takes the name back, and the   *)
(* file too, if it can.                                                       *)
LEMMA RenameSaveFailsKeeps ==
    ASSUME LibraryInv, RenameSaveFails
    PROVE  LibraryInv'
  <1> DEFINE from == job.from
             to == job.to
  <1>a. /\ job.step = "rename_save" /\ job'.step = "idle" /\ job'.scanned = FALSE /\ job'.freed = {}
        /\ rows' = With(Without(rows, to), from, rows[to])
        /\ UNCHANGED <<staged, catalog, outputDir, quota, pinned>>
    BY DEF RenameSaveFails, requestVars, Idle
  <1>b. /\ from \in Places /\ to \in Places /\ from # to /\ to \in DOMAIN rows
        /\ files[from] = NoClip
    BY <1>a DEF LibraryInv, JobTyped, InHand
  <1>c. \/ /\ files[to] # NoClip
           /\ files' = [files EXCEPT ![from] = files[to], ![to] = NoClip]
           /\ blame' = [blame EXCEPT ![files[to]] = BlameAt(from)]
           /\ unsure' = unsure
        \/ /\ unsure' = unsure \cup (pinned \cap {files[to]})
           /\ files' = files /\ blame' = blame
    BY DEF RenameSaveFails
  <1> HIDE DEF from, to
  <1>d. /\ Table(rows') /\ DOMAIN rows' = (DOMAIN rows \ {to}) \cup {from}
        /\ rows'[from] = rows[to]
        /\ \A q \in DOMAIN rows \ {to, from} : rows'[q] = rows[q]
    <2>1. Table(rows)
      BY DEF LibraryInv, Tables
    <2> QED  BY <2>1, <1>a, <1>b, RowMoved
  <1>1. Tables'
    BY <1>a, <1>d DEF LibraryInv, Tables
  <1>2. JobTyped'
    BY <1>a DEF JobTyped
  <1>3. InHand' /\ Trims'
    BY <1>a DEF InHand, Trims, Trimmed
  <1>4. CASE /\ files[to] # NoClip
             /\ files' = [files EXCEPT ![from] = files[to], ![to] = NoClip]
             /\ blame' = [blame EXCEPT ![files[to]] = BlameAt(from)]
             /\ unsure' = unsure
    <2>a. /\ Disk' /\ Placed'
          /\ files[to] \in Clips /\ files'[to] = NoClip /\ files'[from] = files[to]
          /\ \A q \in Places \ {to, from} : files'[q] = files[q]
          /\ blame'[files[to]] = BlameAt(from)
          /\ \A c \in Clips \ {files[to]} : blame'[c] = blame[c]
      <3>1. unsure' \subseteq Clips
        BY <1>4 DEF LibraryInv, Disk
      <3> QED  BY <3>1, <1>4, <1>a, <1>b, FileMoved
    <2>1. ASSUME NEW c \in pinned' \ unsure'  PROVE  Flagged(c)'
      <3>1. c \in pinned \ unsure /\ c \in Clips /\ Flagged(c)
        BY <1>a, <1>4 DEF LibraryInv, Flags, Disk
      <3>2. blame'[c] # "quota"
        BY <3>1, <2>a DEF Flagged, BlameAt
      <3>3. ASSUME NEW q \in Places, files'[q] = c
            PROVE  Guarded(rows', q) /\ Guarded(catalog', q)
        <4>1. CASE q = from
          <5>1. Guarded(rows, to) /\ Guarded(catalog, from)
            BY <4>1, <3>1, <3>3, <1>a, <1>b, <2>a DEF Flagged, from, to
          <5> QED  BY <5>1, <4>1, <1>a, <1>d DEF Guarded
        <4>2. CASE q # from
          <5>1. q # to /\ files[q] = c
            BY <4>2, <3>1, <3>3, <2>a, LibraryAssumption DEF Clips
          <5>2. Guarded(rows, q) /\ Guarded(catalog, q)
            BY <5>1, <3>1, <1>a DEF Flagged, to
          <5> QED  BY <5>1, <5>2, <4>2, <1>a, <1>d DEF Guarded
        <4> QED  BY <4>1, <4>2
      <3> QED  BY <3>2, <3>3, <1>a DEF Flagged
    <2>2. \A c \in pinned' : blame'[c] # "unsaved"
      BY <1>a, <2>a DEF LibraryInv, Flags, Disk, BlameAt
    <2> QED  BY <2>1, <2>2, <2>a, <1>1, <1>2, <1>3 DEF LibraryInv, Flags
  <1>5. CASE /\ unsure' = unsure \cup (pinned \cap {files[to]})
             /\ files' = files /\ blame' = blame
    <2>1. Disk' /\ Placed'
      BY <1>5, <1>a DEF LibraryInv, Disk, Placed, BlameAt
    <2>2. ASSUME NEW c \in pinned' \ unsure'  PROVE  Flagged(c)'
      <3>1. c \in pinned \ unsure /\ c \in Clips /\ Flagged(c) /\ c # files[to]
        BY <1>a, <1>5 DEF LibraryInv, Flags, Disk
      <3>2. ASSUME NEW q \in Places, files[q] = c
            PROVE  Guarded(rows', q) /\ Guarded(catalog', q)
        <4>1. q # to /\ q # from
          BY <3>1, <3>2, <1>b, LibraryAssumption DEF Clips
        <4>2. Guarded(rows, q) /\ Guarded(catalog, q)
          BY <4>1, <3>1, <3>2, <1>a DEF Flagged, to
        <4> QED  BY <4>1, <4>2, <1>a, <1>d DEF Guarded
      <3> QED  BY <3>1, <3>2, <1>5, <1>a DEF Flagged
    <2>3. \A c \in pinned' : blame'[c] # "unsaved"
      BY <1>a, <1>5 DEF LibraryInv, Flags
    <2> QED  BY <2>1, <2>2, <2>3, <1>1, <1>2, <1>3 DEF LibraryInv, Flags
  <1> QED  BY <1>c, <1>4, <1>5

(* ProtectBegin keeps the invariant. *)
LEMMA ProtectBeginKeeps ==
    ASSUME LibraryInv, NEW p \in Places, NEW on \in BOOLEAN, ProtectBegin(p, on)
    PROVE  LibraryInv'
  <1>a. /\ job.step = "idle" /\ job' = [step |-> "protect_save", place |-> p, on |-> on]
        /\ p \in DOMAIN rows
        /\ rows' = [rows EXCEPT ![p].protected = on]
        /\ UNCHANGED <<files, staged, catalog, outputDir, quota, blame, pinned, unsure>>
    BY DEF ProtectBegin, requestVars
  <1>b. /\ DOMAIN rows' = DOMAIN rows
        /\ rows'[p] = [rows[p] EXCEPT !.protected = on]
        /\ \A q \in DOMAIN rows \ {p} : rows'[q] = rows[q]
    BY <1>a
  <1>c. rows[p] \in Rows /\ rows'[p] \in Rows /\ rows'[p].protected = on
    BY <1>a, <1>b DEF LibraryInv, Tables, Table, Rows
  <1>d. job'.step = "protect_save" /\ "place" \in DOMAIN job' /\ job'.place = p /\ job'.on = on
    BY <1>a
  <1>1. Disk'
    BY DEF LibraryInv, Disk, ProtectBegin, requestVars
  <1>2. Tables'
    BY <1>a, <1>b, <1>c DEF LibraryInv, Tables, Table
  <1>3. JobTyped'
    BY <1>d DEF JobTyped
  <1>4. Placed'
    BY DEF LibraryInv, Disk, Placed, InHand, ProtectBegin, requestVars
  <1>5. InHand'
    BY <1>a, <1>b, <1>c, <1>d DEF InHand
  <1>6. Flags'
    <2>1. \A c \in pinned' : blame'[c] # "unsaved"
      BY <1>a DEF LibraryInv, Flags
    <2>2. ASSUME NEW c \in pinned' \ unsure'  PROVE  Flagged(c)'
      <3>1. c \in pinned \ unsure /\ Flagged(c)
        BY <1>a DEF LibraryInv, Flags
      <3> QED  BY <3>1, <1>a, <1>b, <1>d DEF Flagged, Guarded
    <2> QED  BY <2>1, <2>2 DEF Flags
  <1>7. Trims'
    BY <1>d DEF Trims
  <1> QED  BY <1>1, <1>2, <1>3, <1>4, <1>5, <1>6, <1>7 DEF LibraryInv

(* ProtectSaved keeps the invariant. *)
LEMMA ProtectSavedKeeps ==
    ASSUME LibraryInv, ProtectSaved
    PROVE  LibraryInv'
  <1> DEFINE p == job.place
             clip == {files[p]} \ {NoClip}
  <1>a. /\ job.step = "protect_save" /\ job' = Idle /\ catalog' = rows
        /\ pinned' = IF job.on THEN pinned \cup clip ELSE pinned \ clip
        /\ unsure' = unsure \ clip
        /\ UNCHANGED <<files, staged, rows, outputDir, quota, blame>>
    BY DEF ProtectSaved, requestVars
  <1>b. job'.step = "idle" /\ job'.scanned = FALSE /\ job'.freed = {}
    BY <1>a DEF Idle
  <1>c. p \in Places /\ job.on \in BOOLEAN /\ p \in DOMAIN rows /\ rows[p].protected = job.on
    BY <1>a DEF LibraryInv, JobTyped, InHand
  <1>d. clip \subseteq Clips
    BY <1>c DEF LibraryInv, Disk
  <1> HIDE DEF p
  <1>1. Disk'
    BY <1>a, <1>d DEF LibraryInv, Disk
  <1>2. Tables'
    BY <1>a DEF LibraryInv, Tables
  <1>3. JobTyped'
    BY <1>b DEF JobTyped
  <1>4. Placed'
    BY <1>a DEF LibraryInv, Placed, BlameAt
  <1>5. InHand'
    BY <1>b DEF InHand
  <1>6. Flags'
    <2>1. ASSUME NEW c \in pinned'  PROVE  blame'[c] # "unsaved"
      <3>1. CASE c \in pinned
        BY <3>1, <1>a DEF LibraryInv, Flags
      <3>2. CASE c \in clip
        BY <3>2, <1>a, <1>c DEF LibraryInv, Placed, BlameAt
      <3> QED  BY <3>1, <3>2, <1>a
    <2>2. ASSUME NEW c \in pinned' \ unsure'  PROVE  Flagged(c)'
      <3>1. CASE c \in clip
        <4>1. c \in pinned' /\ c = files[p] /\ c # NoClip
          BY <3>1
        <4>2. job.on
          BY <4>1, <3>1, <1>a
        <4>3. blame[c] # "quota"
          BY <4>1, <1>c DEF LibraryInv, Placed, BlameAt
        <4>4. ASSUME NEW q \in Places, files[q] = c  PROVE  q = p
          BY <4>1, <4>4, <1>c DEF LibraryInv, Placed
        <4>5. Guarded(rows, p)
          BY <4>2, <1>c DEF Guarded
        <4> QED  BY <4>3, <4>4, <4>5, <1>a, <1>b DEF Flagged
      <3>2. CASE c \notin clip
        <4>1. c \in pinned \ unsure /\ c \in Clips
          BY <3>2, <1>a DEF LibraryInv, Disk
        <4>2. c # NoClip /\ Flagged(c)
          BY <4>1, LibraryAssumption DEF LibraryInv, Flags, Clips
        <4>3. ASSUME NEW q \in Places, files[q] = c  PROVE  Guarded(rows, q)
          <5>1. q # p
            BY <4>2, <4>3, <3>2
          <5> QED  BY <5>1, <4>2, <4>3, <1>a DEF Flagged, p
        <4> QED  BY <4>2, <4>3, <1>a, <1>b DEF Flagged
      <3> QED  BY <3>1, <3>2
    <2> QED  BY <2>1, <2>2 DEF Flags
  <1>7. Trims'
    BY <1>b DEF Trims, Trimmed
  <1> QED  BY <1>1, <1>2, <1>3, <1>4, <1>5, <1>6, <1>7 DEF LibraryInv

(* ProtectSaveFails keeps the invariant. *)
LEMMA ProtectSaveFailsKeeps ==
    ASSUME LibraryInv, ProtectSaveFails
    PROVE  LibraryInv'
  <1>a. /\ job.step = "protect_save" /\ job' = Idle
        /\ unsure' = IF job.on THEN unsure ELSE unsure \cup (pinned \cap {files[job.place]})
        /\ UNCHANGED <<files, staged, rows, catalog, outputDir, quota, blame, pinned>>
    BY DEF ProtectSaveFails, requestVars
  <1>b. job'.step = "idle" /\ job'.scanned = FALSE /\ job'.freed = {}
    BY <1>a DEF Idle
  <1>c. job.on \in BOOLEAN /\ job.place \in DOMAIN rows /\ rows[job.place].protected = job.on
    BY <1>a DEF LibraryInv, JobTyped, InHand
  <1>1. Disk'
    BY <1>a DEF LibraryInv, Disk
  <1>2. Tables'
    BY DEF LibraryInv, Tables, Table, ProtectSaveFails, requestVars
  <1>3. JobTyped'
    BY <1>b DEF JobTyped
  <1>4. Placed'
    BY DEF LibraryInv, Disk, Placed, InHand, ProtectSaveFails, requestVars
  <1>5. InHand'
    BY <1>b DEF InHand
  <1>6. Flags'
    <2>1. \A c \in pinned' : blame'[c] # "unsaved"
      BY <1>a DEF LibraryInv, Flags
    <2>2. ASSUME NEW c \in pinned' \ unsure'  PROVE  Flagged(c)'
      <3>1. c \in pinned \ unsure /\ Flagged(c) /\ (job.on \/ c # files[job.place])
        BY <1>a DEF LibraryInv, Flags
      <3>2. ASSUME NEW q \in Places, files[q] = c  PROVE  Guarded(rows, q) /\ Guarded(catalog, q)
        <4>1. CASE q = job.place
          BY <4>1, <3>1, <3>2, <1>a, <1>c DEF Flagged, Guarded
        <4>2. CASE q # job.place
          BY <4>2, <3>1, <3>2, <1>a DEF Flagged
        <4> QED  BY <4>1, <4>2
      <3> QED  BY <3>1, <3>2, <1>a, <1>b DEF Flagged
    <2> QED  BY <2>1, <2>2 DEF Flags
  <1>7. Trims'
    BY <1>b DEF Trims, Trimmed
  <1> QED  BY <1>1, <1>2, <1>3, <1>4, <1>5, <1>6, <1>7 DEF LibraryInv

(* SetOutputDirectory keeps the invariant. *)
LEMMA SetOutputDirectoryKeeps ==
    ASSUME LibraryInv, NEW d \in Dirs, SetOutputDirectory(d)
    PROVE  LibraryInv'
  <1>a. /\ job.step = "idle" /\ job' = Idle /\ outputDir' = d
        /\ rows' = Restrict(rows, DOMAIN rows \cap InDir(d))
        /\ unsure' = unsure \cup (pinned \cap {files[p] : p \in DOMAIN rows \ InDir(d)})
        /\ UNCHANGED <<files, staged, catalog, quota, blame, pinned>>
    BY DEF SetOutputDirectory
  <1>b. job'.step = "idle" /\ job'.scanned = FALSE /\ job'.freed = {}
    BY <1>a DEF Idle
  <1>c. DOMAIN rows' = DOMAIN rows \cap InDir(d) /\ \A q \in DOMAIN rows' : rows'[q] = rows[q]
    BY <1>a DEF Restrict
  <1>1. Disk'
    BY <1>a DEF LibraryInv, Disk
  <1>2. Tables'
    BY <1>a, <1>c DEF LibraryInv, Tables, Table
  <1>3. JobTyped'
    BY <1>b DEF JobTyped
  <1>4. Placed'
    BY <1>a DEF LibraryInv, Placed, BlameAt
  <1>5. InHand'
    BY <1>b DEF InHand
  <1>6. Flags'
    <2>1. \A c \in pinned' : blame'[c] # "unsaved"
      BY <1>a DEF LibraryInv, Flags
    <2>2. ASSUME NEW c \in pinned' \ unsure'  PROVE  Flagged(c)'
      <3>1. c \in pinned \ unsure /\ Flagged(c)
        BY <1>a DEF LibraryInv, Flags
      <3>2. ASSUME NEW q \in Places, files[q] = c  PROVE  Guarded(rows', q) /\ Guarded(catalog, q)
        <4>1. Guarded(rows, q) /\ Guarded(catalog, q)
          BY <3>1, <3>2, <1>a DEF Flagged
        <4>2. q \in InDir(d)
          BY <4>1, <3>2, <1>a DEF Guarded
        <4> QED  BY <4>1, <4>2, <1>c DEF Guarded
      <3> QED  BY <3>1, <3>2, <1>a, <1>b DEF Flagged
    <2> QED  BY <2>1, <2>2 DEF Flags
  <1>7. Trims'
    BY <1>b DEF Trims, Trimmed
  <1> QED  BY <1>1, <1>2, <1>3, <1>4, <1>5, <1>6, <1>7 DEF LibraryInv

(* SetStoragePolicy keeps the invariant. *)
LEMMA SetStoragePolicyKeeps ==
    ASSUME LibraryInv, NEW q \in Quotas, SetStoragePolicy(q)
    PROVE  LibraryInv'
  <1>1. Disk'
    BY DEF LibraryInv, Disk, SetStoragePolicy, requestVars, Idle
  <1>2. Tables'
    BY DEF LibraryInv, Tables, Table, SetStoragePolicy, requestVars, Idle
  <1>3. JobTyped'
    BY DEF LibraryInv, JobTyped, SetStoragePolicy, requestVars, Idle
  <1>4. Placed'
    BY DEF LibraryInv, Disk, Placed, InHand, SetStoragePolicy, requestVars, Idle
  <1>5. InHand'
    BY DEF LibraryInv, InHand, SetStoragePolicy, requestVars, Idle
  <1>6. Flags'
    BY DEF LibraryInv, Flags, Flagged, Guarded, SetStoragePolicy, requestVars, Idle
  <1>7. Trims'
    BY DEF LibraryInv, JobTyped, Trims, Trimmed, Present, Eligible, OverQuota, SetStoragePolicy, requestVars, Idle
  <1> QED  BY <1>1, <1>2, <1>3, <1>4, <1>5, <1>6, <1>7 DEF LibraryInv

(* Crash keeps the invariant. *)
LEMMA CrashKeeps ==
    ASSUME LibraryInv, Crash
    PROVE  LibraryInv'
  <1>a. /\ job.step # "down" /\ job' = Down /\ rows' = NoRows
        /\ unsure' = IF job.step = "rename_save"
                     THEN unsure \cup (pinned \cap {files[job.to]}) ELSE unsure
        /\ UNCHANGED <<files, staged, catalog, outputDir, quota, blame, pinned>>
    BY DEF Crash, requestVars
  <1>b. job'.step = "down"
    BY <1>a DEF Down
  <1>1. Disk'
    BY <1>a DEF LibraryInv, Disk
  <1>2. Tables'
    BY <1>a DEF LibraryInv, Tables, Table, NoRows
  <1>3. JobTyped'
    BY <1>a, <1>b DEF JobTyped, Down
  <1>4. Placed'
    BY <1>a DEF LibraryInv, Placed, BlameAt
  <1>5. InHand'
    BY <1>b DEF InHand
  <1>6. Flags'
    <2>1. \A c \in pinned' : blame'[c] # "unsaved"
      BY <1>a DEF LibraryInv, Flags
    <2>2. ASSUME NEW c \in pinned' \ unsure'  PROVE  Flagged(c)'
      <3>1. c \in pinned \ unsure /\ Flagged(c) /\ (job.step = "rename_save" => c # files[job.to])
        BY <1>a DEF LibraryInv, Flags
      <3>2. \A q \in Places : files[q] = c => Guarded(catalog, q)
        BY <3>1 DEF Flagged
      <3> QED  BY <3>1, <3>2, <1>a, <1>b DEF Flagged
    <2> QED  BY <2>1, <2>2 DEF Flags
  <1>7. Trims'
    BY <1>b DEF Trims
  <1> QED  BY <1>1, <1>2, <1>3, <1>4, <1>5, <1>6, <1>7 DEF LibraryInv

(* LibraryOpen keeps the invariant. *)
LEMMA LibraryOpenKeeps ==
    ASSUME LibraryInv, NEW d \in Dirs, job = Down, outputDir' \in Dirs, quota' \in Quotas, LibraryOpen(d)
    PROVE  LibraryInv'
  <1>a. /\ job' = Idle
        /\ files' = [p \in Places |-> IF p \in Swept(d) THEN NoClip ELSE files[p]]
        /\ staged' = {s \in staged : s.dir # d}
        /\ UNCHANGED <<catalog, blame, pinned>>
    BY DEF LibraryOpen
  <1>b. job'.step = "idle" /\ job'.scanned = FALSE /\ job'.freed = {}
    BY <1>a DEF Idle
  <1>c. \/ /\ rows' = Restrict(catalog, DOMAIN catalog \cap InDir(d))
           /\ unsure' = unsure \cup (pinned \cap {files[p] : p \in DOMAIN catalog \ InDir(d)})
        \/ rows' = NoRows /\ unsure' = unsure \cup pinned
    BY DEF LibraryOpen
  <1>d. /\ \A p \in Places : files'[p] = IF p \in Swept(d) THEN NoClip ELSE files[p]
        /\ \A p \in Swept(d) : BlameAt(p) = "temporary name"
        /\ staged' \subseteq staged
    BY <1>a DEF Swept, BlameAt
  <1>1. Disk'
    <2>1. files' \in [Places -> Clips \cup {NoClip}]
      BY <1>a DEF LibraryInv, Disk
    <2>2. unsure' \subseteq Clips
      BY <1>c DEF LibraryInv, Disk
    <2> QED  BY <2>1, <2>2, <1>a, <1>d DEF LibraryInv, Disk
  <1>2. Tables'
    <2>1. CASE rows' = Restrict(catalog, DOMAIN catalog \cap InDir(d))
      BY <2>1, <1>a DEF LibraryInv, Tables, Table, Restrict
    <2>2. CASE rows' = NoRows
      BY <2>2, <1>a DEF LibraryInv, Tables, Table, NoRows
    <2> QED  BY <2>1, <2>2, <1>c
  <1>3. JobTyped'
    BY <1>b DEF JobTyped
  <1>4. Placed'
    <2>1. \A p, q \in Places : files'[p] = files'[q] /\ files'[p] # NoClip => p = q
      <3>1. \A p \in Places : files'[p] # NoClip => files'[p] = files[p]
        BY <1>d
      <3>2. \A p, q \in Places : files[p] = files[q] /\ files[p] # NoClip => p = q
        BY DEF LibraryInv, Placed
      <3> QED  BY <3>1, <3>2
    <2>2. ASSUME NEW p \in Places, files'[p] # NoClip
          PROVE  (\A s \in staged' : s.clip # files'[p]) /\ blame'[files'[p]] = BlameAt(p)
      BY <2>2, <1>a, <1>d DEF LibraryInv, Placed
    <2>3. ASSUME NEW c \in Clips, blame'[c] = "none"  PROVE  \E p \in Places : files'[p] = c
      <3>1. PICK p \in Places : files[p] = c
        BY <2>3, <1>a DEF LibraryInv, Placed
      <3>2. BlameAt(p) = "none"
        BY <2>3, <3>1, <1>a, LibraryAssumption DEF LibraryInv, Placed, Clips
      <3> QED  BY <3>1, <3>2, <1>d
    <2>4. \A s \in staged' : blame'[s.clip] # "unsaved"
      BY <1>a, <1>d DEF LibraryInv, Placed
    <2> QED  BY <2>1, <2>2, <2>3, <2>4 DEF Placed, BlameAt
  <1>5. InHand'
    BY <1>b DEF InHand
  <1>6. Flags'
    <2>1. \A c \in pinned' : blame'[c] # "unsaved"
      BY <1>a DEF LibraryInv, Flags
    <2>2. ASSUME NEW c \in pinned' \ unsure'  PROVE  Flagged(c)'
      <3>1. /\ c \in pinned \ unsure /\ Flagged(c) /\ c \in Clips
            /\ rows' = Restrict(catalog, DOMAIN catalog \cap InDir(d))
            /\ \A q \in DOMAIN catalog : files[q] = c => q \in InDir(d)
        BY <1>a, <1>c DEF LibraryInv, Flags, Disk
      <3>2. DOMAIN rows' = DOMAIN catalog \cap InDir(d) /\ \A q \in DOMAIN rows' : rows'[q] = catalog[q]
        BY <3>1 DEF Restrict
      <3>3. ASSUME NEW q \in Places, files'[q] = c  PROVE  Guarded(rows', q) /\ Guarded(catalog, q)
        <4>1. files[q] = c
          BY <3>1, <3>3, <1>d, LibraryAssumption DEF Clips
        <4>2. Guarded(catalog, q)
          BY <4>1, <3>1 DEF Flagged, Down
        <4> QED  BY <4>1, <4>2, <3>1, <3>2 DEF Guarded
      <3>4. blame'[c] # "quota"
        BY <3>1, <1>a DEF Flagged
      <3> QED  BY <3>3, <3>4, <1>a, <1>b DEF Flagged
    <2> QED  BY <2>1, <2>2 DEF Flags
  <1>7. Trims'
    BY <1>b DEF Trims, Trimmed
  <1> QED  BY <1>1, <1>2, <1>3, <1>4, <1>5, <1>6, <1>7 DEF LibraryInv

(* The library keeps its own invariant, whoever asks for what.                *)
LEMMA RequestKeeps ==
    ASSUME LibraryInv, LibraryRequest
    PROVE  LibraryInv'
  BY ScanBeginKeeps, ScanFailsKeeps, ScanSaveKeeps, ScanEndKeeps, DeleteKeeps, EvictKeeps,
     StagingFailsKeeps, DeleteSavedKeeps, DeleteSaveFailsKeeps, DeleteUnlinkKeeps, RenameBeginKeeps,
     RenameSavedKeeps, RenameSaveFailsKeeps, ProtectBeginKeeps, ProtectSavedKeeps, ProtectSaveFailsKeeps
     DEF LibraryRequest

(* A request leaves the directory and the quota, and needs a library.         *)
LEMMA RequestNeedsLibrary ==
    ASSUME LibraryInv, LibraryRequest
    PROVE  LibraryUp /\ UNCHANGED <<outputDir, quota>>
  <1>1. job.step # "down" => LibraryUp
    BY DEF LibraryUp, Down
  <1>2. CASE ScanBegin
    BY <1>1, <1>2 DEF ScanBegin, requestVars
  <1>3. CASE ScanFails
    BY <1>1, <1>3 DEF ScanFails, requestVars
  <1>4. CASE ScanSave
    BY <1>1, <1>4 DEF ScanSave, requestVars
  <1>5. CASE ScanEnd
    BY <1>1, <1>5 DEF ScanEnd, requestVars
  <1>6. CASE StagingFails
    BY <1>1, <1>6 DEF StagingFails, requestVars
  <1>7. CASE DeleteSaved
    BY <1>1, <1>7 DEF DeleteSaved, requestVars
  <1>8. CASE DeleteSaveFails
    BY <1>1, <1>8 DEF DeleteSaveFails, requestVars
  <1>9. CASE DeleteUnlink
    BY <1>1, <1>9 DEF DeleteUnlink, requestVars
  <1>10. CASE RenameSaved
    BY <1>1, <1>10 DEF RenameSaved, requestVars
  <1>11. CASE RenameSaveFails
    BY <1>1, <1>11 DEF RenameSaveFails, requestVars
  <1>12. CASE ProtectSaved
    BY <1>1, <1>12 DEF ProtectSaved, requestVars
  <1>13. CASE ProtectSaveFails
    BY <1>1, <1>13 DEF ProtectSaveFails, requestVars
  <1>14. ASSUME NEW p \in Places, Delete(p)
        PROVE  LibraryUp /\ UNCHANGED <<outputDir, quota>>
    BY <1>1, <1>14 DEF Delete, DeleteBegin, requestVars
  <1>15. ASSUME NEW p \in Places, Evict(p)
        PROVE  LibraryUp /\ UNCHANGED <<outputDir, quota>>
    BY <1>1, <1>15 DEF Evict, DeleteBegin, requestVars
  <1>16. ASSUME NEW p \in Places, NEW q \in Places, RenameBegin(p, q)
        PROVE  LibraryUp /\ UNCHANGED <<outputDir, quota>>
    BY <1>1, <1>16 DEF RenameBegin, requestVars
  <1>17. ASSUME NEW p \in Places, NEW on \in BOOLEAN, ProtectBegin(p, on)
        PROVE  LibraryUp /\ UNCHANGED <<outputDir, quota>>
    BY <1>1, <1>17 DEF ProtectBegin, requestVars
  <1> QED
    BY <1>2, <1>3, <1>4, <1>5, <1>6, <1>7, <1>8, <1>9, <1>10, <1>11, <1>12, <1>13, <1>14, <1>15, <1>16, <1>17 DEF LibraryRequest

(* The documents of the shell, and how far a change of them is.               *)
ShellTyped ==
    /\ stored \in Documents /\ recorder \in Documents /\ config \in Documents \cup {NoFile}
    /\ change.step \in {"idle", "dead", "starting", "recorder", "directory", "policy",
           "persist", "adopt", "undo_directory", "undo_policy", "undo_recorder", "undo_keys"}
    /\ change.step \notin {"idle", "dead", "starting"} =>
        {"step", "next", "created"} \subseteq DOMAIN change /\ change.next \in Documents
    /\ change.step \in {"dead", "starting"} => job = Down
    /\ bound \in {doc.keys : doc \in Documents} \cup {NoManager}
    /\ torn \subseteq {"recorder", "keys", "config"}

ShellInv == LibraryInv /\ ShellTyped /\ Halfway

(* What the library and the world do leaves a change of settings as it is.    *)
LEMMA AroundKeeps ==
    ASSUME ShellInv, LibraryInv', UNCHANGED <<outputDir, quota, stored, recorder, bound, config, change, torn>>,
           LibraryUp' => LibraryUp
    PROVE  ShellInv'
  <1>1. ShellTyped'
    BY DEF ShellInv, ShellTyped, LibraryUp
  <1>2. Halfway'
    BY DEF ShellInv, Halfway, Forward, LibraryFollows, RecorderKept, KeysKept, FileKept
  <1> QED  BY <1>1, <1>2 DEF ShellInv

(* The shell's own steps leave the library's files and rows alone.            *)
LEMMA LibraryStill ==
    ASSUME ShellInv, UNCHANGED libraryState
    PROVE  LibraryInv' /\ LibraryUp' = LibraryUp /\ outputDir' = outputDir /\ quota' = quota
  <1>1. /\ files' = files /\ staged' = staged /\ rows' = rows /\ catalog' = catalog
        /\ outputDir' = outputDir /\ quota' = quota /\ job' = job /\ blame' = blame
        /\ pinned' = pinned /\ unsure' = unsure
    BY DEF libraryState
  <1>2. LibraryInv
    BY DEF ShellInv
  <1>3. Disk' /\ Tables' /\ JobTyped'
    BY <1>1, <1>2 DEF LibraryInv, Disk, Tables, JobTyped
  <1>4. Placed' /\ InHand'
    BY <1>1, <1>2 DEF LibraryInv, Placed, InHand, BlameAt
  <1>5. Flags'
    BY <1>1, <1>2 DEF LibraryInv, Flags, Flagged, Guarded
  <1>6. Trims'
    BY <1>1, <1>2 DEF LibraryInv, Trims, Trimmed, Present, Eligible, OverQuota
  <1> QED  BY <1>1, <1>3, <1>4, <1>5, <1>6 DEF LibraryInv, LibraryUp

(* A document has a directory, a quota and hotkeys.                           *)
LEMMA DocumentParts ==
    ASSUME NEW doc \in Documents
    PROVE  doc.dir \in Dirs /\ doc.quota \in Quotas /\ doc.keys # NoManager
  BY SettingsAssumption

(* A change of settings that goes on to its next step.                        *)
LEMMA Going ==
    ASSUME ShellInv, change.step \notin {"idle", "dead", "starting"}, NEW step, Goto(step)
    PROVE  /\ change'.step = step /\ change'.next = change.next
           /\ {"step", "next", "created"} \subseteq DOMAIN change' /\ change.next \in Documents
  BY DEF ShellInv, ShellTyped, Goto

(* The directory of a library that is there follows; the rest stays.          *)
LEMMA DirectoryChanged ==
    ASSUME ShellInv, NEW d \in Dirs, ChangeDirectory(d)
    PROVE  /\ LibraryInv' /\ LibraryUp' = LibraryUp
           /\ LibraryUp => outputDir' = d /\ quota' = quota
           /\ UNCHANGED <<stored, recorder, bound, config, torn>>
  <1>1. CASE LibraryUp
    <2>1. SetOutputDirectory(d)
      BY <1>1 DEF ChangeDirectory
    <2>2. LibraryInv'
      BY <2>1, SetOutputDirectoryKeeps DEF ShellInv
    <2>3. job' = Idle /\ outputDir' = d /\ quota' = quota
      BY <2>1 DEF SetOutputDirectory
    <2>4. LibraryUp'
      BY <2>3 DEF LibraryUp, Idle, Down
    <2> QED  BY <1>1, <2>2, <2>3, <2>4 DEF ChangeDirectory
  <1>2. CASE ~LibraryUp
    <2>1. UNCHANGED libraryState
      BY <1>2 DEF ChangeDirectory, libraryVars, libraryState
    <2> QED  BY <1>2, <2>1, LibraryStill DEF ChangeDirectory
  <1> QED  BY <1>1, <1>2

(* So does its quota.                                                         *)
LEMMA PolicyChanged ==
    ASSUME ShellInv, NEW q \in Quotas, ChangePolicy(q)
    PROVE  /\ LibraryInv' /\ LibraryUp' = LibraryUp
           /\ LibraryUp => quota' = q /\ outputDir' = outputDir
           /\ UNCHANGED <<stored, recorder, bound, config, torn>>
  <1>1. CASE LibraryUp
    <2>1. SetStoragePolicy(q)
      BY <1>1 DEF ChangePolicy
    <2>2. LibraryInv'
      BY <2>1, SetStoragePolicyKeeps DEF ShellInv
    <2>3. job' = Idle /\ outputDir' = outputDir /\ quota' = q
      BY <2>1 DEF SetStoragePolicy
    <2>4. LibraryUp'
      BY <2>3 DEF LibraryUp, Idle, Down
    <2> QED  BY <1>1, <2>2, <2>3, <2>4 DEF ChangePolicy
  <1>2. CASE ~LibraryUp
    <2>1. UNCHANGED libraryState
      BY <1>2 DEF ChangePolicy, libraryVars, libraryState
    <2> QED  BY <1>2, <2>1, LibraryStill DEF ChangePolicy
  <1> QED  BY <1>1, <1>2


(* The hotkeys first: they follow the next document.                          *)
LEMMA ApplyBindingsKeeps ==
    ASSUME ShellInv, NEW next \in Documents, ApplyBindings(next)
    PROVE  ShellInv'
  <1>a. /\ change.step = "idle" /\ bound' = next.keys
        /\ change' = [step |-> "recorder", next |-> next, created |-> bound = NoManager]
        /\ UNCHANGED <<stored, recorder, config, torn>> /\ UNCHANGED libraryState
    BY DEF ApplyBindings
  <1>b. /\ change'.step = "recorder" /\ change'.next = next
        /\ {"step", "next", "created"} \subseteq DOMAIN change'
    BY <1>a
  <1>c. LibraryInv' /\ LibraryUp' = LibraryUp /\ outputDir' = outputDir /\ quota' = quota
    BY <1>a, LibraryStill
  <1>1. ShellTyped'
    BY <1>a, <1>b DEF ShellInv, ShellTyped
  <1>2. Halfway'
    BY <1>a, <1>b, <1>c DEF ShellInv, Halfway, Forward, LibraryFollows, RecorderKept, FileKept
  <1> QED  BY <1>c, <1>1, <1>2 DEF ShellInv

(* The recorder next, or back to the hotkeys. *)
LEMMA UpdateRecorderKeeps ==
    ASSUME ShellInv, UpdateRecorder
    PROVE  ShellInv'
  <1>a. change.step = "recorder" /\ change.step \notin {"idle", "dead", "starting"}
    BY DEF UpdateRecorder
  <1>b. LibraryInv' /\ LibraryUp' = LibraryUp /\ outputDir' = outputDir /\ quota' = quota
    BY LibraryStill DEF UpdateRecorder
  <1>c. UNCHANGED <<stored, bound, config, torn>>
    BY DEF UpdateRecorder
  <1>1. CASE Goto("directory") /\ recorder' = change.next
    <2>1. /\ change'.step = "directory" /\ change'.next = change.next
          /\ {"step", "next", "created"} \subseteq DOMAIN change' /\ change.next \in Documents
      BY <1>1, <1>a, Going
    <2>2. ShellTyped'
      BY <2>1, <1>a, <1>b, <1>c, <1>1 DEF ShellInv, ShellTyped
    <2>3. Halfway'
      BY <2>1, <1>a, <1>b, <1>c, <1>1 DEF ShellInv, Halfway, Forward, LibraryFollows, KeysFollow, RecorderKept, KeysKept, FileKept
    <2> QED  BY <1>b, <2>2, <2>3 DEF ShellInv
  <1>2. CASE Goto("undo_keys") /\ recorder' = recorder
    <2>1. /\ change'.step = "undo_keys" /\ change'.next = change.next
          /\ {"step", "next", "created"} \subseteq DOMAIN change' /\ change.next \in Documents
      BY <1>2, <1>a, Going
    <2>2. ShellTyped'
      BY <2>1, <1>a, <1>b, <1>c, <1>2 DEF ShellInv, ShellTyped
    <2>3. Halfway'
      BY <2>1, <1>a, <1>b, <1>c, <1>2 DEF ShellInv, Halfway, Forward, LibraryFollows, KeysFollow, RecorderKept, KeysKept, FileKept
    <2> QED  BY <1>b, <2>2, <2>3 DEF ShellInv
  <1> QED  BY <1>1, <1>2 DEF UpdateRecorder

(* The directory of the library. *)
LEMMA UpdateDirectoryKeeps ==
    ASSUME ShellInv, UpdateDirectory
    PROVE  ShellInv'
  <1>a. change.step = "directory" /\ change.step \notin {"idle", "dead", "starting"}
    BY DEF UpdateDirectory
  <1>b. /\ LibraryInv' /\ LibraryUp' = LibraryUp
        /\ LibraryUp => outputDir' = change.next.dir /\ quota' = quota
        /\ UNCHANGED <<stored, recorder, bound, config, torn>>
    <2>1. change.next.dir \in Dirs
      BY <1>a, DocumentParts DEF ShellInv, ShellTyped
    <2> QED  BY <2>1, DirectoryChanged DEF UpdateDirectory
  <1>c. UNCHANGED <<stored, recorder, bound, config, torn>>
    BY <1>b DEF UpdateDirectory
  <1>1. CASE Goto("policy")
    <2>1. /\ change'.step = "policy" /\ change'.next = change.next
          /\ {"step", "next", "created"} \subseteq DOMAIN change' /\ change.next \in Documents
      BY <1>1, <1>a, Going
    <2>2. ShellTyped'
      BY <2>1, <1>a, <1>b, <1>c, <1>1 DEF ShellInv, ShellTyped
    <2>3. Halfway'
      BY <2>1, <1>a, <1>b, <1>c, <1>1 DEF ShellInv, Halfway, Forward, LibraryFollows, KeysFollow, RecorderKept, KeysKept, FileKept
    <2> QED  BY <1>b, <2>2, <2>3 DEF ShellInv
  <1> QED  BY <1>1 DEF UpdateDirectory

(* Its quota, if there is a library. *)
LEMMA UpdatePolicyKeeps ==
    ASSUME ShellInv, UpdatePolicy
    PROVE  ShellInv'
  <1>a. change.step = "policy" /\ change.step \notin {"idle", "dead", "starting"}
    BY DEF UpdatePolicy
  <1>b. /\ LibraryInv' /\ LibraryUp' = LibraryUp
        /\ LibraryUp => quota' = change.next.quota /\ outputDir' = outputDir
        /\ UNCHANGED <<stored, recorder, bound, config, torn>>
    <2>1. change.next.quota \in Quotas
      BY <1>a, DocumentParts DEF ShellInv, ShellTyped
    <2> QED  BY <2>1, PolicyChanged DEF UpdatePolicy
  <1>c. UNCHANGED <<stored, recorder, bound, config, torn>>
    BY <1>b DEF UpdatePolicy
  <1>1. CASE Goto("persist") /\ LibraryUp
    <2>1. /\ change'.step = "persist" /\ change'.next = change.next
          /\ {"step", "next", "created"} \subseteq DOMAIN change' /\ change.next \in Documents
      BY <1>1, <1>a, Going
    <2>2. ShellTyped'
      BY <2>1, <1>a, <1>b, <1>c, <1>1 DEF ShellInv, ShellTyped
    <2>3. Halfway'
      BY <2>1, <1>a, <1>b, <1>c, <1>1 DEF ShellInv, Halfway, Forward, LibraryFollows, KeysFollow, RecorderKept, KeysKept, FileKept
    <2> QED  BY <1>b, <2>2, <2>3 DEF ShellInv
  <1>2. CASE Goto("undo_directory") /\ ~LibraryUp
    <2>1. /\ change'.step = "undo_directory" /\ change'.next = change.next
          /\ {"step", "next", "created"} \subseteq DOMAIN change' /\ change.next \in Documents
      BY <1>2, <1>a, Going
    <2>2. ShellTyped'
      BY <2>1, <1>a, <1>b, <1>c, <1>2 DEF ShellInv, ShellTyped
    <2>3. Halfway'
      BY <2>1, <1>a, <1>b, <1>c, <1>2 DEF ShellInv, Halfway, Forward, LibraryFollows, KeysFollow, RecorderKept, KeysKept, FileKept
    <2> QED  BY <1>b, <2>2, <2>3 DEF ShellInv
  <1> QED  BY <1>1, <1>2 DEF UpdatePolicy

(* The file. *)
LEMMA PersistKeeps ==
    ASSUME ShellInv, Persist
    PROVE  ShellInv'
  <1>a. change.step = "persist" /\ change.step \notin {"idle", "dead", "starting"}
    BY DEF Persist
  <1>b. LibraryInv' /\ LibraryUp' = LibraryUp /\ outputDir' = outputDir /\ quota' = quota
    BY LibraryStill DEF Persist
  <1>c. UNCHANGED <<stored, recorder, bound, torn>>
    BY DEF Persist
  <1>1. CASE Goto("adopt") /\ config' = change.next
    <2>1. /\ change'.step = "adopt" /\ change'.next = change.next
          /\ {"step", "next", "created"} \subseteq DOMAIN change' /\ change.next \in Documents
      BY <1>1, <1>a, Going
    <2>2. ShellTyped'
      BY <2>1, <1>a, <1>b, <1>c, <1>1 DEF ShellInv, ShellTyped
    <2>3. Halfway'
      BY <2>1, <1>a, <1>b, <1>c, <1>1 DEF ShellInv, Halfway, Forward, LibraryFollows, KeysFollow, RecorderKept, KeysKept, FileKept
    <2> QED  BY <1>b, <2>2, <2>3 DEF ShellInv
  <1>2. CASE Goto("undo_directory") /\ config' = config
    <2>1. /\ change'.step = "undo_directory" /\ change'.next = change.next
          /\ {"step", "next", "created"} \subseteq DOMAIN change' /\ change.next \in Documents
      BY <1>2, <1>a, Going
    <2>2. ShellTyped'
      BY <2>1, <1>a, <1>b, <1>c, <1>2 DEF ShellInv, ShellTyped
    <2>3. Halfway'
      BY <2>1, <1>a, <1>b, <1>c, <1>2 DEF ShellInv, Halfway, Forward, LibraryFollows, KeysFollow, RecorderKept, KeysKept, FileKept
    <2> QED  BY <1>b, <2>2, <2>3 DEF ShellInv
  <1> QED  BY <1>1, <1>2 DEF Persist

(* And the shell, which is done. *)
LEMMA AdoptKeeps ==
    ASSUME ShellInv, Adopt
    PROVE  ShellInv'
  <1>a. /\ change.step = "adopt" /\ stored' = change.next /\ change' = Steady /\ torn' = {}
        /\ UNCHANGED <<recorder, bound, config>>
    BY DEF Adopt
  <1>b. LibraryInv' /\ LibraryUp' = LibraryUp /\ outputDir' = outputDir /\ quota' = quota
    BY LibraryStill DEF Adopt
  <1>c. change'.step = "idle" /\ change.next \in Documents
    BY <1>a DEF Steady, ShellInv, ShellTyped
  <1>1. ShellTyped'
    BY <1>a, <1>c DEF ShellInv, ShellTyped
  <1>2. Halfway'
    BY <1>a, <1>b, <1>c DEF ShellInv, Halfway, Forward, LibraryFollows, RecorderKept, KeysKept, FileKept
  <1> QED  BY <1>b, <1>1, <1>2 DEF ShellInv

(* Back: the directory. *)
LEMMA UndoDirectoryKeeps ==
    ASSUME ShellInv, UndoDirectory
    PROVE  ShellInv'
  <1>a. change.step = "undo_directory" /\ change.step \notin {"idle", "dead", "starting"}
    BY DEF UndoDirectory
  <1>b. /\ LibraryInv' /\ LibraryUp' = LibraryUp
        /\ LibraryUp => outputDir' = stored.dir /\ quota' = quota
        /\ UNCHANGED <<stored, recorder, bound, config, torn>>
    <2>1. stored.dir \in Dirs
      BY DocumentParts DEF ShellInv, ShellTyped
    <2> QED  BY <2>1, DirectoryChanged DEF UndoDirectory
  <1>c. UNCHANGED <<stored, recorder, bound, config, torn>>
    BY <1>b DEF UndoDirectory
  <1>1. CASE Goto("undo_policy")
    <2>1. /\ change'.step = "undo_policy" /\ change'.next = change.next
          /\ {"step", "next", "created"} \subseteq DOMAIN change' /\ change.next \in Documents
      BY <1>1, <1>a, Going
    <2>2. ShellTyped'
      BY <2>1, <1>a, <1>b, <1>c, <1>1 DEF ShellInv, ShellTyped
    <2>3. Halfway'
      BY <2>1, <1>a, <1>b, <1>c, <1>1 DEF ShellInv, Halfway, Forward, LibraryFollows, KeysFollow, RecorderKept, KeysKept, FileKept
    <2> QED  BY <1>b, <2>2, <2>3 DEF ShellInv
  <1> QED  BY <1>1 DEF UndoDirectory

(* The quota. *)
LEMMA UndoPolicyKeeps ==
    ASSUME ShellInv, UndoPolicy
    PROVE  ShellInv'
  <1>a. change.step = "undo_policy" /\ change.step \notin {"idle", "dead", "starting"}
    BY DEF UndoPolicy
  <1>b. /\ LibraryInv' /\ LibraryUp' = LibraryUp
        /\ LibraryUp => quota' = stored.quota /\ outputDir' = outputDir
        /\ UNCHANGED <<stored, recorder, bound, config, torn>>
    <2>1. stored.quota \in Quotas
      BY DocumentParts DEF ShellInv, ShellTyped
    <2> QED  BY <2>1, PolicyChanged DEF UndoPolicy
  <1>c. UNCHANGED <<stored, recorder, bound, config, torn>>
    BY <1>b DEF UndoPolicy
  <1>1. CASE Goto("undo_recorder")
    <2>1. /\ change'.step = "undo_recorder" /\ change'.next = change.next
          /\ {"step", "next", "created"} \subseteq DOMAIN change' /\ change.next \in Documents
      BY <1>1, <1>a, Going
    <2>2. ShellTyped'
      BY <2>1, <1>a, <1>b, <1>c, <1>1 DEF ShellInv, ShellTyped
    <2>3. Halfway'
      BY <2>1, <1>a, <1>b, <1>c, <1>1 DEF ShellInv, Halfway, Forward, LibraryFollows, KeysFollow, RecorderKept, KeysKept, FileKept
    <2> QED  BY <1>b, <2>2, <2>3 DEF ShellInv
  <1> QED  BY <1>1 DEF UndoPolicy

(* The recorder, or the shell knows that it could not. *)
LEMMA UndoRecorderKeeps ==
    ASSUME ShellInv, UndoRecorder
    PROVE  ShellInv'
  <1>a. change.step = "undo_recorder" /\ change.step \notin {"idle", "dead", "starting"}
    BY DEF UndoRecorder
  <1>b. LibraryInv' /\ LibraryUp' = LibraryUp /\ outputDir' = outputDir /\ quota' = quota
    BY LibraryStill DEF UndoRecorder
  <1>c. UNCHANGED <<stored, bound, config>>
    BY DEF UndoRecorder
  <1>1. CASE Goto("undo_keys") /\ ((recorder' = stored /\ torn' = torn) \/ (recorder' = recorder /\ torn' = torn \cup {"recorder"}))
    <2>1. /\ change'.step = "undo_keys" /\ change'.next = change.next
          /\ {"step", "next", "created"} \subseteq DOMAIN change' /\ change.next \in Documents
      BY <1>1, <1>a, Going
    <2>2. ShellTyped'
      BY <2>1, <1>a, <1>b, <1>c, <1>1 DEF ShellInv, ShellTyped
    <2>3. Halfway'
      BY <2>1, <1>a, <1>b, <1>c, <1>1 DEF ShellInv, Halfway, Forward, LibraryFollows, KeysFollow, RecorderKept, KeysKept, FileKept
    <2> QED  BY <1>b, <2>2, <2>3 DEF ShellInv
  <1> QED  BY <1>1 DEF UndoRecorder

(* And the hotkeys, likewise. *)
LEMMA UndoBindingsKeeps ==
    ASSUME ShellInv, UndoBindings
    PROVE  ShellInv'
  <1>a. /\ change.step = "undo_keys" /\ change' = Steady
        /\ UNCHANGED <<stored, recorder, config>>
        /\ \/ bound' \in {stored.keys, NoManager} /\ torn' = torn
           \/ bound' = bound /\ torn' = torn \cup {"keys"}
    BY DEF UndoBindings
  <1>b. LibraryInv' /\ LibraryUp' = LibraryUp /\ outputDir' = outputDir /\ quota' = quota
    BY LibraryStill DEF UndoBindings
  <1>c. change'.step = "idle"
    BY <1>a DEF Steady
  <1>1. ShellTyped'
    BY <1>a, <1>c DEF ShellInv, ShellTyped
  <1>2. Halfway'
    BY <1>a, <1>b, <1>c DEF ShellInv, Halfway, LibraryFollows, RecorderKept, KeysKept, FileKept
  <1> QED  BY <1>b, <1>1, <1>2 DEF ShellInv

(* The process ends wherever it is. *)
LEMMA ProcessDiesKeeps ==
    ASSUME ShellInv, ProcessDies
    PROVE  ShellInv'
  <1>a. Crash /\ change' = [step |-> "dead"] /\ UNCHANGED <<stored, recorder, bound, config, torn>>
    BY DEF ProcessDies
  <1>b. LibraryInv' /\ job' = Down
    BY <1>a, CrashKeeps DEF ShellInv, Crash
  <1>c. change'.step = "dead"
    BY <1>a
  <1>1. ShellTyped'
    BY <1>a, <1>b, <1>c DEF ShellInv, ShellTyped
  <1>2. Halfway'
    BY <1>c DEF Halfway
  <1> QED  BY <1>b, <1>1, <1>2 DEF ShellInv

(* The next one goes by the file, or by the default where it cannot. *)
LEMMA ShellStartKeeps ==
    ASSUME ShellInv, ShellStart
    PROVE  ShellInv'
  <1> DEFINE asSaved == IF config = NoFile THEN DefaultDocument ELSE config
  <1>a. /\ change.step = "dead" /\ change' = [step |-> "starting"] /\ recorder' = stored'
        /\ config' = config /\ UNCHANGED libraryState
        /\ \/ stored' = asSaved /\ bound' \in {asSaved.keys, NoManager} /\ torn' = {}
           \/ stored' = DefaultDocument /\ bound' = DefaultDocument.keys /\ torn' = {"config"}
    BY DEF ShellStart
  <1>b. LibraryInv' /\ LibraryUp' = LibraryUp
    BY <1>a, LibraryStill
  <1>c. change'.step = "starting" /\ DefaultDocument \in Documents /\ job' = job
    BY <1>a, SettingsAssumption DEF libraryState
  <1>1. ShellTyped'
    BY <1>a, <1>c DEF ShellInv, ShellTyped
  <1>2. Halfway'
    BY <1>a, <1>c DEF Halfway, RecorderKept, KeysKept, FileKept
  <1> QED  BY <1>b, <1>1, <1>2 DEF ShellInv

(* And the library after it, which may not start. *)
LEMMA LibraryStartKeeps ==
    ASSUME ShellInv, LibraryStart
    PROVE  ShellInv'
  <1>a. /\ change.step = "starting" /\ change' = Steady
        /\ outputDir' = stored.dir /\ quota' = stored.quota
        /\ UNCHANGED <<stored, recorder, bound, config, torn>>
    BY DEF LibraryStart
  <1>b. job = Down /\ stored.dir \in Dirs /\ stored.quota \in Quotas
    BY <1>a, DocumentParts DEF ShellInv, ShellTyped
  <1>c. LibraryInv'
    <2>1. CASE LibraryOpen(stored.dir)
      BY <2>1, <1>a, <1>b, LibraryOpenKeeps DEF ShellInv
    <2>2. CASE UNCHANGED <<files, staged, rows, unsure, catalog, job, blame, pinned>>
      <3>a. /\ files' = files /\ staged' = staged /\ rows' = rows /\ catalog' = catalog
            /\ job' = job /\ blame' = blame /\ pinned' = pinned /\ unsure' = unsure
            /\ job.step = "down"
        BY <2>2, <1>b DEF Down
      <3>1. Disk' /\ Tables' /\ JobTyped'
        BY <3>a, <1>a, <1>b DEF ShellInv, LibraryInv, Disk, Tables, JobTyped
      <3>2. Placed' /\ InHand'
        BY <3>a DEF ShellInv, LibraryInv, Placed, InHand, BlameAt
      <3>3. Flags' /\ Trims'
        BY <3>a DEF ShellInv, LibraryInv, Flags, Flagged, Guarded, Trims
      <3> QED  BY <3>1, <3>2, <3>3 DEF LibraryInv
    <2> QED  BY <2>1, <2>2 DEF LibraryStart
  <1>d. change'.step = "idle"
    BY <1>a DEF Steady
  <1>1. ShellTyped'
    BY <1>a, <1>d DEF ShellInv, ShellTyped
  <1>2. Halfway'
    BY <1>a, <1>d DEF ShellInv, Halfway, LibraryFollows, RecorderKept, KeysKept, FileKept
  <1> QED  BY <1>c, <1>1, <1>2 DEF ShellInv

(* Every step of the shell and of the library under it keeps the invariant.   *)
LEMMA ShellStep ==
    ASSUME ShellInv, [ShellNext]_shellVars
    PROVE  ShellInv'
  <1>1. CASE ApplyAppSettings
    BY <1>1, ApplyBindingsKeeps, UpdateRecorderKeeps, UpdateDirectoryKeeps, UpdatePolicyKeeps,
       PersistKeeps, AdoptKeeps, UndoDirectoryKeeps, UndoPolicyKeeps, UndoRecorderKeeps,
       UndoBindingsKeeps DEF ApplyAppSettings
  <1>2. CASE ProcessDies
    BY <1>2, ProcessDiesKeeps
  <1>3. CASE ShellStart
    BY <1>3, ShellStartKeeps
  <1>4. CASE LibraryStart
    BY <1>4, LibraryStartKeeps
  <1>5. CASE LibraryRequest /\ UNCHANGED shellOwn
    <2>1. LibraryInv' /\ LibraryUp /\ UNCHANGED <<outputDir, quota>>
      BY <1>5, RequestKeeps, RequestNeedsLibrary DEF ShellInv
    <2> QED  BY <2>1, <1>5, AroundKeeps DEF shellOwn
  <1>6. CASE (\E p \in Places : PublishClip(p) \/ RemovedOutside(p)) /\ UNCHANGED shellOwn
    <2>1. PICK p \in Places : PublishClip(p) \/ RemovedOutside(p)
      BY <1>6
    <2>2. LibraryInv'
      BY <2>1, PublishClipKeeps, RemovedOutsideKeeps DEF ShellInv
    <2>3. job' = job /\ UNCHANGED <<outputDir, quota>>
      BY <2>1 DEF PublishClip, RemovedOutside, requestVars
    <2> QED  BY <2>2, <2>3, <1>6, AroundKeeps DEF shellOwn, LibraryUp
  <1>7. CASE UNCHANGED shellVars
    <2>1. UNCHANGED libraryState /\ UNCHANGED shellOwn
      BY <1>7 DEF shellVars, libraryVars, libraryState
    <2>2. LibraryInv' /\ LibraryUp' = LibraryUp /\ outputDir' = outputDir /\ quota' = quota
      BY <2>1, LibraryStill
    <2> QED  BY <2>1, <2>2, AroundKeeps DEF shellOwn
  <1>8. ASSUME NEW p \in InDir(recorder.dir)  PROVE  p \in Places
    BY DEF InDir
  <1> QED
    BY <1>1, <1>2, <1>3, <1>4, <1>5, <1>6, <1>7, <1>8 DEF ShellNext, LibraryCommand, Around

(* It holds when the process starts for the first time.                       *)
LEMMA ShellBegins ==
    ASSUME ShellInit
    PROVE  ShellInv
  <1>a. /\ files = [p \in Places |-> NoClip] /\ staged = {} /\ rows = NoRows /\ catalog = NoRows
        /\ outputDir \in Dirs /\ quota \in Quotas /\ job = Idle
        /\ blame = [c \in Clips |-> "unsaved"] /\ pinned = {} /\ unsure = {}
    BY DEF ShellInit, LibraryInit
  <1>b. job.step = "idle" /\ job.scanned = FALSE /\ job.freed = {}
    BY <1>a DEF Idle
  <1>1. Disk /\ JobTyped
    BY <1>a, <1>b DEF Disk, JobTyped
  <1>2. Tables
    BY <1>a DEF Tables, Table, NoRows
  <1>3. Placed /\ InHand /\ Flags /\ Trims
    BY <1>a, <1>b DEF Placed, InHand, Flags, Trims, Trimmed
  <1>4. LibraryInv
    BY <1>1, <1>2, <1>3 DEF LibraryInv
  <1>c. /\ stored = DefaultDocument /\ recorder = DefaultDocument /\ bound = DefaultDocument.keys
        /\ config = NoFile /\ change.step = "idle" /\ torn = {}
        /\ outputDir = DefaultDocument.dir /\ quota = DefaultDocument.quota
        /\ DefaultDocument \in Documents
    BY SettingsAssumption DEF ShellInit, Steady
  <1>5. ShellTyped
    BY <1>c DEF ShellTyped
  <1>6. Halfway
    BY <1>c DEF Halfway, LibraryFollows, RecorderKept, KeysKept, FileKept
  <1> QED  BY <1>4, <1>5, <1>6 DEF ShellInv

(* The invariant of the shell and its library holds in every behaviour.       *)
THEOREM ShellInvariant == ShellSpec => []ShellInv
  <1>1. ShellInit => ShellInv
    BY ShellBegins
  <1>2. ShellInv /\ [ShellNext]_shellVars => ShellInv'
    BY ShellStep
  <1> QED  BY <1>1, <1>2, PTL DEF ShellSpec

(* Every completed clip nobody asked to go has one copy on the disk, through  *)
(* renames, failed writes, roll-backs, crashes and restarts (ClipLibrary).    *)
THEOREM NothingIsEverLost == ShellSpec => []NothingLost
  <1>1. ShellInv => NothingLost
    <2> SUFFICES ASSUME ShellInv, NEW c \in Clips, blame[c] = "none"
                 PROVE  Cardinality({p \in Places : files[p] = c})
                            + Cardinality({s \in staged : s.clip = c}) = 1
      BY DEF NothingLost
    <2>1. PICK p \in Places : files[p] = c
      BY DEF ShellInv, LibraryInv, Placed
    <2>2. c # NoClip
      BY LibraryAssumption DEF Clips
    <2>3. {q \in Places : files[q] = c} = {p}
      BY <2>1, <2>2 DEF ShellInv, LibraryInv, Placed
    <2>4. {s \in staged : s.clip = c} = {}
      BY <2>1, <2>2 DEF ShellInv, LibraryInv, Placed
    <2>5. Cardinality({q \in Places : files[q] = c}) = 1
      BY <2>3, FS_Singleton
    <2>6. Cardinality({s \in staged : s.clip = c}) = 0
      BY <2>4, FS_EmptySet
    <2> QED  BY <2>5, <2>6
  <1> QED  BY <1>1, ShellInvariant, PTL

(* The quota never takes a clip the user protected, unless its flag was lost  *)
(* for a known cause, and a scan that succeeds has met it with the oldest     *)
(* clips and no more than it had to (ClipLibrary).                            *)
THEOREM QuotaAlwaysSound == ShellSpec => []QuotaSound
  <1>1. ShellInv => ProtectedNeverEvicted
    BY DEF ShellInv, LibraryInv, Flags, Flagged, ProtectedNeverEvicted
  <1>2. ShellInv => QuotaMet
    BY DEF ShellInv, LibraryInv, Trims, Trimmed, QuotaMet
  <1> QED  BY <1>1, <1>2, ShellInvariant, PTL DEF QuotaSound

(* A change of settings takes effect in all parts or in none, through refusals *)
(* and crashes in the middle of it (ShellSettings).                           *)
THEOREM SettingsAlwaysAllOrNothing == ShellSpec => []SettingsAllOrNothing
  <1>1. ShellInv => SettingsAllOrNothing
    BY DEF ShellInv, Halfway, RecorderKept, KeysKept, LibraryFollows, FileKept, SettingsAllOrNothing
  <1> QED  BY <1>1, ShellInvariant, PTL

-----------------------------------------------------------------------------
(* The capture session                                                    *)

(* Two numbers that fall on the same slot of the ring are a round apart.      *)
LEMMA RoundApart ==
    ASSUME NEW R \in Nat \ {0}, NEW a \in Nat, NEW b \in Nat, a < b, a % R = b % R
    PROVE  b >= a + R
  <1>1. /\ a = R * (a \div R) + (a % R)
        /\ b = R * (b \div R) + (b % R)
        /\ a \div R \in Int /\ b \div R \in Int
    BY SMT
  <1> DEFINE p == a \div R
             q == b \div R
  <1>2. b - a = R * q - R * p
    BY <1>1
  <1>3. q > p
    BY <1>1, SMT
  <1> QED  BY <1>1, <1>2, <1>3, SMT

LEMMA SlotInRing == ASSUME NEW n \in Nat  PROVE n % RingSize \in Slots
  BY CaptureAssumption, SMT DEF Slots

(* The handles, and how many copies were registered or passed over.           *)
Handles == [frame : Nat, texture : Textures, fits : BOOLEAN]
Arrived == IF callback.at = "copied" THEN copies - 1 ELSE copies

(* The handles are those of the last copies, in order, in the textures that   *)
(* come round for them, and each has its picture but where a copy was made    *)
(* over it just now.                                                          *)
Shown(h) ==
    \/ h.fits = FALSE \/ picture[h.texture] = h.frame
    \/ callback.at = "copied" /\ callback.texture = h.texture
Rung ==
    /\ copies \in Nat
    /\ {"size", "now", "resizes", "gone"} \subseteq DOMAIN source
    /\ {"generation", "size"} \subseteq DOMAIN pool
    /\ source.resizes \in 0..MaxResizes /\ pool.generation \in 0..source.resizes
    /\ DOMAIN picture = Textures
    /\ registry \in Seq(Handles) /\ Len(registry) <= RingSize
    /\ \A i \in 1..Len(registry) :
        /\ registry[i].frame = (Arrived - Len(registry)) + (i - 1)
        /\ registry[i].texture = <<pool.generation, registry[i].frame % RingSize>>
        /\ Shown(registry[i])

(* The copy made just now is in its texture.                                  *)
InCallback ==
    callback.at \in {"copied", "staged"} =>
        /\ {"at", "frame", "texture", "fits", "tick"} \subseteq DOMAIN callback
        /\ callback.frame \in Nat /\ callback.tick \in Nat
        /\ callback.at = "copied" =>
            /\ copies > 0 /\ callback.frame = copies - 1
            /\ callback.texture = <<pool.generation, callback.frame % RingSize>>
            /\ callback.fits = TRUE \/ callback.fits = FALSE
            /\ callback.fits = FALSE \/ picture[callback.texture] = callback.frame

(* What the worker converts is what it resolved, until the ring comes round.  *)
Converted ==
    worker.at = "convert" =>
        /\ worker.frame \in Nat /\ worker.frame < copies
        /\ \E g \in 0..MaxResizes : worker.texture = <<g, worker.frame % RingSize>>
        /\ picture[worker.texture] = worker.frame \/ copies > worker.frame + RingSize

(* The clock of the worker, and the times the frames in the queue bear.       *)
Ticking ==
    /\ source.now \in Nat
    /\ {"interval", "origin", "accepted", "last", "source", "delivered", "shown"}
         \subseteq DOMAIN clock
    /\ clock.interval \in Nat /\ clock.origin \in Int /\ clock.last \in Int
    /\ clock.source \in Int /\ clock.delivered \in Int
    /\ clock.delivered <= clock.source

Happenings ==
    [kind : {"frame"}, frame : Nat, tick : Nat] \cup [kind : {"format", "closed", "failed"}]
Heard == events \in Seq(Happenings)

CaptureInv == Rung /\ InCallback /\ Converted /\ Ticking /\ Heard

LEMMA CaptureInvTrue == CaptureInv => PicturesTrue
  <1> SUFFICES ASSUME CaptureInv  PROVE PicturesTrue
    OBVIOUS
  <1>1. ASSUME NEW h \in ToSet(registry)
        PROVE  \/ ~h.fits \/ picture[h.texture] = h.frame
               \/ callback.at = "copied" /\ callback.texture = h.texture
    <2>1. registry \in Seq(Handles)
      BY DEF CaptureInv, Rung
    <2>2. PICK i \in 1..Len(registry) : h = registry[i]
      BY <2>1 DEF ToSet
    <2>3. Shown(registry[i])
      BY DEF CaptureInv, Rung
    <2> QED  BY <2>2, <2>3 DEF Shown
  <1> QED  BY <1>1 DEF PicturesTrue, CaptureInv, Converted

LEMMA CaptureInitInv == CaptureInit => CaptureInv
  <1> SUFFICES ASSUME CaptureInit  PROVE CaptureInv
    OBVIOUS
  <1>1. /\ registry = <<>> /\ copies = 0 /\ callback.at = "idle" /\ worker.at = "loop"
        /\ picture = [t \in Textures |-> None]
    BY DEF CaptureInit
  <1>2. PICK s \in Sizes :
            /\ source = [size |-> s, now |-> 0, resizes |-> 0, gone |-> FALSE]
            /\ pool = [generation |-> 0, size |-> s]
    BY DEF CaptureInit
  <1>3. PICK interval \in MinIntervals : clock = FreshClock(interval)
    BY DEF CaptureInit
  <1>4. MaxResizes \in Nat /\ RingSize \in Nat /\ interval \in Nat
    BY CaptureAssumption
  <1>5. Rung
    <2>1. registry \in Seq(Handles) /\ Len(registry) = 0
      BY <1>1
    <2> QED  BY <1>1, <1>2, <1>4, <2>1 DEF Rung
  <1>6. Ticking
    BY <1>2, <1>3, <1>4 DEF Ticking, FreshClock, None
  <1>7. Heard
    BY DEF CaptureInit, Heard
  <1> QED  BY <1>1, <1>5, <1>6, <1>7 DEF CaptureInv, InCallback, Converted

(* Steps that leave the ring, the callback and the clock alone.               *)
LEMMA RingKept ==
    ASSUME Rung, copies' = copies, picture' = picture, callback' = callback,
           registry' = registry, pool' = pool,
           {"size", "now", "resizes", "gone"} \subseteq DOMAIN source',
           source'.resizes = source.resizes
    PROVE  Rung'
  <1>1. Arrived' = Arrived
    BY DEF Arrived
  <1>2. ASSUME NEW i \in 1..Len(registry)  PROVE Shown(registry[i])'
    <2>1. Shown(registry[i])
      BY DEF Rung
    <2> QED  BY <2>1 DEF Shown
  <1> QED  BY <1>1, <1>2 DEF Rung

(* What the worker and the session thread do beside the ring.                 *)
LEMMA BesideTheRing ==
    ASSUME CaptureInv, UNCHANGED <<producerVars, registry>>,
           worker' = worker \/ worker'.at # "convert"
    PROVE  Rung' /\ InCallback' /\ Converted'
  <1>1. /\ source' = source /\ pool' = pool /\ picture' = picture /\ copies' = copies
        /\ callback' = callback /\ registry' = registry
    BY DEF producerVars
  <1>2. Rung'
    <2>1. Rung /\ {"size", "now", "resizes", "gone"} \subseteq DOMAIN source
      BY DEF CaptureInv, Rung
    <2> QED  BY <1>1, <2>1, RingKept
  <1>3. InCallback'
    BY <1>1 DEF CaptureInv, InCallback
  <1>4. Converted'
    BY <1>1 DEF CaptureInv, Converted
  <1> QED  BY <1>2, <1>3, <1>4

LEMMA TickingKept ==
    ASSUME Ticking, clock' = clock, source'.now = source.now
    PROVE  Ticking'
  BY DEF Ticking

LEMMA Sent ==
    ASSUME Heard, NEW e \in Happenings, TrySend(e)
    PROVE  Heard'
  <1>1. Append(events, e) \in Seq(Happenings)
    BY AppendProperties DEF Heard
  <1> QED  BY <1>1 DEF Heard, TrySend

LEMMA Received ==
    ASSUME Heard, events # <<>>
    PROVE  Head(events) \in Happenings /\ Tail(events) \in Seq(Happenings)
  BY HeadTailProperties DEF Heard

(* The steps of the session thread, the flag, and the worker beside a frame.  *)
LEMMA QuietInv ==
    ASSUME CaptureInv,
           SetUp \/ SessionCloses \/ NextEvent \/ ReceiveOther \/ Convert \/ StopCapture
             \/ RequestStop
    PROVE  CaptureInv'
  <1>1. /\ UNCHANGED <<producerVars, registry>> /\ clock' = clock
        /\ worker' = worker \/ worker'.at # "convert"
    <2>1. CASE SetUp \/ SessionCloses \/ RequestStop
      BY <2>1 DEF SetUp, SessionCloses, RequestStop
    <2>2. CASE NextEvent \/ Convert \/ StopCapture
      BY <2>2 DEF NextEvent, Convert, StopCapture, Waiting
    <2>3. CASE ReceiveOther
      BY <2>3 DEF ReceiveOther
    <2> QED  BY <2>1, <2>2, <2>3
  <1>2. Heard'
    <2>1. Heard
      BY DEF CaptureInv
    <2>2. CASE SetUp
      <3>1. [kind |-> "failed"] \in Happenings
        BY DEF Happenings
      <3>2. CASE TrySend([kind |-> "failed"])
        BY <2>1, <3>1, <3>2, Sent
      <3>3. CASE UNCHANGED events
        BY <2>1, <3>3 DEF Heard
      <3> QED  BY <2>2, <3>2, <3>3 DEF SetUp
    <2>3. CASE ReceiveOther
      BY <2>1, <2>3, Received DEF ReceiveOther, Heard
    <2>4. CASE SessionCloses \/ NextEvent \/ Convert \/ StopCapture \/ RequestStop
      BY <2>1, <2>4 DEF SessionCloses, NextEvent, Convert, StopCapture, RequestStop, Heard
    <2> QED  BY <2>2, <2>3, <2>4
  <1>3. Ticking'
    BY <1>1, TickingKept DEF CaptureInv, producerVars
  <1> QED  BY <1>1, <1>2, <1>3, BesideTheRing DEF CaptureInv

LEMMA SourceClosesInv ==
    ASSUME CaptureInv, SourceCloses
    PROVE  CaptureInv'
  <1>1. /\ pool' = pool /\ picture' = picture /\ copies' = copies /\ callback' = callback
        /\ registry' = registry /\ worker' = worker /\ clock' = clock
        /\ TrySend([kind |-> "closed"])
    BY DEF SourceCloses
  <1>2. /\ DOMAIN source' = DOMAIN source /\ source'.resizes = source.resizes
        /\ source'.now = source.now
    BY DEF SourceCloses, CaptureInv, Rung
  <1>3. Rung'
    <2>1. Rung /\ {"size", "now", "resizes", "gone"} \subseteq DOMAIN source
      BY DEF CaptureInv, Rung
    <2> QED  BY <1>1, <1>2, <2>1, RingKept
  <1>4. InCallback' /\ Converted'
    BY <1>1 DEF CaptureInv, InCallback, Converted
  <1>5. Ticking'
    BY <1>1, <1>2, TickingKept DEF CaptureInv
  <1>6. Heard'
    <2>1. [kind |-> "closed"] \in Happenings
      BY DEF Happenings
    <2> QED  BY <1>1, <2>1, Sent DEF CaptureInv
  <1> QED  BY <1>3, <1>4, <1>5, <1>6 DEF CaptureInv

LEMMA ReleaseStagedInv ==
    ASSUME CaptureInv, ReleaseStaged
    PROVE  CaptureInv'
  <1>1. /\ source' = source /\ pool' = pool /\ picture' = picture /\ copies' = copies
        /\ callback' = callback /\ registry' = <<>> /\ events' = <<>> /\ clock' = clock
        /\ worker'.at = "done"
    BY DEF ReleaseStaged, producerVars
  <1>2. Rung'
    <2>1. registry' \in Seq(Handles) /\ Len(registry') = 0 /\ RingSize \in Nat
      BY <1>1, CaptureAssumption
    <2> QED  BY <1>1, <2>1 DEF CaptureInv, Rung
  <1>3. InCallback' /\ Converted'
    BY <1>1 DEF CaptureInv, InCallback, Converted
  <1>4. Ticking' /\ Heard'
    BY <1>1, TickingKept DEF CaptureInv, Heard
  <1> QED  BY <1>2, <1>3, <1>4 DEF CaptureInv

LEMMA ResizedInv ==
    ASSUME CaptureInv, NEW s \in Sizes, Resized(s)
    PROVE  CaptureInv'
  <1>1. /\ callback.at = "idle" /\ source.resizes < MaxResizes /\ picture' = picture
        /\ copies' = copies /\ callback' = callback /\ worker' = worker /\ clock' = clock
        /\ TrySend([kind |-> "format"])
    BY DEF Resized, ContentArrives
  <1>2. /\ DOMAIN source' = DOMAIN source /\ source'.resizes = source.resizes + 1
        /\ source'.now = source.now
    BY DEF Resized, CaptureInv, Rung
  <1>3. Rung /\ MaxResizes \in Nat /\ RingSize \in Nat
    BY CaptureAssumption DEF CaptureInv
  <1>4. Rung'
    <2>1. CASE pool' = [generation |-> pool.generation + 1, size |-> s] /\ registry' = <<>>
      <3>1. registry' \in Seq(Handles) /\ Len(registry') = 0
        BY <2>1
      <3>2. /\ {"generation", "size"} \subseteq DOMAIN pool'
            /\ source'.resizes \in 0..MaxResizes /\ pool'.generation \in 0..source'.resizes
        BY <1>1, <1>2, <1>3, <2>1 DEF Rung
      <3> QED  BY <1>1, <1>2, <1>3, <3>1, <3>2 DEF Rung
    <2>2. CASE UNCHANGED <<pool, registry>>
      <3>1. Arrived' = Arrived
        BY <1>1 DEF Arrived
      <3>2. ASSUME NEW i \in 1..Len(registry)  PROVE Shown(registry[i])'
        <4>1. Shown(registry[i])
          BY <1>3 DEF Rung
        <4> QED  BY <1>1, <2>2, <4>1 DEF Shown
      <3>3. source'.resizes \in 0..MaxResizes /\ pool'.generation \in 0..source'.resizes
        BY <1>1, <1>2, <1>3, <2>2 DEF Rung
      <3> QED  BY <1>1, <1>2, <1>3, <2>2, <3>1, <3>2, <3>3 DEF Rung
    <2> QED  BY <2>1, <2>2 DEF Resized
  <1>5. InCallback' /\ Converted'
    BY <1>1 DEF CaptureInv, InCallback, Converted
  <1>6. Ticking'
    BY <1>1, <1>2, TickingKept DEF CaptureInv
  <1>7. Heard'
    <2>1. [kind |-> "format"] \in Happenings
      BY DEF Happenings
    <2> QED  BY <1>1, <2>1, Sent DEF CaptureInv
  <1> QED  BY <1>4, <1>5, <1>6, <1>7 DEF CaptureInv

LEMMA PublishFrameInv ==
    ASSUME CaptureInv, PublishFrame
    PROVE  CaptureInv'
  <1>1. /\ callback.at = "staged" /\ callback' = [at |-> "idle"] /\ source' = source
        /\ pool' = pool /\ picture' = picture /\ copies' = copies /\ registry' = registry
        /\ worker' = worker /\ clock' = clock
    BY DEF PublishFrame
  <1>2. Rung'
    <2>1. Rung /\ Arrived' = Arrived
      BY <1>1 DEF Arrived, CaptureInv
    <2>2. ASSUME NEW i \in 1..Len(registry)  PROVE Shown(registry[i])'
      <3>1. Shown(registry[i])
        BY <2>1 DEF Rung
      <3> QED  BY <1>1, <3>1 DEF Shown
    <2> QED  BY <1>1, <2>1, <2>2 DEF Rung
  <1>3. InCallback' /\ Converted'
    BY <1>1 DEF CaptureInv, InCallback, Converted
  <1>4. Ticking'
    BY <1>1, TickingKept DEF CaptureInv
  <1>5. Heard'
    <2>1. callback.frame \in Nat /\ callback.tick \in Nat
      BY <1>1 DEF CaptureInv, InCallback
    <2>2. [kind |-> "frame", frame |-> callback.frame, tick |-> callback.tick] \in Happenings
      BY <2>1 DEF Happenings
    <2>3. CASE UNCHANGED events
      BY <2>3 DEF CaptureInv, Heard
    <2>4. CASE TrySend([kind |-> "frame", frame |-> callback.frame, tick |-> callback.tick])
      BY <2>2, <2>4, Sent DEF CaptureInv
    <2> QED  BY <2>3, <2>4 DEF PublishFrame
  <1> QED  BY <1>2, <1>3, <1>4, <1>5 DEF CaptureInv

LEMMA TextureNext ==
    ASSUME CaptureInv, NEW n \in Nat
    PROVE  <<pool.generation, n % RingSize>> \in Textures
  <1>1. n % RingSize \in Slots
    BY SlotInRing
  <1>2. pool.generation \in 0..MaxResizes
    BY CaptureAssumption DEF CaptureInv, Rung
  <1> QED  BY <1>1, <1>2 DEF Textures

(* A copy is made over the oldest handle only, or over one the worker has     *)
(* held for a whole round.                                                    *)
LEMMA CopyFrameInv ==
    ASSUME CaptureInv, NEW gap \in Gaps, CopyFrame(gap)
    PROVE  CaptureInv'
  <1> DEFINE texture == <<pool.generation, copies % RingSize>>
  <1>1. /\ callback.at = "idle" /\ pool' = pool /\ registry' = registry /\ events' = events
        /\ worker' = worker /\ clock' = clock /\ copies' = copies + 1
    BY DEF CopyFrame, ContentArrives
  <1>2. picture' = IF source.size = pool.size THEN [picture EXCEPT ![texture] = copies]
                   ELSE picture
    BY DEF CopyFrame
  <1>3. callback' = [at |-> "copied", frame |-> copies, texture |-> texture,
                     size |-> source.size, fits |-> source.size = pool.size,
                     tick |-> source.now + gap]
    BY DEF CopyFrame
  <1>4. copies \in Nat /\ texture \in Textures /\ DOMAIN picture = Textures
    BY TextureNext DEF CaptureInv, Rung
  <1>5. gap \in Nat /\ source.now \in Nat /\ RingSize \in Nat \ {0}
    BY CaptureAssumption DEF CaptureInv, Ticking
  <1>6. /\ DOMAIN source' = DOMAIN source /\ source'.resizes = source.resizes
        /\ source'.now = source.now + gap
    BY DEF CopyFrame, CaptureInv, Rung
  <1> HIDE DEF texture
  <1>7. /\ callback'.at = "copied" /\ callback'.frame = copies /\ callback'.texture = texture
        /\ callback'.tick = source.now + gap
        /\ {"at", "frame", "texture", "fits", "tick"} \subseteq DOMAIN callback'
    BY <1>3
  <1>8. /\ DOMAIN picture' = Textures
        /\ \A t \in Textures : t # texture => picture'[t] = picture[t]
        /\ source.size = pool.size => picture'[texture] = copies
    BY <1>2, <1>4
  <1>9. callback'.fits = FALSE \/ (callback'.fits = TRUE /\ picture'[texture] = copies)
    <2>1. CASE source.size = pool.size
      BY <1>3, <1>8, <2>1
    <2>2. CASE source.size # pool.size
      BY <1>3, <2>2
    <2> QED  BY <2>1, <2>2
  <1>10. Rung'
    <2>1. Rung
      BY DEF CaptureInv
    <2>2. Arrived' = Arrived
      BY <1>1, <1>4, <1>7 DEF Arrived
    <2>3. ASSUME NEW i \in 1..Len(registry)  PROVE Shown(registry[i])'
      <3>1. Shown(registry[i]) /\ registry[i] \in Handles
        BY <2>1 DEF Rung
      <3>2. registry[i].texture \in Textures
        BY <3>1 DEF Handles
      <3>3. registry[i].fits = FALSE \/ picture[registry[i].texture] = registry[i].frame
        BY <1>1, <3>1 DEF Shown
      <3>4. CASE registry[i].texture = texture
        BY <1>1, <1>7, <3>4 DEF Shown
      <3>5. CASE registry[i].texture # texture
        BY <1>1, <1>8, <3>2, <3>3, <3>5 DEF Shown
      <3> QED  BY <3>4, <3>5
    <2> QED  BY <1>1, <1>4, <1>6, <1>8, <2>1, <2>2, <2>3 DEF Rung
  <1>11. InCallback'
    <2>1. /\ copies' > 0 /\ callback'.frame = copies' - 1 /\ callback'.frame \in Nat
          /\ callback'.tick \in Nat
      BY <1>1, <1>4, <1>5, <1>7
    <2>2. callback'.texture = <<pool'.generation, callback'.frame % RingSize>>
      BY <1>1, <1>7 DEF texture
    <2> QED  BY <1>7, <1>9, <2>1, <2>2 DEF InCallback
  <1>12. Converted'
    <2> SUFFICES ASSUME worker.at = "convert"
                 PROVE  /\ worker.frame \in Nat /\ worker.frame < copies'
                        /\ \E g \in 0..MaxResizes : worker.texture = <<g, worker.frame % RingSize>>
                        /\ picture'[worker.texture] = worker.frame
                           \/ copies' > worker.frame + RingSize
      BY <1>1 DEF Converted
    <2>1. /\ worker.frame \in Nat /\ worker.frame < copies
          /\ \E g \in 0..MaxResizes : worker.texture = <<g, worker.frame % RingSize>>
          /\ picture[worker.texture] = worker.frame \/ copies > worker.frame + RingSize
      BY DEF CaptureInv, Converted
    <2>2. PICK g \in 0..MaxResizes : worker.texture = <<g, worker.frame % RingSize>>
      BY <2>1
    <2>3. CASE worker.texture = texture
      <3>1. worker.frame % RingSize = copies % RingSize
        BY <2>2, <2>3 DEF texture
      <3>2. copies >= worker.frame + RingSize
        BY <1>4, <1>5, <2>1, <3>1, RoundApart
      <3> QED  BY <1>1, <1>4, <1>5, <2>1, <3>2
    <2>4. CASE worker.texture # texture
      <3>1. worker.texture \in Textures
        <4>1. worker.frame % RingSize \in Slots
          BY <2>1, SlotInRing
        <4> QED  BY <2>2, <4>1 DEF Textures
      <3>2. picture'[worker.texture] = picture[worker.texture]
        BY <1>8, <2>4, <3>1
      <3> QED  BY <1>1, <1>4, <1>5, <2>1, <3>2
    <2> QED  BY <2>3, <2>4
  <1>13. Ticking'
    BY <1>1, <1>5, <1>6 DEF CaptureInv, Ticking
  <1>14. Heard'
    BY <1>1 DEF CaptureInv, Heard
  <1> QED  BY <1>10, <1>11, <1>12, <1>13, <1>14 DEF CaptureInv

(* The registry after one handle more: the last of all there were.            *)
LEMMA RegisteredLast ==
    ASSUME registry \in Seq(Handles), Len(registry) <= RingSize, NEW h \in Handles
    PROVE  LET all == Append(registry, h)
           IN  /\ Registered(h) \in Seq(Handles) /\ Len(Registered(h)) <= RingSize
               /\ Len(Registered(h)) <= Len(registry) + 1
               /\ \A i \in 1..Len(Registered(h)) :
                    LET j == i + ((Len(registry) + 1) - Len(Registered(h)))
                    IN  /\ j \in 1..(Len(registry) + 1)
                        /\ Registered(h)[i] = IF j <= Len(registry) THEN registry[j] ELSE h
  <1> DEFINE all == Append(registry, h)
             L == Len(registry)
             R == RingSize
  <1>1. L \in Nat /\ R \in Nat \ {0} /\ L <= R
    BY CaptureAssumption, LenProperties
  <1>2. /\ all \in Seq(Handles) /\ Len(all) = L + 1
        /\ \A j \in 1..(L + 1) : all[j] = IF j <= L THEN registry[j] ELSE h
    BY <1>1, AppendProperties
  <1> HIDE DEF all, L, R
  <1>3. CASE L + 1 <= R
    <2>1. Registered(h) = all
      BY <1>1, <1>2, <1>3 DEF Registered, all, R
    <2> QED  BY <1>1, <1>2, <1>3, <2>1 DEF L, R
  <1>4. CASE L + 1 > R
    <2>1. L = R
      BY <1>1, <1>4
    <2>2. Registered(h) = SubSeq(all, 2, R + 1)
      BY <1>1, <1>2, <1>4, <2>1 DEF Registered, Newest, all, R
    <2>3. /\ Len(SubSeq(all, 2, R + 1)) = R
          /\ \A i \in 1..R : SubSeq(all, 2, R + 1)[i] = all[i + 1]
          /\ SubSeq(all, 2, R + 1) \in Seq(Handles)
      BY <1>1, <1>2, <2>1, SubSeqProperties
    <2>4. \A i \in 1..R : i + ((L + 1) - R) = i + 1 /\ i + 1 \in 1..(L + 1)
      BY <1>1, <2>1
    <2>5. /\ Registered(h) \in Seq(Handles) /\ Len(Registered(h)) = R
          /\ \A i \in 1..R : Registered(h)[i] = all[i + 1]
      BY <2>2, <2>3
    <2>6. \A i \in 1..R : Registered(h)[i] = IF i + 1 <= L THEN registry[i + 1] ELSE h
      BY <1>2, <2>4, <2>5
    <2>7. R <= L + 1 /\ R <= R
      BY <1>1, <2>1
    <2> QED  BY <2>4, <2>5, <2>6, <2>7 DEF L, R
  <1> QED  BY SMTT(30), <1>1, <1>3, <1>4

LEMMA InsertStagedInv ==
    ASSUME CaptureInv, InsertStaged
    PROVE  CaptureInv'
  <1> DEFINE h == [frame |-> callback.frame, texture |-> callback.texture, fits |-> callback.fits]
             L == Len(registry)
             N == Len(registry')
  <1>1. /\ callback.at = "copied" /\ source' = source /\ pool' = pool /\ picture' = picture
        /\ copies' = copies /\ events' = events /\ worker' = worker /\ clock' = clock
        /\ registry' = Registered(h)
    BY DEF InsertStaged
  <1>2. /\ {"at", "frame", "texture", "fits", "tick"} \subseteq DOMAIN callback
        /\ callback.frame \in Nat /\ callback.tick \in Nat
        /\ copies > 0 /\ callback.frame = copies - 1
        /\ callback.texture = <<pool.generation, callback.frame % RingSize>>
        /\ callback.fits = TRUE \/ callback.fits = FALSE
        /\ callback.fits = FALSE \/ picture[callback.texture] = callback.frame
    BY <1>1 DEF CaptureInv, InCallback
  <1>3. /\ callback'.at = "staged" /\ DOMAIN callback' = DOMAIN callback
        /\ callback'.frame = callback.frame /\ callback'.tick = callback.tick
    BY <1>2 DEF InsertStaged
  <1>4. h \in Handles
    <2>1. callback.texture \in Textures
      BY <1>2, TextureNext
    <2> QED  BY <1>2, <2>1 DEF Handles
  <1>5. /\ registry \in Seq(Handles) /\ L <= RingSize /\ copies \in Nat
        /\ RingSize \in Nat \ {0} /\ Arrived = copies - 1 /\ Arrived' = copies /\ L \in Nat
    BY <1>1, <1>3, CaptureAssumption, LenProperties DEF CaptureInv, Rung, Arrived
  <1>6. h.frame = copies - 1 /\ h.texture = <<pool.generation, h.frame % RingSize>>
        /\ (h.fits = FALSE \/ picture[h.texture] = h.frame)
    BY <1>2
  <1> HIDE DEF h
  <1>7. /\ registry' \in Seq(Handles) /\ N <= RingSize /\ N <= L + 1 /\ N \in Nat
        /\ \A i \in 1..N :
             /\ i + ((L + 1) - N) \in 1..(L + 1)
             /\ registry'[i] = IF i + ((L + 1) - N) <= L THEN registry[i + ((L + 1) - N)] ELSE h
    BY <1>1, <1>4, <1>5, RegisteredLast, LenProperties
  <1>8. ASSUME NEW i \in 1..N
        PROVE  /\ registry'[i].frame = (copies - N) + (i - 1)
               /\ registry'[i].texture = <<pool.generation, registry'[i].frame % RingSize>>
               /\ registry'[i].fits = FALSE \/ picture[registry'[i].texture] = registry'[i].frame
    <2> DEFINE j == i + ((L + 1) - N)
    <2>1. j \in 1..(L + 1) /\ registry'[i] = IF j <= L THEN registry[j] ELSE h
      BY <1>7
    <2>2. i \in Nat /\ i >= 1 /\ i <= N /\ j = i + ((L + 1) - N)
      BY <1>7
    <2> HIDE DEF j, L, N
    <2>3. CASE j <= L
      <3>1. registry'[i] = registry[j] /\ j \in 1..L
        BY <1>5, <2>1, <2>3
      <3>2. /\ registry[j].frame = ((copies - 1) - L) + (j - 1)
            /\ registry[j].texture = <<pool.generation, registry[j].frame % RingSize>>
            /\ Shown(registry[j]) /\ registry[j] \in Handles
        BY <1>5, <3>1 DEF CaptureInv, Rung, L
      <3>3. registry[j].frame = (copies - N) + (i - 1)
        BY SMTT(30), <1>5, <1>7, <2>2, <3>2
      <3>4. registry[j].frame \in Nat
        BY <3>2 DEF Handles
      <3>5. registry[j].texture # callback.texture
        <4> SUFFICES ASSUME registry[j].texture = callback.texture  PROVE FALSE
          OBVIOUS
        <4>1. registry[j].frame % RingSize = (copies - 1) % RingSize
          BY <1>2, <3>2
        <4>2. registry[j].frame < copies - 1 /\ copies - 1 \in Nat
          BY <1>2, <1>5, <3>1, <3>2
        <4>3. copies - 1 >= registry[j].frame + RingSize
          BY <1>5, <3>4, <4>1, <4>2, RoundApart
        <4> QED  BY <1>5, <1>7, <2>2, <3>3, <3>4, <4>3
      <3>6. registry[j].fits = FALSE \/ picture[registry[j].texture] = registry[j].frame
        BY <3>2, <3>5 DEF Shown
      <3> QED  BY <3>1, <3>2, <3>3, <3>6
    <2>4. CASE ~(j <= L)
      <3>1. registry'[i] = h /\ i = N
        BY <1>5, <1>7, <2>1, <2>2, <2>4
      <3>2. copies - 1 = (copies - N) + (i - 1)
        BY <1>5, <1>7, <3>1
      <3> QED  BY <1>6, <3>1, <3>2
    <2> QED  BY <2>3, <2>4
  <1>9. Rung'
    <2>1. ASSUME NEW i \in 1..N  PROVE Shown(registry[i])'
      BY <1>1, <1>8, <2>1 DEF Shown
    <2> QED  BY <1>1, <1>5, <1>7, <1>8, <2>1 DEF CaptureInv, Rung
  <1>10. InCallback'
    BY <1>2, <1>3 DEF InCallback
  <1>11. Converted' /\ Heard'
    BY <1>1 DEF CaptureInv, Converted, Heard
  <1>12. Ticking'
    BY <1>1, TickingKept DEF CaptureInv
  <1> QED  BY <1>9, <1>10, <1>11, <1>12 DEF CaptureInv

LEMMA ResolveInv ==
    ASSUME CaptureInv, Resolve
    PROVE  CaptureInv'
  <1>1. /\ source' = source /\ pool' = pool /\ picture' = picture /\ copies' = copies
        /\ callback' = callback /\ registry' = registry /\ events' = events /\ clock' = clock
    BY DEF Resolve, producerVars
  <1>2. CASE worker'.at # "convert"
    <2>1. Ticking' /\ Heard'
      BY <1>1, TickingKept DEF CaptureInv, Heard
    <2> QED  BY <1>1, <1>2, <2>1, BesideTheRing DEF CaptureInv, producerVars
  <1>3. CASE worker'.at = "convert"
    <2>1. PICK h \in ToSet(registry) :
            /\ h.fits /\ worker' = [at |-> "convert", frame |-> h.frame, texture |-> h.texture]
      BY <1>3 DEF Resolve
    <2>2. /\ registry \in Seq(Handles) /\ Len(registry) \in Nat /\ copies \in Nat
          /\ RingSize \in Nat \ {0} /\ Rung
      BY CaptureAssumption, LenProperties DEF CaptureInv, Rung
    <2>3. PICK i \in 1..Len(registry) : h = registry[i]
      BY <2>2 DEF ToSet
    <2>4. /\ h.frame = (Arrived - Len(registry)) + (i - 1)
          /\ h.texture = <<pool.generation, h.frame % RingSize>>
          /\ Shown(h) /\ h.frame \in Nat
      <3>1. registry[i] \in Handles
        BY <2>2
      <3>2. /\ registry[i].frame = (Arrived - Len(registry)) + (i - 1)
            /\ registry[i].texture = <<pool.generation, registry[i].frame % RingSize>>
            /\ Shown(registry[i])
        BY <2>2 DEF Rung
      <3> QED  BY <2>3, <3>1, <3>2 DEF Handles
    <2>5. /\ h.frame < copies
          /\ callback.at = "copied" => h.frame < copies - 1
      BY <2>2, <2>3, <2>4 DEF Arrived
    <2>6. picture[h.texture] = h.frame \/ copies > h.frame + RingSize
      <3>1. CASE h.fits = FALSE \/ picture[h.texture] = h.frame
        BY <2>1, <3>1
      <3>2. CASE callback.at = "copied" /\ callback.texture = h.texture
        <4>1. /\ callback.frame = copies - 1 /\ copies - 1 \in Nat
              /\ callback.texture = <<pool.generation, callback.frame % RingSize>>
          BY <2>2, <3>2 DEF CaptureInv, InCallback
        <4>2. h.frame % RingSize = (copies - 1) % RingSize
          BY <2>4, <3>2, <4>1
        <4>3. copies - 1 >= h.frame + RingSize
          BY <2>2, <2>4, <2>5, <3>2, <4>1, <4>2, RoundApart
        <4> QED  BY <2>2, <2>4, <4>3
      <3> QED  BY <2>4, <3>1, <3>2 DEF Shown
    <2>7. pool.generation \in 0..MaxResizes
      BY <2>2, CaptureAssumption DEF Rung
    <2>8. Converted'
      <3>1. worker'.at = "convert" /\ worker'.frame = h.frame /\ worker'.texture = h.texture
        BY <2>1
      <3> QED  BY <1>1, <2>4, <2>5, <2>6, <2>7, <3>1 DEF Converted
    <2>9. Rung'
      <3>1. {"size", "now", "resizes", "gone"} \subseteq DOMAIN source
        BY <2>2 DEF Rung
      <3> QED  BY <1>1, <2>2, <3>1, RingKept
    <2>10. InCallback' /\ Heard'
      BY <1>1 DEF CaptureInv, InCallback, Heard
    <2>11. Ticking'
      BY <1>1, TickingKept DEF CaptureInv
    <2> QED  BY <2>8, <2>9, <2>10, <2>11 DEF CaptureInv
  <1> QED  BY <1>2, <1>3

(* The timeline started anew or carried on, beside the times of the session.  *)
LEMMA RebasedTicking ==
    ASSUME Ticking, NEW tick \in Nat
    PROVE  /\ Rebased(tick).last \in Int /\ Rebased(tick).origin \in Int
           /\ Rebased(tick).interval = clock.interval
           /\ Rebased(tick).source = clock.source /\ Rebased(tick).delivered = clock.delivered
           /\ DOMAIN Rebased(tick) = DOMAIN clock
           /\ SourcePts(Rebased(tick)) \in Int /\ SourcePts(Rebased(tick)) >= clock.source
  <1>1. /\ {"interval", "origin", "accepted", "last", "source", "delivered", "shown"}
             \subseteq DOMAIN clock
        /\ clock.origin \in Int /\ clock.last \in Int /\ clock.source \in Int
    BY DEF Ticking
  <1>2. CASE Rebased(tick) = Calibrated(tick)
    <2>1. /\ Rebased(tick).last = 0 /\ Rebased(tick).origin = tick
          /\ Rebased(tick).interval = clock.interval
          /\ Rebased(tick).source = clock.source /\ Rebased(tick).delivered = clock.delivered
          /\ DOMAIN Rebased(tick) = DOMAIN clock
      BY <1>1, <1>2 DEF Calibrated
    <2> QED  BY <1>1, <2>1 DEF SourcePts
  <1>3. CASE Rebased(tick) = Accepted(tick)
    <2>1. /\ Rebased(tick).last = tick - clock.origin /\ Rebased(tick).origin = clock.origin
          /\ Rebased(tick).interval = clock.interval
          /\ Rebased(tick).source = clock.source /\ Rebased(tick).delivered = clock.delivered
          /\ DOMAIN Rebased(tick) = DOMAIN clock
      BY <1>1, <1>3 DEF Accepted
    <2> QED  BY <1>1, <2>1 DEF SourcePts
  <1> QED  BY <1>2, <1>3 DEF Rebased

(* A frame is shown late enough after the last one, or not at all.            *)
LEMMA ReceiveFrameClock ==
    ASSUME CaptureInv, ReceiveFrame
    PROVE  /\ Ticking'
           /\ clock.delivered # None /\ clock'.delivered # clock.delivered =>
                clock'.delivered >= clock.delivered + clock.interval
  <1> DEFINE event == Head(events)
             rebased == Rebased(event.tick)
             pts == SourcePts(rebased)
  <1>1. events # <<>> /\ event.kind = "frame"
    BY DEF ReceiveFrame
  <1>2. event.tick \in Nat
    BY <1>1, Received DEF CaptureInv, Happenings
  <1>3. /\ rebased.last \in Int /\ rebased.origin \in Int
        /\ rebased.interval = clock.interval
        /\ rebased.source = clock.source /\ rebased.delivered = clock.delivered
        /\ DOMAIN rebased = DOMAIN clock /\ pts \in Int /\ pts >= clock.source
    BY <1>2, RebasedTicking DEF CaptureInv
  <1>4. IF TooSoon(pts)
        THEN clock' = [rebased EXCEPT !.source = pts]
        ELSE clock' = [rebased EXCEPT !.source = pts, !.shown = event.tick, !.delivered = pts]
    BY DEF ReceiveFrame
  <1>5. /\ {"interval", "origin", "accepted", "last", "source", "delivered", "shown"}
             \subseteq DOMAIN clock
        /\ clock.interval \in Nat /\ clock.source \in Int /\ clock.delivered \in Int
        /\ clock.delivered <= clock.source /\ source.now \in Nat
    BY DEF CaptureInv, Ticking
  <1>6. source' = source
    BY DEF ReceiveFrame, producerVars
  <1> HIDE DEF event, rebased, pts
  <1>7. CASE TooSoon(pts)
    <2>1. /\ DOMAIN clock' = DOMAIN clock /\ clock'.interval = clock.interval
          /\ clock'.origin = rebased.origin /\ clock'.last = rebased.last
          /\ clock'.source = pts /\ clock'.delivered = clock.delivered
      BY <1>3, <1>4, <1>5, <1>7
    <2> QED  BY <1>3, <1>5, <1>6, <2>1 DEF Ticking
  <1>8. CASE ~TooSoon(pts)
    <2>1. /\ DOMAIN clock' = DOMAIN clock /\ clock'.interval = clock.interval
          /\ clock'.origin = rebased.origin /\ clock'.last = rebased.last
          /\ clock'.source = pts /\ clock'.delivered = pts
      BY <1>3, <1>4, <1>5, <1>8
    <2>2. Ticking'
      BY <1>3, <1>5, <1>6, <2>1 DEF Ticking
    <2>3. clock.delivered # None => pts >= clock.delivered + clock.interval
      BY <1>3, <1>5, <1>8 DEF TooSoon
    <2> QED  BY <2>1, <2>2, <2>3
  <1> QED  BY <1>7, <1>8

LEMMA ReceiveFrameInv ==
    ASSUME CaptureInv, ReceiveFrame
    PROVE  CaptureInv'
  <1>1. /\ UNCHANGED <<producerVars, registry>> /\ events # <<>> /\ events' = Tail(events)
        /\ worker' = worker \/ worker'.at # "convert"
    BY DEF ReceiveFrame
  <1>2. Heard'
    BY <1>1, Received DEF CaptureInv, Heard
  <1> QED  BY <1>1, <1>2, BesideTheRing, ReceiveFrameClock DEF CaptureInv

LEMMA CaptureNextInv == CaptureInv /\ [CaptureNext]_captureVars => CaptureInv'
  <1> SUFFICES ASSUME CaptureInv, [CaptureNext]_captureVars  PROVE CaptureInv'
    OBVIOUS
  <1>1. CASE SessionThread \/ RequestStop
    BY <1>1, QuietInv DEF SessionThread
  <1>2. CASE Screen
    BY <1>2, ResizedInv, CopyFrameInv, SourceClosesInv DEF Screen
  <1>3. CASE CallbackSteps
    BY <1>3, InsertStagedInv, PublishFrameInv DEF CallbackSteps
  <1>4. CASE Worker
    BY <1>4, QuietInv, ReceiveFrameInv, ResolveInv, ReleaseStagedInv DEF Worker
  <1>5. CASE UNCHANGED captureVars
    <2>1. /\ UNCHANGED <<producerVars, registry>> /\ clock' = clock /\ events' = events
          /\ worker' = worker
      BY <1>5 DEF captureVars, producerVars
    <2>2. Ticking' /\ Heard'
      BY <2>1, TickingKept DEF CaptureInv, producerVars, Heard
    <2> QED  BY <2>1, <2>2, BesideTheRing DEF CaptureInv
  <1> QED  BY <1>1, <1>2, <1>3, <1>4, <1>5 DEF CaptureNext

THEOREM CaptureInvariant == CaptureSpec => []CaptureInv
  BY CaptureInitInv, CaptureNextInv, PTL DEF CaptureSpec

(* However large the ring and however often the screen changes its size, a    *)
(* handle that can be resolved stands for its own picture, and what the       *)
(* worker converts is right unless the ring came round in its hands.          *)
THEOREM PicturesAlwaysTrue == CaptureSpec => []PicturesTrue
  BY CaptureInvariant, CaptureInvTrue, PTL

(* Delivered frames keep the frame interval, for every frame rate and every   *)
(* pause after which the timeline starts anew.                                *)
THEOREM PtsNeverGoesBack == CaptureSpec => PtsNeverBack
  <1>1. ASSUME CaptureInv, [CaptureNext]_captureVars
        PROVE  [clock.delivered # None /\ clock'.delivered # clock.delivered =>
                  clock'.delivered >= clock.delivered + clock.interval]_captureVars
    <2>1. CASE ReceiveFrame
      BY <1>1, <2>1, ReceiveFrameClock
    <2>2. CASE ~ReceiveFrame
      <3>1. clock' = clock
        BY <1>1, <2>2 DEF CaptureNext, SessionThread, Screen, CallbackSteps, Worker, captureVars,
           SetUp, SessionCloses, Resized, CopyFrame, SourceCloses, InsertStaged, PublishFrame,
           NextEvent, ReceiveOther, Resolve, Convert, StopCapture, ReleaseStaged, RequestStop
      <3> QED  BY <3>1
    <2> QED  BY <2>1, <2>2
  <1> QED  BY <1>1, CaptureInvariant, PTL DEF CaptureSpec, PtsNeverBack

-----------------------------------------------------------------------------
(* The replacement of a failed encoder                                    *)

(* What a sequence holds, and that it holds each thing once.                  *)
Items(s) == {s[i] : i \in 1..Len(s)}
Distinct(s) == \A i, j \in 1..Len(s) : s[i] = s[j] => i = j

(* One thing more at the end.                                                 *)
LEMMA ItemsAppended ==
    ASSUME NEW S, NEW s \in Seq(S), NEW e \in S
    PROVE  /\ Append(s, e) \in Seq(S) /\ Items(Append(s, e)) = Items(s) \cup {e}
           /\ Distinct(s) /\ e \notin Items(s) => Distinct(Append(s, e))
  <1> DEFINE t == Append(s, e)
  <1>1. /\ t \in Seq(S) /\ Len(t) = Len(s) + 1 /\ Len(s) \in Nat
        /\ \A i \in 1..Len(s) : t[i] = s[i]
        /\ t[Len(s) + 1] = e
    BY AppendProperties
  <1> HIDE DEF t
  <1>2. 1..Len(t) = (1..Len(s)) \cup {Len(s) + 1}
    BY <1>1
  <1>3. Items(t) = Items(s) \cup {e}
    BY <1>1, <1>2 DEF Items
  <1>4. Distinct(s) /\ e \notin Items(s) => Distinct(t)
    BY <1>1, <1>2 DEF Items, Distinct
  <1> QED  BY <1>1, <1>3, <1>4 DEF t

(* A sequence cut in two: each thing is in one part.                          *)
LEMMA ItemsCut ==
    ASSUME NEW S, NEW s \in Seq(S), NEW n \in 0..Len(s)
    PROVE  LET first == SubSeq(s, 1, n)
               rest == SubSeq(s, n + 1, Len(s))
           IN  /\ rest \in Seq(S)
               /\ Items(first) \cup Items(rest) = Items(s)
               /\ Distinct(s) => Distinct(rest) /\ Items(first) \cap Items(rest) = {}
  <1> DEFINE first == SubSeq(s, 1, n)
             rest == SubSeq(s, n + 1, Len(s))
  <1>a. Len(s) \in Nat /\ n \in Nat /\ n <= Len(s) /\ \A i \in 1..Len(s) : s[i] \in S
    BY LenProperties
  <1>1. Len(first) = n /\ \A i \in 1..n : first[i] = s[i]
    BY <1>a, SubSeqProperties
  <1>2. /\ Len(rest) = Len(s) - n
        /\ \A i \in 1..(Len(s) - n) : rest[i] = s[n + i]
    <2>1. /\ n + 1 \in 1..(Len(s) + 1) /\ Len(s) \in n..Len(s)
      BY <1>a
    <2>2. Len(rest) = IF n + 1 <= Len(s) THEN Len(s) - (n + 1) + 1 ELSE 0
      BY <1>a, SubSeqProperties
    <2>3. \A i \in 1..(Len(s) - (n + 1) + 1) : rest[i] = s[n + 1 + i - 1]
      BY <1>a, SubSeqProperties
    <2> QED  BY <1>a, <2>2, <2>3
  <1>3. rest \in Seq(S)
    BY <1>a, SubSeqProperties
  <1> HIDE DEF first, rest
  <1>4. Items(first) \cup Items(rest) = Items(s)
    <2>1. ASSUME NEW i \in 1..Len(first)  PROVE first[i] \in Items(s)
      BY <1>a, <1>1 DEF Items
    <2>2. ASSUME NEW i \in 1..Len(rest)  PROVE rest[i] \in Items(s)
      <3>1. n + i \in 1..Len(s) /\ rest[i] = s[n + i]
        BY <1>a, <1>2
      <3> QED  BY <3>1 DEF Items
    <2>3. ASSUME NEW i \in 1..Len(s)  PROVE s[i] \in Items(first) \cup Items(rest)
      <3>1. CASE i <= n
        <4>1. i \in 1..Len(first) /\ first[i] = s[i]
          BY <1>a, <1>1, <3>1
        <4> QED  BY <4>1 DEF Items
      <3>2. CASE ~(i <= n)
        <4>1. i - n \in 1..Len(rest) /\ n + (i - n) = i
          BY <1>a, <1>2, <3>2
        <4>2. rest[i - n] = s[i]
          BY <1>2, <4>1
        <4> QED  BY <4>1, <4>2 DEF Items
      <3> QED  BY <3>1, <3>2
    <2> QED  BY <2>1, <2>2, <2>3 DEF Items
  <1>5. ASSUME Distinct(s)  PROVE Distinct(rest) /\ Items(first) \cap Items(rest) = {}
    <2>1. ASSUME NEW i \in 1..Len(rest), NEW j \in 1..Len(rest), rest[i] = rest[j]  PROVE i = j
      <3>1. /\ n + i \in 1..Len(s) /\ n + j \in 1..Len(s)
            /\ s[n + i] = s[n + j]
        BY <1>a, <1>2, <2>1
      <3>2. n + i = n + j
        BY <1>5, <3>1 DEF Distinct
      <3> QED  BY <1>a, <1>2, <3>2
    <2>2. ASSUME NEW i \in 1..Len(first), NEW j \in 1..Len(rest), first[i] = rest[j]  PROVE FALSE
      <3>1. /\ i \in 1..Len(s) /\ n + j \in 1..Len(s) /\ i < n + j
            /\ s[i] = s[n + j]
        BY <1>a, <1>1, <1>2, <2>2
      <3>2. i = n + j
        BY <1>5, <3>1 DEF Distinct
      <3> QED  BY <1>a, <1>2, <3>1, <3>2
    <2> QED  BY <2>1, <2>2 DEF Distinct, Items
  <1> QED  BY <1>3, <1>4, <1>5 DEF first, rest

(* The instance in use is the one of this epoch and holds each frame once.    *)
Standing ==
    /\ epoch \in Nat /\ activeIndex \in Nat
    /\ active # Nobody =>
        /\ {"born", "index", "inside"} \subseteq DOMAIN active
        /\ active.born = epoch /\ active.inside \in Seq(Nat) /\ Distinct(active.inside)

(* A call under way is about the frame submitted last, has an instance to     *)
(* offer it to or has just lost one, and made few offers for how far it is.   *)
Calling ==
    attempt # NoCall =>
        /\ {"at", "frame", "index", "again", "offers"} \subseteq DOMAIN attempt
        /\ attempt.at \in {"offer", "reinitialize", "next"}
        /\ attempt.frame = counts.submitted
        /\ attempt.index \in Nat /\ attempt.index # 0 /\ attempt.offers \in Nat
        /\ attempt.again = TRUE \/ attempt.again = FALSE
        /\ attempt.at = "offer" <=> active # Nobody
        /\ attempt.at = "offer" /\ attempt.again = TRUE => attempt.offers = 0
        /\ attempt.at = "offer" /\ attempt.again = FALSE => attempt.offers <= attempt.index
        /\ attempt.at = "reinitialize" => attempt.offers = 1
        /\ attempt.at = "next" => attempt.again = FALSE /\ attempt.offers <= attempt.index + 1

(* Each epoch was told or waits to be, and each packet names its own.         *)
Announced ==
    /\ untold \in Seq(Nat)
    /\ told \cup Items(untold) = 1..epoch
    /\ \A a \in answers : a.born = a.epoch

(* Each call but the one under way was counted once by its end.               *)
Unended == IF attempt = NoCall THEN 0 ELSE 1
Summed ==
    /\ {"submitted", "encoded", "dropped", "refused"} \subseteq DOMAIN counts
    /\ counts.submitted \in Nat /\ counts.encoded \in Nat
    /\ counts.dropped \in Nat /\ counts.refused \in Nat
    /\ ((counts.encoded + counts.dropped) + counts.refused) + Unended = counts.submitted

(* Where the frames are that some encoder took: in one place each, and none   *)
(* of them is the frame the call under way is about.                          *)
Returned == {a.frame : a \in answers}
Taken == (Returned \cup Held) \cup abandoned
Apart ==
    /\ Returned \cap Held = {} /\ Returned \cap abandoned = {} /\ Held \cap abandoned = {}
    /\ IsFiniteSet(Taken) /\ Cardinality(Taken) = counts.encoded
    /\ \A f \in Taken :
        f \in Nat /\ f <= counts.submitted /\ (attempt # NoCall => f # counts.submitted)

FallbackInv == Standing /\ Calling /\ Announced /\ Summed /\ Apart

(* What the properties say follows.                                           *)
LEMMA FallbackInvSound == FallbackInv => ReplacementsSound
  <1> SUFFICES ASSUME FallbackInv  PROVE EpochNamesInstance /\ FramesAccounted
    BY DEF ReplacementsSound
  <1> USE DEF FallbackInv
  <1>1. attempt # NoCall => attempt.offers <= attempt.index + 1
    <2> SUFFICES ASSUME attempt # NoCall  PROVE attempt.offers <= attempt.index + 1
      OBVIOUS
    <2>1. /\ attempt.index \in Nat /\ attempt.index # 0 /\ attempt.offers \in Nat
          /\ attempt.offers = 0 \/ attempt.offers = 1 \/ attempt.offers <= attempt.index
             \/ attempt.offers <= attempt.index + 1
      BY DEF Calling
    <2> QED  BY <2>1
  <1>2. EpochNamesInstance
    BY <1>1 DEF EpochNamesInstance, Announced, Standing, Items
  <1>3. /\ Returned \cap Held = {} /\ Returned \cap abandoned = {} /\ Held \cap abandoned = {}
        /\ Cardinality(Taken) = counts.encoded
    BY DEF Apart
  <1>4. attempt = NoCall => counts.encoded + counts.dropped + counts.refused = counts.submitted
    BY DEF Summed, Unended
  <1>5. FramesAccounted
    BY <1>3, <1>4 DEF FramesAccounted, Returned, Taken
  <1> QED  BY <1>2, <1>5

LEMMA FallbackInitInv == FallbackInit => FallbackInv
  <1> SUFFICES ASSUME FallbackInit  PROVE FallbackInv
    OBVIOUS
  <1>1. Returned = {} /\ Held = {} /\ abandoned = {} /\ Taken = {}
    BY DEF FallbackInit, Returned, Held, Taken
  <1>2. Standing /\ Calling
    BY DEF FallbackInit, Standing, Calling
  <1>3. Announced
    BY DEF FallbackInit, Announced, Items
  <1>4. Summed
    BY DEF FallbackInit, Summed, Unended, NoCounts
  <1>5. Apart
    <2>1. counts.encoded = 0
      BY DEF FallbackInit, NoCounts
    <2> QED  BY <1>1, <2>1, FS_EmptySet DEF Apart
  <1> QED  BY <1>2, <1>3, <1>4, <1>5 DEF FallbackInv

(* Taking up a new instance: it holds nothing and stands for a new epoch.     *)
LEMMA Activated ==
    ASSUME FallbackInv, NEW index \in Nat, Activate(index)
    PROVE  /\ active' # Nobody /\ Held' = {} /\ Standing'
           /\ answers' = answers /\ told' = told => Announced'
  <1>1. /\ active' = [born |-> epoch + 1, index |-> index, inside |-> <<>>]
        /\ activeIndex' = index /\ epoch' = epoch + 1 /\ untold' = Append(untold, epoch + 1)
    BY DEF Activate, Instance
  <1>2. epoch \in Nat
    BY DEF FallbackInv, Standing
  <1>3. /\ active' # Nobody
        /\ active'.born = epoch' /\ active'.inside = <<>>
        /\ {"born", "index", "inside"} \subseteq DOMAIN active'
    BY <1>1, <1>2 DEF Nobody
  <1>4. Held' = {}
    BY <1>3 DEF Held
  <1>5. Standing'
    BY <1>1, <1>2, <1>3 DEF Standing, Distinct
  <1>6. ASSUME answers' = answers, told' = told  PROVE Announced'
    <2>1. /\ untold \in Seq(Nat) /\ told \cup Items(untold) = 1..epoch
          /\ \A a \in answers : a.born = a.epoch
      BY DEF FallbackInv, Announced
    <2>2. untold' \in Seq(Nat) /\ Items(untold)' = Items(untold) \cup {epoch + 1}
      BY <1>1, <1>2, <2>1, ItemsAppended
    <2>3. 1..epoch' = (1..epoch) \cup {epoch + 1}
      BY <1>1, <1>2
    <2>4. told' \cup Items(untold)' = 1..epoch'
      BY <1>6, <2>1, <2>2, <2>3
    <2> QED  BY <1>6, <2>1, <2>2, <2>4 DEF Announced
  <1> QED  BY <1>3, <1>4, <1>5, <1>6

(* What moved only: the frames of a lost instance are given up together.      *)
LEMMA GivenUp ==
    ASSUME FallbackInv, answers' = answers, abandoned' = abandoned \cup Held, Held' = {},
           counts' = counts, attempt' = NoCall \/ attempt # NoCall
    PROVE  Apart'
  <1>1. Returned' = Returned /\ Taken' = Taken
    BY DEF Returned, Taken
  <1>2. Apart
    BY DEF FallbackInv
  <1>3. Returned' \cap Held' = {} /\ Returned' \cap abandoned' = {} /\ Held' \cap abandoned' = {}
    BY <1>1, <1>2 DEF Apart
  <1>4. \A f \in Taken :
            f \in Nat /\ f <= counts'.submitted /\ (attempt' # NoCall => f # counts'.submitted)
    BY <1>2 DEF Apart
  <1> QED  BY <1>1, <1>2, <1>3, <1>4 DEF Apart

(* The same, of the frames, for a step that leaves them where they are.       *)
LEMMA Unmoved ==
    ASSUME FallbackInv, Returned' = Returned, abandoned' = abandoned, Held' = Held,
           counts'.encoded = counts.encoded, counts'.submitted \in Nat,
           \/ counts'.submitted = counts.submitted /\ (attempt' = NoCall \/ attempt # NoCall)
           \/ counts'.submitted = counts.submitted + 1
    PROVE  Apart'
  <1>1. Apart /\ Taken' = Taken /\ counts.submitted \in Nat
    BY DEF Taken, FallbackInv, Summed
  <1>2. ASSUME NEW f \in Taken
        PROVE  f \in Nat /\ f <= counts'.submitted /\ (attempt' # NoCall => f # counts'.submitted)
    <2>1. f \in Nat /\ f <= counts.submitted /\ (attempt # NoCall => f # counts.submitted)
      BY <1>1 DEF Apart
    <2> QED  BY <1>1, <2>1
  <1>3. Returned' \cap Held' = {} /\ Returned' \cap abandoned' = {} /\ Held' \cap abandoned' = {}
    BY <1>1 DEF Apart
  <1> QED  BY <1>1, <1>2, <1>3 DEF Apart

LEMMA RankedIndex ==
    ASSUME NEW order \in Rankings, NEW index \in 1..Len(order)
    PROVE  index \in Nat /\ index # 0
  <1>1. PICK n \in 0..Cardinality(Candidates) : order \in [1..n -> Candidates]
    BY DEF Rankings
  <1>2. n \in Nat
    BY FallbackAssumption, FS_CardinalityType, <1>1
  <1>3. Len(order) = n
    BY <1>1, <1>2
  <1> QED  BY <1>2, <1>3

LEMMA ConfigureInv ==
    ASSUME FallbackInv, NEW order \in Rankings, Configure(order)
    PROVE  FallbackInv'
  <1>a. /\ attempt = NoCall /\ attempt' = NoCall /\ counts' = counts /\ told' = told
        /\ answers' = answers /\ abandoned' = abandoned \cup Held
    BY DEF Configure
  <1>1. /\ Standing' /\ Announced' /\ Held' = {}
    <2>1. CASE \E index \in 1..Len(order) : Activate(index)
      <3>1. PICK index \in 1..Len(order) : Activate(index)
        BY <2>1
      <3> QED  BY <1>a, <3>1, RankedIndex, Activated
    <2>2. CASE active' = Nobody /\ activeIndex' = 0 /\ UNCHANGED <<epoch, untold>>
      <3>1. Standing /\ Announced
        BY DEF FallbackInv
      <3>2. Announced'
        BY <1>a, <2>2, <3>1 DEF Announced, Items
      <3> QED  BY <2>2, <3>1, <3>2 DEF Standing, Held
    <2> QED  BY <2>1, <2>2 DEF Configure
  <1>2. Calling' /\ Summed'
    BY <1>a DEF FallbackInv, Calling, Summed, Unended
  <1>3. Apart'
    BY <1>a, <1>1, GivenUp
  <1> QED  BY <1>1, <1>2, <1>3 DEF FallbackInv

LEMMA EncodeBeginInv ==
    ASSUME FallbackInv, EncodeBegin
    PROVE  FallbackInv'
  <1>a. /\ attempt = NoCall /\ activeIndex # 0 /\ active' = active /\ epoch' = epoch
        /\ activeIndex' = activeIndex /\ untold' = untold /\ told' = told /\ answers' = answers
        /\ abandoned' = abandoned
    BY DEF EncodeBegin
  <1>b. /\ {"submitted", "encoded", "dropped", "refused"} \subseteq DOMAIN counts
        /\ counts.submitted \in Nat /\ counts.encoded \in Nat
        /\ counts.dropped \in Nat /\ counts.refused \in Nat
        /\ (counts.encoded + counts.dropped) + counts.refused = counts.submitted
    BY <1>a DEF FallbackInv, Summed, Unended
  <1>c. /\ counts'.submitted = counts.submitted + 1 /\ counts'.encoded = counts.encoded
        /\ counts'.dropped = counts.dropped
        /\ counts'.refused = IF active = Nobody THEN counts.refused + 1 ELSE counts.refused
        /\ DOMAIN counts' = DOMAIN counts
    BY <1>b DEF EncodeBegin
  <1>d. IF active = Nobody THEN attempt' = NoCall
        ELSE attempt' = [at |-> "offer", frame |-> counts.submitted + 1, index |-> activeIndex,
                         again |-> TRUE, offers |-> 0]
    BY DEF EncodeBegin
  <1>e. activeIndex \in Nat
    BY DEF FallbackInv, Standing
  <1>f. active # Nobody => attempt' # NoCall
    BY <1>d DEF NoCall
  <1>1. Standing' /\ Announced'
    BY <1>a DEF FallbackInv, Standing, Announced, Items
  <1>2. Calling'
    <2>1. CASE active = Nobody
      BY <1>d, <2>1 DEF Calling
    <2>2. CASE active # Nobody
      <3>1. /\ {"at", "frame", "index", "again", "offers"} \subseteq DOMAIN attempt'
            /\ attempt'.at = "offer" /\ attempt'.frame = counts.submitted + 1
            /\ attempt'.index = activeIndex /\ attempt'.again = TRUE /\ attempt'.offers = 0
        BY <1>d, <2>2
      <3>2. attempt'.frame = counts'.submitted /\ active' # Nobody
        BY <1>a, <1>c, <2>2, <3>1
      <3>3. attempt'.index \in Nat /\ attempt'.index # 0
        BY <1>a, <1>e, <3>1
      <3> QED  BY <3>1, <3>2, <3>3 DEF Calling
    <2> QED  BY <2>1, <2>2
  <1>3. Summed'
    <2>1. CASE active = Nobody
      BY <1>b, <1>c, <1>d, <2>1 DEF Summed, Unended
    <2>2. CASE active # Nobody
      BY <1>b, <1>c, <1>f, <2>2 DEF Summed, Unended
    <2> QED  BY <2>1, <2>2
  <1>4. Returned' = Returned /\ Held' = Held
    BY <1>a DEF Returned, Held
  <1>5. Apart'
    BY <1>a, <1>b, <1>c, <1>4, Unmoved
  <1> QED  BY <1>1, <1>2, <1>3, <1>5 DEF FallbackInv

LEMMA EncodeFailedInv ==
    ASSUME FallbackInv, EncodeFailed
    PROVE  FallbackInv'
  <1>a. /\ attempt.at = "offer" /\ abandoned' = abandoned \cup Held /\ active' = Nobody
        /\ counts' = counts /\ epoch' = epoch /\ activeIndex' = activeIndex
        /\ untold' = untold /\ told' = told /\ answers' = answers
    BY DEF EncodeFailed
  <1>b. attempt # NoCall
    BY <1>a DEF NoCall
  <1>c. /\ {"at", "frame", "index", "again", "offers"} \subseteq DOMAIN attempt
        /\ attempt.frame = counts.submitted
        /\ attempt.index \in Nat /\ attempt.index # 0 /\ attempt.offers \in Nat
        /\ attempt.again = TRUE \/ attempt.again = FALSE
        /\ attempt.again = TRUE => attempt.offers = 0
        /\ attempt.again = FALSE => attempt.offers <= attempt.index
    BY <1>a, <1>b DEF FallbackInv, Calling
  <1>d. /\ DOMAIN attempt' = DOMAIN attempt /\ attempt'.frame = attempt.frame
        /\ attempt'.index = attempt.index /\ attempt'.again = attempt.again
        /\ attempt'.offers = attempt.offers + 1
        /\ attempt'.at = IF attempt.again THEN "reinitialize" ELSE "next"
    BY <1>c DEF EncodeFailed
  <1>e. attempt' # NoCall
    BY <1>d DEF NoCall
  <1>1. Standing' /\ Announced'
    BY <1>a DEF FallbackInv, Standing, Announced, Items
  <1>2. Calling'
    <2>1. CASE attempt.again = TRUE
      BY <1>a, <1>c, <1>d, <2>1 DEF Calling
    <2>2. CASE attempt.again = FALSE
      BY <1>a, <1>c, <1>d, <2>2 DEF Calling
    <2> QED  BY <1>c, <2>1, <2>2
  <1>3. Summed'
    BY <1>a, <1>b, <1>e DEF FallbackInv, Summed, Unended
  <1>4. Apart'
    BY <1>a, <1>b, GivenUp DEF Held
  <1> QED  BY <1>1, <1>2, <1>3, <1>4 DEF FallbackInv

(* An instance is found for the frame of the call.                            *)
LEMMA OfferedAgain ==
    ASSUME FallbackInv, attempt.at # "none", active = Nobody,
           NEW index \in Nat, index # 0, Activate(index),
           counts' = counts, told' = told, answers' = answers, abandoned' = abandoned,
           DOMAIN attempt' = DOMAIN attempt, attempt'.at = "offer",
           attempt'.frame = attempt.frame, attempt'.index = index,
           attempt'.again = FALSE, attempt'.offers = attempt.offers, attempt.offers <= index
    PROVE  FallbackInv'
  <1>1. attempt # NoCall /\ attempt' # NoCall
    BY DEF NoCall
  <1>2. Standing' /\ Announced' /\ Held' = {} /\ active' # Nobody
    BY Activated
  <1>3. /\ {"at", "frame", "index", "again", "offers"} \subseteq DOMAIN attempt
        /\ attempt.frame = counts.submitted /\ attempt.offers \in Nat
    BY <1>1 DEF FallbackInv, Calling
  <1>4. Calling'
    BY <1>2, <1>3 DEF Calling
  <1>5. Summed'
    BY <1>1 DEF FallbackInv, Summed, Unended
  <1>6. Held = {} /\ Returned' = Returned /\ counts.submitted \in Nat
    BY DEF Held, Returned, FallbackInv, Summed
  <1>7. Apart'
    BY <1>1, <1>2, <1>6, Unmoved
  <1> QED  BY <1>2, <1>4, <1>5, <1>7 DEF FallbackInv

LEMMA ReinitializeInv ==
    ASSUME FallbackInv, Reinitialize
    PROVE  FallbackInv'
  <1>a. /\ attempt.at = "reinitialize" /\ counts' = counts /\ told' = told /\ answers' = answers
        /\ abandoned' = abandoned
    BY DEF Reinitialize
  <1>b. attempt # NoCall
    BY <1>a DEF NoCall
  <1>c. /\ {"at", "frame", "index", "again", "offers"} \subseteq DOMAIN attempt
        /\ attempt.frame = counts.submitted
        /\ attempt.index \in Nat /\ attempt.index # 0 /\ attempt.offers = 1
        /\ active = Nobody /\ attempt.offers <= attempt.index
    BY <1>a, <1>b DEF FallbackInv, Calling
  <1>1. CASE Activate(attempt.index) /\ attempt' = [attempt EXCEPT !.at = "offer", !.again = FALSE]
    <2>1. /\ DOMAIN attempt' = DOMAIN attempt /\ attempt'.at = "offer"
          /\ attempt'.frame = attempt.frame /\ attempt'.index = attempt.index
          /\ attempt'.again = FALSE /\ attempt'.offers = attempt.offers
      BY <1>c, <1>1
    <2> QED  BY <1>a, <1>c, <1>1, <2>1, OfferedAgain
  <1>2. CASE /\ attempt' = [attempt EXCEPT !.at = "next", !.again = FALSE]
             /\ UNCHANGED <<active, activeIndex, epoch, untold>>
    <2>1. /\ DOMAIN attempt' = DOMAIN attempt /\ attempt'.at = "next"
          /\ attempt'.frame = attempt.frame /\ attempt'.index = attempt.index
          /\ attempt'.again = FALSE /\ attempt'.offers = attempt.offers
      BY <1>c, <1>2
    <2>2. attempt' # NoCall
      BY <2>1 DEF NoCall
    <2>3. Standing' /\ Announced'
      BY <1>a, <1>2 DEF FallbackInv, Standing, Announced, Items
    <2>4. Calling'
      BY <1>a, <1>c, <1>2, <2>1 DEF Calling
    <2>5. Summed'
      BY <1>a, <1>b, <2>2 DEF FallbackInv, Summed, Unended
    <2>6. Held' = Held /\ Returned' = Returned /\ counts.submitted \in Nat
      BY <1>a, <1>2 DEF Held, Returned, FallbackInv, Summed
    <2>7. Apart'
      BY <1>a, <1>b, <2>6, Unmoved
    <2> QED  BY <2>3, <2>4, <2>5, <2>7 DEF FallbackInv
  <1> QED  BY <1>1, <1>2 DEF Reinitialize

LEMMA FallBackInv ==
    ASSUME FallbackInv, FallBack
    PROVE  FallbackInv'
  <1>a. /\ attempt.at = "next" /\ counts' = counts /\ told' = told /\ answers' = answers
        /\ abandoned' = abandoned
    BY DEF FallBack
  <1>b. attempt # NoCall
    BY <1>a DEF NoCall
  <1>c. /\ {"at", "frame", "index", "again", "offers"} \subseteq DOMAIN attempt
        /\ attempt.index \in Nat /\ attempt.index # 0 /\ attempt.offers \in Nat
        /\ active = Nobody /\ attempt.offers <= attempt.index + 1
    BY <1>a, <1>b DEF FallbackInv, Calling
  <1>1. PICK index \in attempt.index + 1 .. Len(ranked) :
            /\ Activate(index)
            /\ attempt' = [attempt EXCEPT !.at = "offer", !.index = index]
    BY DEF FallBack
  <1>2. index \in Nat /\ index # 0 /\ attempt.offers <= index
    BY <1>c
  <1>3. attempt.again = FALSE
    BY <1>a, <1>b DEF FallbackInv, Calling
  <1>4. /\ DOMAIN attempt' = DOMAIN attempt /\ attempt'.at = "offer"
        /\ attempt'.frame = attempt.frame /\ attempt'.index = index
        /\ attempt'.again = FALSE /\ attempt'.offers = attempt.offers
    BY <1>c, <1>1, <1>3
  <1> QED  BY <1>a, <1>c, <1>1, <1>2, <1>4, OfferedAgain

LEMMA GiveUpInv ==
    ASSUME FallbackInv, GiveUp
    PROVE  FallbackInv'
  <1>a. /\ attempt.at = "next" /\ attempt' = NoCall /\ active' = active /\ epoch' = epoch
        /\ activeIndex' = activeIndex /\ untold' = untold /\ told' = told /\ answers' = answers
        /\ abandoned' = abandoned
    BY DEF GiveUp
  <1>b. attempt # NoCall
    BY <1>a DEF NoCall
  <1>c. /\ {"submitted", "encoded", "dropped", "refused"} \subseteq DOMAIN counts
        /\ counts.submitted \in Nat /\ counts.encoded \in Nat
        /\ counts.dropped \in Nat /\ counts.refused \in Nat
        /\ ((counts.encoded + counts.dropped) + counts.refused) + 1 = counts.submitted
    BY <1>b DEF FallbackInv, Summed, Unended
  <1>d. /\ counts'.submitted = counts.submitted /\ counts'.encoded = counts.encoded
        /\ counts'.dropped = counts.dropped + 1 /\ counts'.refused = counts.refused
        /\ DOMAIN counts' = DOMAIN counts
    BY <1>c DEF GiveUp
  <1>1. Standing' /\ Announced' /\ Calling'
    BY <1>a DEF FallbackInv, Standing, Announced, Items, Calling
  <1>2. Summed'
    BY <1>a, <1>c, <1>d DEF Summed, Unended
  <1>3. Returned' = Returned /\ Held' = Held
    BY <1>a DEF Returned, Held
  <1>4. Apart'
    BY <1>a, <1>c, <1>d, <1>3, Unmoved
  <1> QED  BY <1>1, <1>2, <1>4 DEF FallbackInv

LEMMA TakeEventsInv ==
    ASSUME FallbackInv, TakeEvents
    PROVE  FallbackInv'
  <1>a. /\ attempt' = attempt /\ active' = active /\ epoch' = epoch /\ counts' = counts
        /\ activeIndex' = activeIndex /\ untold' = <<>> /\ told' = told \cup Items(untold)
        /\ answers' = answers /\ abandoned' = abandoned
    BY DEF TakeEvents, Items
  <1>1. Standing' /\ Calling' /\ Summed'
    BY <1>a DEF FallbackInv, Standing, Calling, Summed, Unended
  <1>2. Announced'
    <2>1. Items(untold)' = {} /\ untold' \in Seq(Nat)
      BY <1>a DEF Items
    <2> QED  BY <1>a, <2>1 DEF FallbackInv, Announced
  <1>3. Returned' = Returned /\ Held' = Held /\ counts.submitted \in Nat
    BY <1>a DEF Returned, Held, FallbackInv, Summed
  <1>4. Apart'
    BY <1>a, <1>3, Unmoved
  <1> QED  BY <1>1, <1>2, <1>4 DEF FallbackInv

(* The frames of the packets made of some frames are these.                   *)
LEMMA PacketFrames ==
    ASSUME NEW frames, answers' = answers \cup Packets(frames),
           FallbackInv, active # Nobody
    PROVE  Returned' = Returned \cup Items(frames) /\ \A a \in answers' : a.born = a.epoch
  <1>1. \A i \in 1..Len(frames) :
            \E a \in Packets(frames) : a.frame = frames[i]
    <2> SUFFICES ASSUME NEW i \in 1..Len(frames)
                 PROVE  \E a \in Packets(frames) : a.frame = frames[i]
      OBVIOUS
    <2>1. [frame |-> frames[i], born |-> active.born, epoch |-> epoch] \in Packets(frames)
      BY DEF Packets
    <2> QED  BY <2>1
  <1>2. \A a \in Packets(frames) :
            a.born = a.epoch /\ \E i \in 1..Len(frames) : a.frame = frames[i]
    BY DEF Packets, FallbackInv, Standing
  <1>3. Returned' = Returned \cup Items(frames)
    BY <1>1, <1>2 DEF Returned, Items
  <1>4. \A a \in answers : a.born = a.epoch
    BY DEF FallbackInv, Announced
  <1> QED  BY <1>2, <1>3, <1>4

LEMMA DrainInv ==
    ASSUME FallbackInv, Drain
    PROVE  FallbackInv'
  <1>a. /\ attempt = NoCall /\ attempt' = NoCall /\ active # Nobody /\ epoch' = epoch
        /\ counts' = counts /\ activeIndex' = activeIndex /\ untold' = untold /\ told' = told
        /\ answers' = answers \cup Packets(active.inside) /\ abandoned' = abandoned
    BY DEF Drain
  <1>b. /\ {"born", "index", "inside"} \subseteq DOMAIN active /\ active.born = epoch
        /\ active.inside \in Seq(Nat) /\ epoch \in Nat /\ activeIndex \in Nat
    BY <1>a DEF FallbackInv, Standing
  <1>c. /\ DOMAIN active' = DOMAIN active /\ active'.born = active.born /\ active'.inside = <<>>
    BY <1>b DEF Drain
  <1>d. Held = Items(active.inside) /\ Held' = {}
    <2>1. active' # Nobody
      BY <1>b, <1>c DEF Nobody
    <2> QED  BY <1>a, <1>c, <2>1 DEF Held, Items
  <1>e. Returned' = Returned \cup Held /\ \A a \in answers' : a.born = a.epoch
    BY <1>a, <1>d, PacketFrames
  <1>1. Standing'
    BY <1>a, <1>b, <1>c DEF Standing, Distinct
  <1>2. Calling' /\ Summed'
    BY <1>a DEF FallbackInv, Calling, Summed, Unended
  <1>3. Announced'
    BY <1>a, <1>e DEF FallbackInv, Announced, Items
  <1>4. Apart'
    <2>1. Apart /\ Taken' = Taken
      BY <1>a, <1>d, <1>e DEF FallbackInv, Taken
    <2>2. Returned' \cap Held' = {} /\ Returned' \cap abandoned' = {} /\ Held' \cap abandoned' = {}
      BY <1>a, <1>d, <1>e, <2>1 DEF Apart
    <2> QED  BY <1>a, <2>1, <2>2 DEF Apart
  <1> QED  BY <1>1, <1>2, <1>3, <1>4 DEF FallbackInv

LEMMA EncodedInv ==
    ASSUME FallbackInv, Encoded
    PROVE  FallbackInv'
  <1> DEFINE held == Append(active.inside, attempt.frame)
  <1>a. /\ attempt.at = "offer" /\ attempt' = NoCall /\ epoch' = epoch
        /\ activeIndex' = activeIndex /\ untold' = untold /\ told' = told
        /\ abandoned' = abandoned
    BY DEF Encoded
  <1>b. attempt # NoCall
    BY <1>a DEF NoCall
  <1>c. active # Nobody /\ attempt.frame = counts.submitted
    BY <1>a, <1>b DEF FallbackInv, Calling
  <1>d. /\ {"born", "index", "inside"} \subseteq DOMAIN active /\ active.born = epoch
        /\ active.inside \in Seq(Nat) /\ Distinct(active.inside)
        /\ epoch \in Nat /\ activeIndex \in Nat
    BY <1>c DEF FallbackInv, Standing
  <1>e. /\ {"submitted", "encoded", "dropped", "refused"} \subseteq DOMAIN counts
        /\ counts.submitted \in Nat /\ counts.encoded \in Nat
        /\ counts.dropped \in Nat /\ counts.refused \in Nat
        /\ ((counts.encoded + counts.dropped) + counts.refused) + 1 = counts.submitted
    BY <1>b DEF FallbackInv, Summed, Unended
  <1>f. /\ counts'.submitted = counts.submitted /\ counts'.encoded = counts.encoded + 1
        /\ counts'.dropped = counts.dropped /\ counts'.refused = counts.refused
        /\ DOMAIN counts' = DOMAIN counts
    BY <1>e DEF Encoded
  <1>g. Apart /\ Held = Items(active.inside) /\ attempt.frame \in Nat
    BY <1>c, <1>e DEF FallbackInv, Held, Items
  <1>h. attempt.frame \notin Taken
    BY <1>b, <1>c, <1>g DEF Apart
  <1>i. held \in Seq(Nat) /\ Items(held) = Held \cup {attempt.frame} /\ Distinct(held)
    <2>1. attempt.frame \notin Items(active.inside)
      BY <1>g, <1>h DEF Taken
    <2> QED  BY <1>d, <1>g, <2>1, ItemsAppended
  <1>1. PICK n \in 0..Len(held) :
            /\ active' = [active EXCEPT !.inside = SubSeq(held, n + 1, Len(held))]
            /\ answers' = answers \cup Packets(SubSeq(held, 1, n))
    BY DEF Encoded
  <1> DEFINE first == SubSeq(held, 1, n)
             rest == SubSeq(held, n + 1, Len(held))
  <1>2. /\ rest \in Seq(Nat) /\ Items(first) \cup Items(rest) = Items(held)
        /\ Distinct(rest) /\ Items(first) \cap Items(rest) = {}
    BY <1>i, ItemsCut
  <1>3. /\ DOMAIN active' = DOMAIN active /\ active'.born = active.born /\ active'.inside = rest
    BY <1>d, <1>1
  <1>4. answers' = answers \cup Packets(first)
    BY <1>1
  <1> HIDE DEF held, first, rest
  <1>5. active' # Nobody
    BY <1>d, <1>3 DEF Nobody
  <1>6. Held' = Items(rest)
    BY <1>3, <1>5 DEF Held, Items
  <1>7. Returned' = Returned \cup Items(first) /\ \A a \in answers' : a.born = a.epoch
    BY <1>c, <1>4, PacketFrames
  <1>8. Standing'
    BY <1>a, <1>d, <1>2, <1>3 DEF Standing
  <1>9. Calling'
    BY <1>a DEF Calling
  <1>10. Announced'
    BY <1>a, <1>7 DEF FallbackInv, Announced, Items
  <1>11. Summed'
    BY <1>a, <1>e, <1>f DEF Summed, Unended
  <1>12. Taken' = Taken \cup {attempt.frame}
    BY <1>a, <1>2, <1>6, <1>7, <1>i DEF Taken
  <1>13. IsFiniteSet(Taken') /\ Cardinality(Taken') = counts'.encoded
    <2>1. IsFiniteSet(Taken) /\ Cardinality(Taken) = counts.encoded
      BY <1>g DEF Apart
    <2>2. /\ IsFiniteSet(Taken \cup {attempt.frame})
          /\ Cardinality(Taken \cup {attempt.frame}) = Cardinality(Taken) + 1
      BY <1>h, <2>1, FS_AddElement
    <2> QED  BY <1>f, <1>12, <2>1, <2>2
  <1>14. Returned' \cap Held' = {} /\ Returned' \cap abandoned' = {} /\ Held' \cap abandoned' = {}
    <2>1. Items(first) \cup Items(rest) = Held \cup {attempt.frame}
      BY <1>2, <1>i
    <2>2. attempt.frame \notin Returned /\ attempt.frame \notin abandoned
      BY <1>h DEF Taken
    <2> QED  BY <1>a, <1>2, <1>6, <1>7, <1>g, <2>1, <2>2 DEF Apart
  <1>15. \A f \in Taken' :
            f \in Nat /\ f <= counts'.submitted /\ (attempt' # NoCall => f # counts'.submitted)
    BY <1>a, <1>c, <1>e, <1>f, <1>g, <1>12 DEF Apart
  <1>16. Apart'
    BY <1>13, <1>14, <1>15 DEF Apart
  <1> QED  BY <1>8, <1>9, <1>10, <1>11, <1>16 DEF FallbackInv

LEMMA FallbackNextInv == FallbackInv /\ [FallbackNext]_fallbackVars => FallbackInv'
  <1> SUFFICES ASSUME FallbackInv, [FallbackNext]_fallbackVars  PROVE FallbackInv'
    OBVIOUS
  <1>1. CASE \E order \in Rankings : Configure(order)
    BY <1>1, ConfigureInv
  <1>2. CASE EncodeBegin \/ Encoded \/ EncodeFailed
    BY <1>2, EncodeBeginInv, EncodedInv, EncodeFailedInv
  <1>3. CASE Reinitialize \/ FallBack \/ GiveUp
    BY <1>3, ReinitializeInv, FallBackInv, GiveUpInv
  <1>4. CASE Drain \/ TakeEvents
    BY <1>4, DrainInv, TakeEventsInv
  <1>5. CASE UNCHANGED fallbackVars
    <2>1. /\ active' = active /\ epoch' = epoch /\ activeIndex' = activeIndex
          /\ attempt' = attempt /\ untold' = untold /\ counts' = counts /\ told' = told
          /\ answers' = answers /\ abandoned' = abandoned
      BY <1>5 DEF fallbackVars
    <2>2. Standing' /\ Calling' /\ Announced' /\ Summed'
      BY <2>1 DEF FallbackInv, Standing, Calling, Announced, Summed, Unended, Items
    <2>3. Returned' = Returned /\ Held' = Held /\ counts.submitted \in Nat
      BY <2>1 DEF Returned, Held, FallbackInv, Summed
    <2>4. Apart'
      BY <2>1, <2>3, Unmoved
    <2> QED  BY <2>2, <2>4 DEF FallbackInv
  <1> QED  BY <1>1, <1>2, <1>3, <1>4, <1>5 DEF FallbackNext

(* However encoders fail and are replaced, each frame some encoder took is in *)
(* one place, each call ends counted once, and each packet bears the epoch of *)
(* the instance that made it, whatever the list of encoders and the bounds.   *)
THEOREM ReplacementsAlwaysSound == FallbackSpec => []ReplacementsSound
  <1>1. FallbackSpec => []FallbackInv
    BY FallbackInitInv, FallbackNextInv, PTL DEF FallbackSpec
  <1> QED  BY <1>1, FallbackInvSound, PTL

-----------------------------------------------------------------------------
(* The asynchronous transform                                             *)

(* How often a sequence has an element.                                       *)
Spots(s, e) == {i \in 1..Len(s) : s[i] = e}
HowMany(s, e) == Cardinality(Spots(s, e))

LEMMA SpotsFinite ==
    ASSUME NEW S, NEW s \in Seq(S), NEW e
    PROVE  IsFiniteSet(Spots(s, e)) /\ HowMany(s, e) \in Nat
  <1>1. IsFiniteSet(1..Len(s))
    BY LenProperties, FS_Interval
  <1>2. Spots(s, e) \in SUBSET (1..Len(s))
    BY DEF Spots
  <1>3. IsFiniteSet(Spots(s, e))
    BY <1>1, <1>2, FS_Subset
  <1> QED  BY <1>3, FS_CardinalityType DEF HowMany

LEMMA NoneInNothing == \A e : HowMany(<<>>, e) = 0
  <1>1. \A e : Spots(<<>>, e) = {}
    BY DEF Spots
  <1> QED  BY <1>1, FS_EmptySet DEF HowMany

LEMMA OneMore ==
    ASSUME NEW S, NEW s \in Seq(S), NEW x \in S, NEW e
    PROVE  HowMany(Append(s, x), e) = HowMany(s, e) + (IF x = e THEN 1 ELSE 0)
  <1> DEFINE t == Append(s, x)
  <1>1. /\ Len(t) = Len(s) + 1 /\ Len(s) \in Nat
        /\ \A i \in 1..Len(s) : t[i] = s[i]
        /\ t[Len(s) + 1] = x
    BY AppendProperties, LenProperties
  <1> HIDE DEF t
  <1>2. IsFiniteSet(Spots(s, e)) /\ HowMany(s, e) \in Nat
    BY SpotsFinite
  <1>3. CASE x = e
    <2>1. Spots(t, e) = Spots(s, e) \cup {Len(s) + 1}
      BY <1>1, <1>3 DEF Spots
    <2>2. Len(s) + 1 \notin Spots(s, e)
      BY <1>1 DEF Spots
    <2> QED  BY <1>2, <1>3, <2>1, <2>2, FS_AddElement DEF HowMany, t
  <1>4. CASE x # e
    <2>1. Spots(t, e) = Spots(s, e)
      BY <1>1, <1>4 DEF Spots
    <2> QED  BY <1>2, <1>4, <2>1 DEF HowMany, t
  <1> QED  BY <1>3, <1>4

LEMMA OneLess ==
    ASSUME NEW S, NEW s \in Seq(S), s # <<>>, NEW e
    PROVE  HowMany(s, e) = HowMany(Tail(s), e) + (IF Head(s) = e THEN 1 ELSE 0)
  <1> DEFINE t == Tail(s)
             later == Spots(s, e) \ {1}
             f == [i \in Spots(t, e) |-> i + 1]
  <1>1. /\ t \in Seq(S) /\ Len(t) = Len(s) - 1 /\ Len(s) \in Nat /\ Len(s) > 0
        /\ \A i \in 1..Len(t) : t[i] = s[i + 1]
        /\ Head(s) = s[1]
    BY HeadTailProperties, EmptySeq, LenProperties
  <1> HIDE DEF t
  <1>2. /\ IsFiniteSet(Spots(s, e)) /\ HowMany(s, e) \in Nat
        /\ IsFiniteSet(Spots(t, e)) /\ HowMany(t, e) \in Nat
    BY <1>1, SpotsFinite
  <1>3. f \in Bijection(Spots(t, e), later)
    <2>1. ASSUME NEW i \in Spots(t, e)  PROVE i + 1 \in later
      BY <1>1 DEF Spots
    <2>2. ASSUME NEW j \in later  PROVE \E i \in Spots(t, e) : f[i] = j
      <3>1. j - 1 \in Spots(t, e) /\ j - 1 + 1 = j
        BY <1>1 DEF Spots
      <3> QED  BY <3>1
    <2>3. \A i, j \in Spots(t, e) : f[i] = f[j] => i = j
      BY <1>1 DEF Spots
    <2>4. f \in [Spots(t, e) -> later]
      BY <2>1
    <2> HIDE DEF f, later
    <2> QED  BY <2>2, <2>3, <2>4, Fun_IsBij
  <1>4. Cardinality(later) = HowMany(t, e)
    BY <1>2, <1>3, FS_Bijection DEF HowMany, ExistsBijection
  <1>5. Cardinality(later) = IF 1 \in Spots(s, e) THEN HowMany(s, e) - 1 ELSE HowMany(s, e)
    BY <1>2, FS_RemoveElement DEF HowMany
  <1>6. 1 \in Spots(s, e) <=> Head(s) = e
    BY <1>1 DEF Spots
  <1> HIDE DEF later
  <1>7. CASE Head(s) = e
    BY <1>2, <1>4, <1>5, <1>6, <1>7 DEF t
  <1>8. CASE Head(s) # e
    BY <1>2, <1>4, <1>5, <1>6, <1>8 DEF t
  <1> QED  BY <1>7, <1>8

Signals == {"NeedInput", "HaveOutput", "DrainComplete"}
InEncode == {"idle", "collect", "fetch", "sample", "input", "wait"}

Machine ==
    /\ {"open", "asked", "inside", "ready", "events"} \subseteq DOMAIN mft
    /\ mft.asked \in Nat /\ mft.inside \in Seq(Nat) /\ mft.ready \in Seq(Nat)
    /\ mft.events \in Seq(Signals)
    /\ {"at", "again"} \subseteq DOMAIN call
    /\ call.at \in InEncode \cup {"drain", "drained", "failed"}
    /\ packets \in Seq([frame : Nat, pts : Nat]) /\ pending \in Nat

(* Every frame that went in is returned, ready or inside, in this order.      *)
Lined ==
    /\ accepted \in Seq(Nat)
    /\ (Len(packets) + Len(mft.ready)) + Len(mft.inside) = Len(accepted)
    /\ \A i \in 1..Len(mft.ready) : mft.ready[i] = accepted[Len(packets) + i]
    /\ \A i \in 1..Len(mft.inside) :
        mft.inside[i] = accepted[(Len(packets) + Len(mft.ready)) + i]

(* Times and frames never go back.                                            *)
Risen ==
    /\ offered \in Seq(Nat)
    /\ \A i, j \in 1..Len(offered) : i <= j => offered[i] <= offered[j]
    /\ \A i, j \in 1..Len(accepted) : i <= j => accepted[i] <= accepted[j]
    /\ \A i \in 1..Len(accepted) : accepted[i] \in 1..Len(offered)

(* The queue has the times of the frames not returned, and while a frame is   *)
(* about to go in its time after them.                                        *)
Coming == IF call.at \in {"input", "wait"} THEN 1 ELSE 0
Dated ==
    /\ ptsQueue \in Seq(Nat)
    /\ Len(ptsQueue) + Len(packets) >= Len(accepted)
    /\ call.at # "failed" => Len(ptsQueue) + Len(packets) = Len(accepted) + Coming
    /\ \A i \in 1..Len(ptsQueue) :
        Len(packets) + i <= Len(accepted) => ptsQueue[i] = offered[accepted[Len(packets) + i]]
    /\ call.at \in {"collect", "fetch", "sample", "input", "wait"} => offered # <<>>
    /\ call.at \in {"input", "wait"} => ptsQueue[Len(ptsQueue)] = offered[Len(offered)]

Paired ==
    /\ \A i \in 1..Len(packets) :
        packets[i] = [frame |-> accepted[i], pts |-> offered[accepted[i]]]
    /\ lastDts = IF Len(packets) = 0 THEN -1 ELSE offered[accepted[Len(packets)]]

(* Every output that is ready is announced or known to be pending, the worker *)
(* that waits has an event to wait for, and the end is the last event.        *)
Signalled ==
    /\ HowMany(mft.events, "HaveOutput") + pending = Len(mft.ready)
    /\ call.at \notin {"collect", "fetch", "failed"} => pending = 0
    /\ call.at = "wait" => mft.asked <= HowMany(mft.events, "NeedInput")
    /\ call.at \in InEncode => mft.open
    /\ \A i \in 1..Len(mft.events) : mft.events[i] = "DrainComplete" =>
        i = Len(mft.events) /\ mft.inside = <<>> /\ ~ mft.open
    /\ call.at = "drained" => mft.inside = <<>> /\ mft.ready = <<>>

TransformInv == Machine /\ Lined /\ Risen /\ Dated /\ Paired /\ Signalled

LEMMA TransformInvSound == TransformInv => TransformSound
  <1> SUFFICES ASSUME TransformInv  PROVE PacketsPaired /\ WaitsOnTransform
    BY DEF TransformSound
  <1>1. PacketsPaired
    <2>1. ASSUME call.at = "drained"  PROVE Len(packets) = Len(accepted)
      <3>1. mft.inside = <<>> /\ mft.ready = <<>>
        BY <2>1 DEF TransformInv, Signalled
      <3>2. Len(mft.inside) = 0 /\ Len(mft.ready) = 0 /\ Len(packets) \in Nat
        BY <3>1, LenProperties DEF TransformInv, Machine
      <3> QED  BY <3>2 DEF TransformInv, Lined
    <2> QED  BY <2>1 DEF PacketsPaired, TransformInv, Paired
  <1>2. WaitsOnTransform
    <2> SUFFICES ASSUME call.at \in {"wait", "drain"}, mft.events = <<>>
                 PROVE  mft.ready = <<>> /\ pending = 0 /\ (call.at = "wait" => mft.asked = 0)
      BY DEF WaitsOnTransform
    <2>1. HowMany(mft.events, "HaveOutput") = 0 /\ HowMany(mft.events, "NeedInput") = 0
      BY NoneInNothing
    <2>2. pending = 0 /\ Len(mft.ready) = 0 /\ mft.ready \in Seq(Nat) /\ mft.asked \in Nat
      BY <2>1 DEF TransformInv, Signalled, Machine
    <2>3. mft.ready = <<>>
      BY <2>2, EmptySeq
    <2> QED  BY <2>1, <2>2, <2>3 DEF TransformInv, Signalled
  <1> QED  BY <1>1, <1>2

LEMMA TransformInitInv == TransformInit => TransformInv
  <1> SUFFICES ASSUME TransformInit  PROVE TransformInv
    OBVIOUS
  <1>1. /\ mft = [open |-> TRUE, asked |-> 0, inside |-> <<>>, ready |-> <<>>, events |-> <<>>]
        /\ call = [at |-> "idle", again |-> FALSE] /\ pending = 0 /\ ptsQueue = <<>>
        /\ lastDts = -1 /\ offered = <<>> /\ accepted = <<>> /\ packets = <<>>
    BY DEF TransformInit, NoWork
  <1>2. /\ mft.asked = 0 /\ mft.inside = <<>> /\ mft.ready = <<>> /\ mft.events = <<>>
        /\ mft.open /\ call.at = "idle"
    BY <1>1
  <1>3. Machine
    BY <1>1, <1>2 DEF Machine, InEncode
  <1>4. Lined /\ Risen /\ Dated /\ Paired
    BY <1>1, <1>2 DEF Lined, Risen, Dated, Paired, Coming
  <1>5. Signalled
    BY <1>1, <1>2, NoneInNothing DEF Signalled
  <1> QED  BY <1>3, <1>4, <1>5 DEF TransformInv

(* One output is returned: the oldest that is ready, with its own time.        *)
LEMMA OutputReturned ==
    ASSUME TransformInv, mft.ready # <<>>, ProcessOutput,
           mft'.ready = Tail(mft.ready), mft'.inside = mft.inside,
           call' = call, offered' = offered, accepted' = accepted, call.at # "failed"
    PROVE  /\ Lined' /\ Risen' /\ Dated' /\ Paired'
           /\ packets' \in Seq([frame : Nat, pts : Nat])
           /\ Len(mft'.ready) = Len(mft.ready) - 1 /\ mft'.ready \in Seq(Nat)
  <1> DEFINE P == Len(packets)
             A == Len(accepted)
             Q == Len(ptsQueue)
             frame == Head(mft.ready)
             raw == Head(ptsQueue)
             R == Len(mft.ready)
             I == Len(mft.inside)
  <1>1. /\ mft.inside \in Seq(Nat) /\ mft.ready \in Seq(Nat) /\ accepted \in Seq(Nat)
        /\ packets \in Seq([frame : Nat, pts : Nat])
        /\ ptsQueue \in Seq(Nat) /\ offered \in Seq(Nat)
        /\ P \in Nat /\ A \in Nat /\ Q \in Nat /\ I \in Nat /\ Len(offered) \in Nat
    BY LenProperties DEF TransformInv, Machine, Lined, Risen, Dated
  <1>2. /\ Tail(mft.ready) \in Seq(Nat) /\ R \in Nat /\ R >= 1
        /\ Len(Tail(mft.ready)) = R - 1
        /\ \A i \in 1..Len(Tail(mft.ready)) : Tail(mft.ready)[i] = mft.ready[i + 1]
        /\ frame = mft.ready[1]
    BY <1>1, HeadTailProperties, EmptySeq, LenProperties
  <1> HIDE DEF P, A, Q, R, I, frame, raw
  <1>3. P + 1 <= A /\ P + 1 \in 1..A /\ Q >= 1
    <2>1. (P + R) + I = A /\ Q + P >= A
      BY DEF TransformInv, Lined, Dated, P, A, Q, R, I
    <2> QED  BY <1>1, <1>2, <2>1
  <1>4. ptsQueue # <<>>
    BY <1>1, <1>3 DEF Q
  <1>5. /\ Tail(ptsQueue) \in Seq(Nat) /\ Len(Tail(ptsQueue)) = Q - 1
        /\ \A i \in 1..(Q - 1) : Tail(ptsQueue)[i] = ptsQueue[i + 1]
        /\ raw = ptsQueue[1]
    BY <1>1, <1>4, HeadTailProperties DEF Q, raw
  <1>6. accepted[P + 1] \in 1..Len(offered) /\ frame = accepted[P + 1]
    <2>1. accepted[P + 1] \in 1..Len(offered)
      BY <1>3 DEF TransformInv, Risen, A
    <2>2. mft.ready[1] = accepted[P + 1]
      <3>1. 1 \in 1..Len(mft.ready)
        BY <1>2 DEF R
      <3> QED  BY <3>1 DEF TransformInv, Lined, P
    <2> QED  BY <1>2, <2>1, <2>2
  <1>7. raw = offered[accepted[P + 1]] /\ raw \in Nat
    <2>1. 1 \in 1..Q /\ P + 1 <= A
      BY <1>1, <1>3
    <2>2. ptsQueue[1] = offered[accepted[P + 1]]
      BY <2>1 DEF TransformInv, Dated, P, A, Q
    <2>3. offered[accepted[P + 1]] \in Nat
      <3>1. offered \in Seq(Nat) /\ accepted[P + 1] \in 1..Len(offered)
        BY <1>1, <1>6
      <3> QED  BY <3>1, ElementOfSeq
    <2> QED  BY <1>5, <2>2, <2>3
  <1>8. ~(raw < lastDts)
    <2>1. CASE P = 0
      BY <1>7, <2>1 DEF TransformInv, Paired, P
    <2>2. CASE P # 0
      <3>1. P \in 1..A /\ P <= P + 1
        BY <1>1, <1>3, <2>2
      <3>2. accepted[P] <= accepted[P + 1] /\ accepted[P] \in 1..Len(offered)
        BY <1>1, <1>3, <3>1 DEF TransformInv, Risen, A
      <3>3. offered[accepted[P]] <= offered[accepted[P + 1]]
        BY <1>6, <3>2 DEF TransformInv, Risen
      <3>a. offered[accepted[P]] \in Nat
        <4>1. offered \in Seq(Nat) /\ accepted[P] \in 1..Len(offered)
          BY <1>1, <3>2
        <4> QED  BY <4>1, ElementOfSeq
      <3>4. lastDts = offered[accepted[P]] /\ lastDts \in Nat
        BY <2>2, <3>a DEF TransformInv, Paired, P
      <3> QED  BY <1>7, <3>3, <3>4
    <2> QED  BY <2>1, <2>2
  <1>9. /\ packets' = Append(packets, [frame |-> frame, pts |-> raw]) /\ lastDts' = raw
        /\ ptsQueue' = Tail(ptsQueue)
    BY <1>4, <1>8 DEF ProcessOutput, raw, frame
  <1>10. [frame |-> frame, pts |-> raw] \in [frame : Nat, pts : Nat]
    BY <1>1, <1>6, <1>7
  <1>11. /\ packets' \in Seq([frame : Nat, pts : Nat]) /\ Len(packets') = P + 1
         /\ \A i \in 1..P : packets'[i] = packets[i]
         /\ packets'[P + 1] = [frame |-> frame, pts |-> raw]
    BY <1>1, <1>9, <1>10, AppendProperties DEF P
  <1>12. Risen'
    BY DEF TransformInv, Risen
  <1>13. Lined'
    <2>1. \A i \in 1..Len(mft'.ready) : mft'.ready[i] = accepted'[Len(packets') + i]
      <3> SUFFICES ASSUME NEW i \in 1..Len(mft'.ready)
                   PROVE  mft'.ready[i] = accepted[(P + 1) + i]
        BY <1>11
      <3>1. i \in Nat /\ i + 1 \in 1..R /\ mft'.ready[i] = mft.ready[i + 1]
        BY <1>2
      <3>2. mft.ready[i + 1] = accepted[P + (i + 1)]
        BY <3>1 DEF TransformInv, Lined, P, R
      <3>3. P + (i + 1) = (P + 1) + i
        BY <1>1, <3>1
      <3> QED  BY <3>1, <3>2, <3>3
    <2>2. Len(packets') + Len(mft'.ready) = P + R
      <3>1. Len(mft'.ready) = R - 1 /\ Len(packets') = P + 1
        BY <1>2, <1>11
      <3>2. (P + 1) + (R - 1) = P + R
        BY <1>1, <1>2
      <3> QED  BY <3>1, <3>2
    <2> QED  BY <1>1, <2>1, <2>2 DEF TransformInv, Lined, P, R
  <1>14. Dated'
    <2>1. /\ ptsQueue' \in Seq(Nat) /\ Len(ptsQueue') = Q - 1 /\ Coming' = Coming
          /\ \A i \in 1..(Q - 1) : ptsQueue'[i] = ptsQueue[i + 1]
      BY <1>5, <1>9 DEF Coming
    <2>2. /\ Len(ptsQueue') + Len(packets') = Q + P /\ Q + P >= A
          /\ call.at # "failed" => Q + P = A + Coming
      BY <1>1, <1>3, <1>11, <2>1 DEF TransformInv, Dated, P, Q, A
    <2>3. ASSUME NEW i \in 1..(Q - 1), (P + 1) + i <= A
          PROVE  ptsQueue'[i] = offered[accepted[(P + 1) + i]]
      <3>1. i + 1 \in 1..Q /\ P + (i + 1) <= A /\ P + (i + 1) = (P + 1) + i
        BY <1>1, <2>3
      <3>2. ptsQueue[i + 1] = offered[accepted[P + (i + 1)]]
        BY <3>1 DEF TransformInv, Dated, P, Q, A
      <3> QED  BY <2>1, <3>1, <3>2
    <2>4. ASSUME call.at \in {"input", "wait"}
          PROVE  ptsQueue'[Len(ptsQueue')] = offered[Len(offered)]
      <3>1. Q >= 2 /\ Q - 1 \in 1..(Q - 1) /\ (Q - 1) + 1 = Q
        BY <1>1, <1>3, <2>2, <2>4 DEF Coming
      <3>2. ptsQueue[Q] = offered[Len(offered)]
        BY <2>4 DEF TransformInv, Dated, Q
      <3> QED  BY <2>1, <3>1, <3>2
    <2>5. call.at \in {"collect", "fetch", "sample", "input", "wait"} => offered # <<>>
      BY DEF TransformInv, Dated
    <2> QED  BY <1>1, <1>11, <2>1, <2>2, <2>3, <2>4, <2>5 DEF Dated, A
  <1>15. Paired'
    <2>1. \A i \in 1..(P + 1) :
            packets'[i] = [frame |-> accepted[i], pts |-> offered[accepted[i]]]
      <3>1. \A i \in 1..P : packets'[i] = [frame |-> accepted[i], pts |-> offered[accepted[i]]]
        BY <1>11 DEF TransformInv, Paired, P
      <3>2. \A i \in 1..(P + 1) : i \in 1..P \/ i = P + 1
        BY <1>1
      <3> QED  BY <1>6, <1>7, <1>11, <3>1, <3>2
    <2>2. lastDts' = offered[accepted[P + 1]] /\ P + 1 # 0
      BY <1>1, <1>7, <1>9
    <2> QED  BY <1>11, <2>1, <2>2 DEF Paired
  <1> QED  BY <1>2, <1>11, <1>12, <1>13, <1>14, <1>15 DEF R

(* Steps that move no frame.                                                  *)
LEMMA FramesKept ==
    ASSUME TransformInv, packets' = packets, mft'.inside = mft.inside, mft'.ready = mft.ready,
           accepted' = accepted, offered' = offered, lastDts' = lastDts
    PROVE  Lined' /\ Risen' /\ Paired'
  BY DEF TransformInv, Lined, Risen, Paired

LEMMA TimesKept ==
    ASSUME TransformInv, packets' = packets, accepted' = accepted, offered' = offered,
           ptsQueue' = ptsQueue, call'.at = "failed" \/ (call.at # "failed" /\ Coming' = Coming),
           call'.at \in {"input", "wait"} => call.at \in {"input", "wait"},
           call'.at \in {"collect", "fetch", "sample"} => offered # <<>>
    PROVE  Dated'
  BY DEF TransformInv, Dated

(* A step of the transform adds its event to the others.                      *)
LEMMA EventAdded ==
    ASSUME TransformInv, NEW e \in Signals, mft'.events = Append(mft.events, e)
    PROVE  /\ mft'.events \in Seq(Signals) /\ Len(mft'.events) = Len(mft.events) + 1
           /\ Len(mft.events) \in Nat /\ mft'.events[Len(mft.events) + 1] = e
           /\ \A i \in 1..Len(mft.events) : mft'.events[i] = mft.events[i]
           /\ \A x : HowMany(mft'.events, x) = HowMany(mft.events, x) + (IF e = x THEN 1 ELSE 0)
           /\ \A x : HowMany(mft.events, x) \in Nat
  <1>1. mft.events \in Seq(Signals)
    BY DEF TransformInv, Machine
  <1>2. \A x : HowMany(mft'.events, x) = HowMany(mft.events, x) + (IF e = x THEN 1 ELSE 0)
    BY <1>1, OneMore
  <1>3. \A x : HowMany(mft.events, x) \in Nat
    BY <1>1, SpotsFinite
  <1>4. /\ Append(mft.events, e) \in Seq(Signals)
        /\ Len(Append(mft.events, e)) = Len(mft.events) + 1
        /\ \A i \in 1..Len(mft.events) : Append(mft.events, e)[i] = mft.events[i]
        /\ Append(mft.events, e)[Len(mft.events) + 1] = e
        /\ Len(mft.events) \in Nat
    BY <1>1, AppendProperties, LenProperties
  <1> QED  BY <1>2, <1>3, <1>4

(* The worker takes the first of them.                                        *)
LEMMA EventTaken ==
    ASSUME TransformInv, mft.events # <<>>, mft'.events = Tail(mft.events)
    PROVE  /\ mft'.events \in Seq(Signals) /\ Head(mft.events) \in Signals
           /\ Len(mft'.events) = Len(mft.events) - 1 /\ Len(mft.events) \in Nat
           /\ Len(mft.events) >= 1 /\ Head(mft.events) = mft.events[1]
           /\ \A i \in 1..(Len(mft.events) - 1) : mft'.events[i] = mft.events[i + 1]
           /\ \A x : HowMany(mft.events, x) =
                        HowMany(mft'.events, x) + (IF Head(mft.events) = x THEN 1 ELSE 0)
           /\ \A x : HowMany(mft'.events, x) \in Nat
  <1>1. mft.events \in Seq(Signals)
    BY DEF TransformInv, Machine
  <1>2. \A x : HowMany(mft.events, x) =
                 HowMany(Tail(mft.events), x) + (IF Head(mft.events) = x THEN 1 ELSE 0)
    BY <1>1, OneLess
  <1>3. /\ Tail(mft.events) \in Seq(Signals) /\ Head(mft.events) \in Signals
        /\ Len(Tail(mft.events)) = Len(mft.events) - 1
        /\ \A i \in 1..(Len(mft.events) - 1) : Tail(mft.events)[i] = mft.events[i + 1]
        /\ Head(mft.events) = mft.events[1]
        /\ Len(mft.events) \in Nat /\ Len(mft.events) >= 1
    BY <1>1, HeadTailProperties, EmptySeq, LenProperties
  <1>4. \A x : HowMany(Tail(mft.events), x) \in Nat
    BY <1>3, SpotsFinite
  <1> QED  BY <1>2, <1>3, <1>4

LEMMA LastEventTaken ==
    ASSUME TransformInv, mft.events # <<>>, mft'.events = Tail(mft.events),
           mft'.inside = mft.inside, mft'.open = mft.open
    PROVE  \A i \in 1..Len(mft'.events) : mft'.events[i] = "DrainComplete" =>
             i = Len(mft'.events) /\ mft'.inside = <<>> /\ ~ mft'.open
  <1> SUFFICES ASSUME NEW i \in 1..Len(mft'.events), mft'.events[i] = "DrainComplete"
               PROVE  i = Len(mft'.events) /\ mft'.inside = <<>> /\ ~ mft'.open
    OBVIOUS
  <1>1. /\ i + 1 \in 1..Len(mft.events) /\ mft'.events[i] = mft.events[i + 1]
        /\ Len(mft'.events) = Len(mft.events) - 1
    BY EventTaken
  <1>2. i + 1 = Len(mft.events) /\ mft.inside = <<>> /\ ~ mft.open
    BY <1>1 DEF TransformInv, Signalled
  <1> QED  BY <1>1, <1>2

LEMMA AskForInputInv ==
    ASSUME TransformInv, AskForInput
    PROVE  TransformInv'
  <1>1. /\ mft.open /\ call' = call /\ pending' = pending /\ ptsQueue' = ptsQueue
        /\ lastDts' = lastDts /\ offered' = offered /\ accepted' = accepted /\ packets' = packets
    BY DEF AskForInput
  <1>2. /\ DOMAIN mft' = DOMAIN mft /\ mft'.open = mft.open /\ mft'.asked = mft.asked + 1
        /\ mft'.inside = mft.inside /\ mft'.ready = mft.ready
        /\ mft'.events = Append(mft.events, "NeedInput")
    BY DEF AskForInput, Announce, TransformInv, Machine
  <1>3. "NeedInput" \in Signals
    BY DEF Signals
  <1>4. /\ mft'.events \in Seq(Signals)
        /\ HowMany(mft'.events, "HaveOutput") = HowMany(mft.events, "HaveOutput")
        /\ HowMany(mft'.events, "NeedInput") = HowMany(mft.events, "NeedInput") + 1
        /\ HowMany(mft.events, "HaveOutput") \in Nat /\ HowMany(mft.events, "NeedInput") \in Nat
    BY <1>2, <1>3, EventAdded
  <1>5. Machine'
    BY <1>1, <1>2, <1>4 DEF TransformInv, Machine
  <1>6. Lined' /\ Risen' /\ Paired'
    BY <1>1, <1>2, FramesKept
  <1>7. Dated'
    BY <1>1 DEF TransformInv, Dated, Coming
  <1>8. Signalled'
    <2>1. \A i \in 1..Len(mft'.events) : mft'.events[i] # "DrainComplete"
      <3>1. \A i \in 1..Len(mft.events) : mft.events[i] # "DrainComplete"
        BY <1>1 DEF TransformInv, Signalled
      <3> QED  BY <1>2, <1>3, <3>1, EventAdded
    <2>2. call.at = "wait" => mft'.asked <= HowMany(mft'.events, "NeedInput")
      BY <1>2, <1>4 DEF TransformInv, Signalled, Machine
    <2> QED  BY <1>1, <1>2, <1>4, <2>1, <2>2 DEF TransformInv, Signalled
  <1> QED  BY <1>5, <1>6, <1>7, <1>8 DEF TransformInv

LEMMA CompleteDrainInv ==
    ASSUME TransformInv, CompleteDrain
    PROVE  TransformInv'
  <1>1. /\ ~ mft.open /\ mft.inside = <<>> /\ call.at = "drain"
        /\ \A i \in 1..Len(mft.events) : mft.events[i] # "DrainComplete"
        /\ call' = call /\ pending' = pending /\ ptsQueue' = ptsQueue
        /\ lastDts' = lastDts /\ offered' = offered /\ accepted' = accepted /\ packets' = packets
    BY DEF CompleteDrain
  <1>2. /\ DOMAIN mft' = DOMAIN mft /\ mft'.open = mft.open /\ mft'.asked = mft.asked
        /\ mft'.inside = mft.inside /\ mft'.ready = mft.ready
        /\ mft'.events = Append(mft.events, "DrainComplete")
    BY DEF CompleteDrain, Announce, TransformInv, Machine
  <1>3. "DrainComplete" \in Signals
    BY DEF Signals
  <1>4. /\ mft'.events \in Seq(Signals)
        /\ HowMany(mft'.events, "HaveOutput") = HowMany(mft.events, "HaveOutput")
        /\ HowMany(mft.events, "HaveOutput") \in Nat
    BY <1>2, <1>3, EventAdded
  <1>5. Machine'
    BY <1>1, <1>2, <1>4 DEF TransformInv, Machine
  <1>6. Lined' /\ Risen' /\ Paired'
    BY <1>1, <1>2, FramesKept
  <1>7. Dated'
    BY <1>1 DEF TransformInv, Dated, Coming
  <1>8. Signalled'
    <2>1. \A i \in 1..Len(mft'.events) : mft'.events[i] = "DrainComplete" => i = Len(mft'.events)
      <3>1. /\ Len(mft'.events) = Len(mft.events) + 1 /\ Len(mft.events) \in Nat
            /\ \A i \in 1..Len(mft.events) : mft'.events[i] = mft.events[i]
        BY <1>2, <1>3, EventAdded
      <3>2. \A i \in 1..Len(mft'.events) : i \in 1..Len(mft.events) \/ i = Len(mft'.events)
        BY <3>1
      <3> QED  BY <1>1, <3>1, <3>2
    <2> QED  BY <1>1, <1>2, <1>4, <2>1 DEF TransformInv, Signalled, InEncode
  <1> QED  BY <1>5, <1>6, <1>7, <1>8 DEF TransformInv

(* A frame comes out of the transform: the next in line is ready.             *)
LEMMA FinishFrameInv ==
    ASSUME TransformInv, FinishFrame
    PROVE  TransformInv'
  <1> DEFINE P == Len(packets)
             R == Len(mft.ready)
             I == Len(mft.inside)
             A == Len(accepted)
             frame == Head(mft.inside)
  <1>1. /\ mft.inside # <<>> /\ call' = call /\ pending' = pending /\ ptsQueue' = ptsQueue
        /\ lastDts' = lastDts /\ offered' = offered /\ accepted' = accepted /\ packets' = packets
    BY DEF FinishFrame
  <1>2. /\ DOMAIN mft' = DOMAIN mft /\ mft'.open = mft.open /\ mft'.asked = mft.asked
        /\ mft'.inside = Tail(mft.inside) /\ mft'.ready = Append(mft.ready, frame)
        /\ mft'.events = Append(mft.events, "HaveOutput")
    BY DEF FinishFrame, Announce, TransformInv, Machine
  <1>3. "HaveOutput" \in Signals
    BY DEF Signals
  <1>4. /\ mft'.events \in Seq(Signals)
        /\ HowMany(mft'.events, "HaveOutput") = HowMany(mft.events, "HaveOutput") + 1
        /\ HowMany(mft'.events, "NeedInput") = HowMany(mft.events, "NeedInput")
        /\ HowMany(mft.events, "HaveOutput") \in Nat
    <2>1. \A x : HowMany(mft'.events, x) = HowMany(mft.events, x) + (IF "HaveOutput" = x THEN 1 ELSE 0)
      BY <1>2, <1>3, EventAdded
    <2>2. /\ mft'.events \in Seq(Signals) /\ \A x : HowMany(mft.events, x) \in Nat
      BY <1>2, <1>3, EventAdded
    <2> QED  BY <2>1, <2>2
  <1>5. /\ mft.inside \in Seq(Nat) /\ mft.ready \in Seq(Nat)
        /\ P \in Nat /\ R \in Nat /\ I \in Nat /\ A \in Nat
    BY LenProperties DEF TransformInv, Machine, Lined
  <1>6. /\ Tail(mft.inside) \in Seq(Nat) /\ frame \in Nat /\ frame = mft.inside[1] /\ I >= 1
        /\ Len(Tail(mft.inside)) = I - 1
        /\ \A i \in 1..(I - 1) : Tail(mft.inside)[i] = mft.inside[i + 1]
    BY <1>1, <1>5, HeadTailProperties, EmptySeq
  <1>7. /\ Append(mft.ready, frame) \in Seq(Nat) /\ Len(Append(mft.ready, frame)) = R + 1
        /\ \A i \in 1..R : Append(mft.ready, frame)[i] = mft.ready[i]
        /\ Append(mft.ready, frame)[R + 1] = frame
    BY <1>5, <1>6, AppendProperties
  <1>8. /\ (P + R) + I = A
        /\ \A i \in 1..R : mft.ready[i] = accepted[P + i]
        /\ \A i \in 1..I : mft.inside[i] = accepted[(P + R) + i]
    BY DEF TransformInv, Lined
  <1> HIDE DEF P, R, I, A, frame
  <1>9. Machine'
    BY <1>1, <1>2, <1>4, <1>6, <1>7 DEF TransformInv, Machine
  <1>10. /\ Len(mft'.ready) = R + 1 /\ Len(mft'.inside) = I - 1
         /\ (P + (R + 1)) + (I - 1) = A
    BY <1>2, <1>5, <1>6, <1>7, <1>8
  <1>11. \A i \in 1..(R + 1) : mft'.ready[i] = accepted[P + i]
    <2>1. frame = accepted[(P + R) + 1] /\ (P + R) + 1 = P + (R + 1)
      BY <1>5, <1>6, <1>8
    <2>2. \A i \in 1..(R + 1) : i \in 1..R \/ i = R + 1
      BY <1>5
    <2> QED  BY <1>2, <1>7, <1>8, <2>1, <2>2
  <1>12. \A i \in 1..(I - 1) : mft'.inside[i] = accepted[(P + (R + 1)) + i]
    <2> SUFFICES ASSUME NEW i \in 1..(I - 1)
                 PROVE  mft'.inside[i] = accepted[(P + (R + 1)) + i]
      OBVIOUS
    <2>1. i + 1 \in 1..I /\ (P + R) + (i + 1) = (P + (R + 1)) + i
      BY <1>5, <1>6
    <2>2. mft'.inside[i] = mft.inside[i + 1]
      BY <1>2, <1>6
    <2> QED  BY <1>8, <2>1, <2>2
  <1>13. Lined'
    BY <1>1, <1>10, <1>11, <1>12 DEF TransformInv, Lined, P, A
  <1>14. Risen' /\ Paired' /\ Dated'
    BY <1>1 DEF TransformInv, Risen, Paired, Dated, Coming
  <1>15. Signalled'
    <2>1. HowMany(mft'.events, "HaveOutput") + pending' = Len(mft'.ready)
      <3>1. HowMany(mft.events, "HaveOutput") + pending = R /\ pending \in Nat
        BY DEF TransformInv, Signalled, Machine, R
      <3> QED  BY SMTT(30), <1>1, <1>4, <1>5, <1>10, <3>1
    <2>2. \A i \in 1..Len(mft'.events) : mft'.events[i] # "DrainComplete"
      <3>1. \A i \in 1..Len(mft.events) : mft.events[i] # "DrainComplete"
        BY <1>1 DEF TransformInv, Signalled
      <3>2. \A i \in 1..Len(mft'.events) : i \in 1..Len(mft.events) \/ i = Len(mft.events) + 1
        BY <1>2, <1>3, EventAdded
      <3> QED  BY <1>2, <1>3, <3>1, <3>2, EventAdded
    <2>3. call.at # "drained"
      BY <1>1 DEF TransformInv, Signalled
    <2> QED  BY <1>1, <1>2, <1>4, <2>1, <2>2, <2>3 DEF TransformInv, Signalled
  <1> QED  BY <1>9, <1>13, <1>14, <1>15 DEF TransformInv

LEMMA CollectEventsInv ==
    ASSUME TransformInv, CollectEvents
    PROVE  TransformInv'
  <1>1. /\ call.at = "collect" /\ ptsQueue' = ptsQueue /\ lastDts' = lastDts
        /\ offered' = offered /\ accepted' = accepted /\ packets' = packets
    BY DEF CollectEvents
  <1>a. {"at", "again"} \subseteq DOMAIN call /\ {"open", "asked", "inside", "ready", "events"} \subseteq DOMAIN mft
    BY DEF TransformInv, Machine
  <1>b. offered # <<>>
    BY <1>1 DEF TransformInv, Dated
  <1>2. CASE /\ mft.events # <<>>
             /\ mft' = [mft EXCEPT !.events = Tail(@)]
             /\ pending' = IF Head(mft.events) = "HaveOutput" THEN pending + 1 ELSE pending
             /\ call' = call
    <2>1. /\ DOMAIN mft' = DOMAIN mft /\ mft'.open = mft.open /\ mft'.asked = mft.asked
          /\ mft'.inside = mft.inside /\ mft'.ready = mft.ready
          /\ mft'.events = Tail(mft.events)
      BY <1>2, <1>a
    <2>2. /\ mft'.events \in Seq(Signals)
          /\ HowMany(mft.events, "HaveOutput") = HowMany(mft'.events, "HaveOutput")
                 + (IF Head(mft.events) = "HaveOutput" THEN 1 ELSE 0)
          /\ HowMany(mft'.events, "HaveOutput") \in Nat
      BY <1>2, <2>1, EventTaken
    <2>3. pending \in Nat /\ pending' \in Nat
      BY <1>2 DEF TransformInv, Machine
    <2>4. Machine'
      BY <1>1, <1>2, <2>1, <2>2, <2>3 DEF TransformInv, Machine
    <2>5. Lined' /\ Risen' /\ Paired'
      BY <1>1, <2>1, FramesKept
    <2>6. Dated'
      BY <1>1, <1>2 DEF TransformInv, Dated, Coming
    <2>7. HowMany(mft'.events, "HaveOutput") + pending' = Len(mft'.ready)
      <3>1. HowMany(mft.events, "HaveOutput") + pending = Len(mft.ready)
        BY DEF TransformInv, Signalled
      <3> QED  BY <1>2, <2>1, <2>2, <2>3, <3>1
    <2>8. Signalled'
      <3>1. \A i \in 1..Len(mft'.events) : mft'.events[i] = "DrainComplete" =>
              i = Len(mft'.events) /\ mft'.inside = <<>> /\ ~ mft'.open
        BY <1>2, <2>1, LastEventTaken
      <3>2. mft'.open
        BY <1>1, <2>1 DEF TransformInv, Signalled, InEncode
      <3> QED  BY <1>1, <1>2, <2>7, <3>1, <3>2 DEF Signalled
    <2> QED  BY <2>4, <2>5, <2>6, <2>8 DEF TransformInv
  <1>3. CASE mft.events = <<>> /\ NowAt("fetch") /\ UNCHANGED <<mft, pending>>
    <2>1. DOMAIN call' = DOMAIN call /\ call'.at = "fetch"
      BY <1>3, <1>a DEF NowAt
    <2>2. Machine'
      BY <1>1, <1>3, <2>1 DEF TransformInv, Machine, InEncode
    <2>3. Lined' /\ Risen' /\ Paired'
      BY <1>1, <1>3, FramesKept
    <2>4. Dated'
      BY <1>1, <1>b, <2>1, TimesKept DEF Coming
    <2>5. Signalled'
      <3>1. mft.open
        BY <1>1 DEF TransformInv, Signalled, InEncode
      <3> QED  BY <1>3, <2>1, <3>1 DEF TransformInv, Signalled
    <2> QED  BY <2>2, <2>3, <2>4, <2>5 DEF TransformInv
  <1> QED  BY <1>2, <1>3 DEF CollectEvents

LEMMA FetchPendingInv ==
    ASSUME TransformInv, FetchPending
    PROVE  TransformInv'
  <1>1. call.at = "fetch" /\ offered' = offered /\ accepted' = accepted
    BY DEF FetchPending
  <1>a. {"at", "again"} \subseteq DOMAIN call /\ {"open", "asked", "inside", "ready", "events"} \subseteq DOMAIN mft
    BY DEF TransformInv, Machine
  <1>b. offered # <<>> /\ mft.open
    BY <1>1 DEF TransformInv, Dated, Signalled, InEncode
  <1>c. /\ mft.events \in Seq(Signals) /\ mft.ready \in Seq(Nat) /\ pending \in Nat
        /\ HowMany(mft.events, "HaveOutput") + pending = Len(mft.ready)
    BY DEF TransformInv, Machine, Signalled
  <1>d. HowMany(mft.events, "HaveOutput") \in Nat
    BY <1>c, SpotsFinite
  <1>2. CASE /\ pending > 0 /\ pending' = pending - 1
             /\ ProcessOutput /\ mft' = Shelved(mft) /\ call' = call
    <2>1. mft.ready # <<>>
      BY <1>2, <1>c, <1>d
    <2>2. /\ DOMAIN mft' = DOMAIN mft /\ mft'.open = mft.open /\ mft'.asked = mft.asked
          /\ mft'.inside = mft.inside /\ mft'.ready = Tail(mft.ready)
          /\ mft'.events = mft.events
      BY <1>2, <1>a, <2>1 DEF Shelved
    <2>3. /\ Lined' /\ Risen' /\ Dated' /\ Paired'
          /\ packets' \in Seq([frame : Nat, pts : Nat])
          /\ Len(mft'.ready) = Len(mft.ready) - 1 /\ mft'.ready \in Seq(Nat)
      BY <1>1, <1>2, <2>1, <2>2, OutputReturned
    <2>4. pending' \in Nat
      BY <1>2, <1>c
    <2>5. Machine'
      BY <1>2, <2>2, <2>3, <2>4 DEF TransformInv, Machine
    <2>6. HowMany(mft'.events, "HaveOutput") + pending' = Len(mft'.ready)
      <3> DEFINE H == HowMany(mft.events, "HaveOutput")
                 R == Len(mft.ready)
      <3>1. H + pending = R /\ H \in Nat /\ pending \in Nat
        BY <1>c, <1>d
      <3>2. HowMany(mft'.events, "HaveOutput") = H /\ Len(mft'.ready) = R - 1
        BY <2>2, <2>3
      <3> HIDE DEF H, R
      <3>3. H + (pending - 1) = R - 1
        BY <3>1
      <3> QED  BY <1>2, <3>2, <3>3
    <2>7. Signalled'
      BY <1>1, <1>2, <1>b, <2>2, <2>6 DEF TransformInv, Signalled
    <2> QED  BY <2>3, <2>5, <2>7 DEF TransformInv
  <1>3. CASE /\ pending = 0
             /\ IF call.again THEN call' = NoWork ELSE NowAt("sample")
             /\ UNCHANGED <<mft, pending, ptsQueue, lastDts, packets>>
    <2>1. {"at", "again"} \subseteq DOMAIN call' /\ call'.at \in {"idle", "sample"}
      BY <1>3, <1>a DEF NowAt, NoWork
    <2>2. Machine'
      BY <1>1, <1>3, <2>1 DEF TransformInv, Machine, InEncode
    <2>3. Lined' /\ Risen' /\ Paired'
      BY <1>1, <1>3, FramesKept
    <2>4. Dated'
      BY <1>1, <1>3, <1>b, <2>1, TimesKept DEF Coming
    <2>5. Signalled'
      BY <1>3, <1>b, <2>1 DEF TransformInv, Signalled
    <2> QED  BY <2>2, <2>3, <2>4, <2>5 DEF TransformInv
  <1> QED  BY <1>2, <1>3 DEF FetchPending

(* A frame is offered: it is not before any other.                            *)
LEMMA EncodeInv ==
    ASSUME TransformInv, NEW gap \in Intervals, Encode(Previous + gap)
    PROVE  TransformInv'
  <1> DEFINE O == Len(offered)
             pts == Previous + gap
  <1>1. /\ call.at = "idle" /\ mft' = mft /\ pending' = pending /\ ptsQueue' = ptsQueue
        /\ lastDts' = lastDts /\ accepted' = accepted /\ packets' = packets
        /\ offered' = Append(offered, pts) /\ call' = [at |-> "collect", again |-> FALSE]
    BY DEF Encode
  <1>2. call'.at = "collect" /\ {"at", "again"} \subseteq DOMAIN call'
    BY <1>1
  <1>3. /\ offered \in Seq(Nat) /\ O \in Nat /\ gap \in Nat
        /\ packets \in Seq([frame : Nat, pts : Nat]) /\ accepted \in Seq(Nat)
    BY TransformAssumption, LenProperties DEF TransformInv, Risen, Machine, Lined
  <1>4. pts \in Nat /\ \A i \in 1..O : offered[i] <= pts
    <2>1. CASE offered = <<>>
      <3>1. Previous = 0 /\ O = 0
        BY <2>1 DEF Previous
      <3> QED  BY <1>3, <3>1
    <2>2. CASE offered # <<>>
      <3>1. O \in 1..O
        BY <1>3, <2>2, EmptySeq
      <3>2. Previous = offered[O] /\ offered[O] \in Nat
        BY <1>3, <2>2, <3>1, ElementOfSeq DEF Previous
      <3>3. \A i \in 1..O : offered[i] <= offered[O] /\ offered[i] \in Nat
        BY <1>3, <3>1, ElementOfSeq DEF TransformInv, Risen
      <3> QED  BY <1>3, <3>2, <3>3
    <2> QED  BY <2>1, <2>2
  <1> HIDE DEF pts
  <1>5. /\ offered' \in Seq(Nat) /\ Len(offered') = O + 1 /\ offered'[O + 1] = pts
        /\ \A i \in 1..O : offered'[i] = offered[i]
    BY <1>1, <1>3, <1>4, AppendProperties
  <1> HIDE DEF O
  <1>6. \A i \in 1..Len(accepted) :
          accepted[i] \in 1..O /\ offered'[accepted[i]] = offered[accepted[i]]
    BY <1>5 DEF TransformInv, Risen, O
  <1>7. Machine'
    BY <1>1, <1>2 DEF TransformInv, Machine, InEncode
  <1>8. Lined'
    BY <1>1 DEF TransformInv, Lined
  <1>9. Risen'
    <2>1. \A i, j \in 1..(O + 1) : i <= j => offered'[i] <= offered'[j]
      <3>1. \A i \in 1..(O + 1) : i \in 1..O \/ i = O + 1
        BY <1>3
      <3>2. \A i, j \in 1..O : i <= j => offered[i] <= offered[j]
        BY DEF TransformInv, Risen, O
      <3>3. \A i \in 1..O : offered'[i] <= offered'[O + 1]
        BY <1>4, <1>5
      <3>4. ASSUME NEW i \in 1..(O + 1), NEW j \in 1..(O + 1), i <= j
            PROVE  offered'[i] <= offered'[j]
        <4>1. CASE j \in 1..O
          <5>1. i \in 1..O
            BY <1>3, <3>4, <4>1
          <5> QED  BY <1>5, <3>2, <3>4, <4>1, <5>1
        <4>2. CASE j = O + 1 /\ i \in 1..O
          BY <3>3, <4>2
        <4>3. CASE j = O + 1 /\ i = O + 1
          BY <1>4, <1>5, <4>3
        <4> QED  BY <3>1, <4>1, <4>2, <4>3
      <3> QED  BY <3>4
    <2>2. \A i \in 1..Len(accepted) : accepted[i] \in 1..(O + 1)
      BY <1>3, <1>6
    <2> QED  BY <1>1, <1>5, <2>1, <2>2 DEF TransformInv, Risen
  <1>10. Paired'
    <2>1. \A i \in 1..Len(packets) : i \in 1..Len(accepted)
      <3> DEFINE P == Len(packets)
                 R == Len(mft.ready)
                 I == Len(mft.inside)
                 A == Len(accepted)
      <3>1. P \in Nat /\ R \in Nat /\ I \in Nat /\ A \in Nat
        BY <1>3, LenProperties DEF TransformInv, Machine
      <3>2. (P + R) + I = A
        BY DEF TransformInv, Lined
      <3> HIDE DEF P, R, I, A
      <3>3. \A i \in 1..P : i \in 1..A
        BY <3>1, <3>2
      <3> QED  BY <3>3 DEF P, A
    <2>2. Len(packets) # 0 => Len(packets) \in 1..Len(packets)
      BY <1>3, LenProperties
    <2> QED  BY <1>1, <1>6, <2>1, <2>2 DEF TransformInv, Paired
  <1>11. Dated'
    <2>1. ASSUME NEW i \in 1..Len(ptsQueue), Len(packets) + i <= Len(accepted)
          PROVE  ptsQueue[i] = offered'[accepted[Len(packets) + i]]
      <3>1. Len(packets) + i \in 1..Len(accepted)
        BY <1>3, <2>1, LenProperties
      <3> QED  BY <1>6, <2>1, <3>1 DEF TransformInv, Dated
    <2>2. offered' # <<>>
      BY <1>3, <1>5, EmptySeq
    <2> QED  BY <1>1, <1>2, <2>1, <2>2 DEF TransformInv, Dated, Coming
  <1>12. Signalled'
    BY <1>1, <1>2 DEF TransformInv, Signalled, InEncode
  <1> QED  BY <1>7, <1>8, <1>9, <1>10, <1>11, <1>12 DEF TransformInv

(* The frame that is about to go in has its time in the queue.                *)
LEMMA MakeSampleInv ==
    ASSUME TransformInv, MakeSample
    PROVE  TransformInv'
  <1> DEFINE last == offered[Len(offered)]
             Q == Len(ptsQueue)
             P == Len(packets)
             A == Len(accepted)
  <1>1. /\ call.at = "sample" /\ mft' = mft /\ pending' = pending /\ lastDts' = lastDts
        /\ offered' = offered /\ accepted' = accepted /\ packets' = packets
    BY DEF MakeSample
  <1>a. {"at", "again"} \subseteq DOMAIN call /\ offered # <<>> /\ mft.open /\ pending = 0
    BY <1>1 DEF TransformInv, Machine, Dated, Signalled, InEncode
  <1>2. CASE NowAt("input") /\ ptsQueue' = Append(ptsQueue, last)
    <2>1. DOMAIN call' = DOMAIN call /\ call'.at = "input"
      BY <1>2, <1>a DEF NowAt
    <2>2. Machine'
      BY <1>1, <1>a, <2>1 DEF TransformInv, Machine, InEncode
    <2>3. Lined' /\ Risen' /\ Paired'
      BY <1>1, FramesKept
    <2>4. ptsQueue \in Seq(Nat) /\ offered \in Seq(Nat) /\ Q \in Nat /\ P \in Nat /\ A \in Nat
      BY LenProperties DEF TransformInv, Dated, Risen, Machine, Lined
    <2>5. last \in Nat
      <3>1. Len(offered) \in 1..Len(offered)
        BY <1>a, <2>4, EmptySeq, LenProperties
      <3> QED  BY <2>4, <3>1, ElementOfSeq
    <2>6. /\ ptsQueue' \in Seq(Nat) /\ Len(ptsQueue') = Q + 1 /\ ptsQueue'[Q + 1] = last
          /\ \A i \in 1..Q : ptsQueue'[i] = ptsQueue[i]
      BY <1>2, <2>4, <2>5, AppendProperties
    <2>7. Q + P = A
      BY <1>1, <2>4 DEF TransformInv, Dated, Coming
    <2> HIDE DEF last, Q, P, A
    <2>8. Dated'
      <3>1. (Q + 1) + P >= A /\ (Q + 1) + P = A + 1
        BY <2>4, <2>7
      <3>2. ASSUME NEW i \in 1..(Q + 1), P + i <= A
            PROVE  ptsQueue'[i] = offered[accepted[P + i]]
        <4>1. i \in 1..Q
          BY <2>4, <2>7, <3>2
        <4>2. ptsQueue[i] = offered[accepted[P + i]]
          BY <3>2, <4>1 DEF TransformInv, Dated, P, Q, A
        <4> QED  BY <2>6, <4>1, <4>2
      <3> QED  BY <1>1, <1>a, <2>1, <2>6, <3>1, <3>2 DEF Dated, Coming, last, P, A
    <2>9. Signalled'
      BY <1>1, <1>a, <2>1 DEF TransformInv, Signalled
    <2> QED  BY <2>2, <2>3, <2>8, <2>9 DEF TransformInv
  <1>3. CASE call' = NoWork /\ UNCHANGED ptsQueue
    <2>1. {"at", "again"} \subseteq DOMAIN call' /\ call'.at = "idle"
      BY <1>3 DEF NoWork
    <2>2. Machine'
      BY <1>1, <2>1 DEF TransformInv, Machine, InEncode
    <2>3. Lined' /\ Risen' /\ Paired'
      BY <1>1, FramesKept
    <2>4. Dated'
      BY <1>1, <1>3, <2>1, TimesKept DEF Coming
    <2>5. Signalled'
      BY <1>1, <1>a, <2>1 DEF TransformInv, Signalled
    <2> QED  BY <2>2, <2>3, <2>4, <2>5 DEF TransformInv
  <1> QED  BY <1>2, <1>3 DEF MakeSample

(* A step of a call that moves neither frames nor times.                      *)
LEMMA CallMoves ==
    ASSUME TransformInv, UNCHANGED <<ptsQueue, lastDts, offered, accepted, packets, pending>>,
           mft'.inside = mft.inside, mft'.ready = mft.ready,
           DOMAIN mft' = DOMAIN mft, mft'.asked \in Nat, mft'.events \in Seq(Signals),
           DOMAIN call' = DOMAIN call, call'.at \in InEncode \cup {"drain", "drained", "failed"},
           call'.at = "failed" \/ (call.at # "failed" /\ Coming' = Coming),
           call'.at \in {"input", "wait"} => call.at \in {"input", "wait"},
           call'.at \notin {"collect", "fetch", "sample"}
    PROVE  Machine' /\ Lined' /\ Risen' /\ Dated' /\ Paired'
  <1>1. Lined' /\ Risen' /\ Paired'
    BY FramesKept
  <1>2. Dated'
    BY TimesKept
  <1>3. Machine'
    BY DEF TransformInv, Machine
  <1> QED  BY <1>1, <1>2, <1>3

LEMMA ProcessInputInv ==
    ASSUME TransformInv, ProcessInput
    PROVE  TransformInv'
  <1>1. /\ call.at = "input" /\ pending' = pending /\ ptsQueue' = ptsQueue
        /\ lastDts' = lastDts /\ offered' = offered /\ packets' = packets
    BY DEF ProcessInput
  <1>a. /\ {"at", "again"} \subseteq DOMAIN call /\ offered # <<>> /\ mft.open /\ pending = 0
        /\ {"open", "asked", "inside", "ready", "events"} \subseteq DOMAIN mft
        /\ mft.asked \in Nat /\ mft.events \in Seq(Signals)
    BY <1>1 DEF TransformInv, Machine, Dated, Signalled, InEncode
  <1>2. CASE mft.asked = 0 /\ NowAt("wait") /\ UNCHANGED <<mft, accepted>>
    <2>1. DOMAIN call' = DOMAIN call /\ call'.at = "wait"
      BY <1>2, <1>a DEF NowAt
    <2>2. Machine' /\ Lined' /\ Risen' /\ Dated' /\ Paired'
      BY <1>1, <1>2, <1>a, <2>1, CallMoves DEF Coming, InEncode
    <2>3. Signalled'
      <3>1. mft.asked <= HowMany(mft.events, "NeedInput")
        BY <1>2, <1>a, SpotsFinite
      <3> QED  BY <1>1, <1>2, <1>a, <2>1, <3>1 DEF TransformInv, Signalled
    <2> QED  BY <2>2, <2>3 DEF TransformInv
  <1>3. CASE /\ mft.asked # 0
             /\ mft' = [mft EXCEPT !.asked = @ - 1, !.inside = Append(@, Len(offered))]
             /\ accepted' = Append(accepted, Len(offered))
             /\ call' = [at |-> "collect", again |-> TRUE]
    <2> DEFINE O == Len(offered)
               P == Len(packets)
               R == Len(mft.ready)
               I == Len(mft.inside)
               A == Len(accepted)
               Q == Len(ptsQueue)
    <2>1. /\ DOMAIN mft' = DOMAIN mft /\ mft'.open = mft.open /\ mft'.asked = mft.asked - 1
          /\ mft'.inside = Append(mft.inside, O) /\ mft'.ready = mft.ready
          /\ mft'.events = mft.events
      BY <1>3, <1>a
    <2>2. call'.at = "collect" /\ {"at", "again"} \subseteq DOMAIN call'
      BY <1>3
    <2>3. /\ offered \in Seq(Nat) /\ accepted \in Seq(Nat) /\ mft.inside \in Seq(Nat)
          /\ O \in Nat /\ P \in Nat /\ R \in Nat /\ I \in Nat /\ A \in Nat /\ Q \in Nat
      BY LenProperties DEF TransformInv, Machine, Lined, Risen, Dated
    <2>4. O \in 1..O
      BY <1>a, <2>3, EmptySeq
    <2>5. /\ mft'.inside \in Seq(Nat) /\ Len(mft'.inside) = I + 1 /\ mft'.inside[I + 1] = O
          /\ \A i \in 1..I : mft'.inside[i] = mft.inside[i]
      BY <2>1, <2>3, AppendProperties
    <2>6. /\ accepted' \in Seq(Nat) /\ Len(accepted') = A + 1 /\ accepted'[A + 1] = O
          /\ \A i \in 1..A : accepted'[i] = accepted[i]
      BY <1>3, <2>3, AppendProperties
    <2>7. (P + R) + I = A /\ Q + P = A + 1 /\ ptsQueue[Q] = offered[O]
      BY <1>1 DEF TransformInv, Lined, Dated, Coming
    <2> HIDE DEF O, P, R, I, A, Q
    <2>8. Machine'
      <3>1. mft'.asked \in Nat
        BY <1>3, <1>a, <2>1
      <3> QED  BY <1>1, <2>1, <2>2, <2>5, <3>1 DEF TransformInv, Machine, InEncode
    <2>9. Lined'
      <3>1. (P + R) + (I + 1) = A + 1
        BY <2>3, <2>7
      <3>2. ASSUME NEW i \in 1..R  PROVE mft.ready[i] = accepted'[P + i]
        <4>1. P + i \in 1..A
          BY <2>3, <2>7
        <4>2. mft.ready[i] = accepted[P + i]
          BY DEF TransformInv, Lined, P, R
        <4> QED  BY <2>6, <4>1, <4>2
      <3>3. ASSUME NEW i \in 1..(I + 1)  PROVE mft'.inside[i] = accepted'[(P + R) + i]
        <4>1. CASE i \in 1..I
          <5>1. (P + R) + i \in 1..A
            <6>1. P \in Nat /\ R \in Nat /\ I \in Nat /\ A \in Nat
              BY <2>3
            <6>2. (P + R) + I = A
              BY <2>7
            <6> QED  BY <4>1, <6>1, <6>2
          <5>2. mft.inside[i] = accepted[(P + R) + i]
            BY <4>1 DEF TransformInv, Lined, P, R, I
          <5> QED  BY <2>5, <2>6, <4>1, <5>1, <5>2
        <4>2. CASE i = I + 1
          <5>1. (P + R) + i = A + 1
            BY <3>1, <4>2
          <5> QED  BY <2>5, <2>6, <4>2, <5>1
        <4>3. i \in 1..I \/ i = I + 1
          BY <2>3, <3>3
        <4> QED  BY <4>1, <4>2, <4>3
      <3> QED  BY <1>1, <2>1, <2>5, <2>6, <3>1, <3>2, <3>3 DEF Lined, P, R
    <2>10. \A i \in 1..A : accepted[i] \in 1..O /\ accepted[i] <= O
      BY <2>3 DEF TransformInv, Risen, O, A
    <2>11. Risen'
      <3>1. \A i \in 1..(A + 1) : i \in 1..A \/ i = A + 1
        BY <2>3
      <3>2. \A i \in 1..(A + 1) : accepted'[i] \in 1..O
        BY <2>4, <2>6, <2>10, <3>1
      <3>3. ASSUME NEW i \in 1..(A + 1), NEW j \in 1..(A + 1), i <= j
            PROVE  accepted'[i] <= accepted'[j]
        <4>1. CASE j \in 1..A
          <5>1. i \in 1..A
            BY <2>3, <3>3, <4>1
          <5>2. accepted[i] <= accepted[j]
            BY <3>3, <4>1, <5>1 DEF TransformInv, Risen, A
          <5> QED  BY <2>6, <4>1, <5>1, <5>2
        <4>2. CASE j = A + 1 /\ i \in 1..A
          BY <2>6, <2>10, <4>2
        <4>3. CASE j = A + 1 /\ i = A + 1
          BY <2>3, <2>6, <4>3
        <4> QED  BY <3>1, <4>1, <4>2, <4>3
      <3> QED  BY <1>1, <2>6, <3>2, <3>3 DEF TransformInv, Risen, O
    <2>12. Dated'
      <3>1. ASSUME NEW i \in 1..Q, P + i <= A + 1
            PROVE  ptsQueue[i] = offered[accepted'[P + i]]
        <4>1. CASE P + i <= A
          <5>1. P + i \in 1..A
            BY <2>3, <4>1
          <5>2. ptsQueue[i] = offered[accepted[P + i]]
            BY <4>1 DEF TransformInv, Dated, P, Q, A
          <5> QED  BY <2>6, <5>1, <5>2
        <4>2. CASE P + i = A + 1
          <5>0. P + i = Q + P /\ i \in Nat /\ P \in Nat /\ Q \in Nat
            BY <2>3, <2>7, <4>2
          <5>1. i = Q
            BY <5>0
          <5> QED  BY <2>6, <2>7, <4>2, <5>1
        <4> QED  BY <2>3, <3>1, <4>1, <4>2
      <3>2. Q + P >= A + 1 /\ Q + P = (A + 1) + 0
        BY <2>3, <2>7
      <3>3. ptsQueue \in Seq(Nat)
        BY DEF TransformInv, Dated
      <3> QED  BY <1>1, <1>a, <2>2, <2>6, <3>1, <3>2, <3>3 DEF Dated, Coming, P, Q
    <2>13. Paired'
      <3>1. \A i \in 1..P : i \in 1..A
        BY <2>3, <2>7
      <3>2. P # 0 => P \in 1..P
        BY <2>3
      <3>3. \A i \in 1..P : packets[i] = [frame |-> accepted'[i], pts |-> offered[accepted'[i]]]
        BY <2>6, <3>1 DEF TransformInv, Paired, P
      <3>4. lastDts = IF P = 0 THEN -1 ELSE offered[accepted'[P]]
        BY <2>6, <3>1, <3>2 DEF TransformInv, Paired, P
      <3> QED  BY <1>1, <3>3, <3>4 DEF Paired, P
    <2>14. Signalled'
      <3>1. \A i \in 1..Len(mft.events) : mft.events[i] # "DrainComplete"
        BY <1>a DEF TransformInv, Signalled
      <3> QED  BY <1>1, <1>a, <2>1, <2>2, <3>1 DEF TransformInv, Signalled
    <2> QED  BY <2>8, <2>9, <2>11, <2>12, <2>13, <2>14 DEF TransformInv
  <1> QED  BY <1>2, <1>3 DEF ProcessInput

(* The worker waits for an event: a frame is wanted, or an output comes first. *)
LEMMA WaitForInputInv ==
    ASSUME TransformInv, WaitForInput
    PROVE  TransformInv'
  <1> DEFINE taken == [mft EXCEPT !.events = Tail(@)]
  <1>1. /\ call.at = "wait" /\ mft.events # <<>> /\ pending' = pending
        /\ offered' = offered /\ accepted' = accepted
    BY DEF WaitForInput
  <1>a. /\ {"at", "again"} \subseteq DOMAIN call /\ offered # <<>> /\ mft.open /\ pending = 0
        /\ {"open", "asked", "inside", "ready", "events"} \subseteq DOMAIN mft
        /\ mft.asked \in Nat /\ mft.events \in Seq(Signals)
        /\ HowMany(mft.events, "HaveOutput") = Len(mft.ready)
        /\ mft.ready \in Seq(Nat)
    BY <1>1, SpotsFinite DEF TransformInv, Machine, Dated, Signalled, InEncode
  <1>b. /\ DOMAIN taken = DOMAIN mft /\ taken.open = mft.open /\ taken.asked = mft.asked
        /\ taken.inside = mft.inside /\ taken.ready = mft.ready
        /\ taken.events = Tail(mft.events)
    BY <1>a
  <1> HIDE DEF taken
  <1>2. CASE /\ Head(mft.events) = "NeedInput" /\ NowAt("input") /\ mft' = taken
             /\ UNCHANGED <<ptsQueue, lastDts, packets>>
    <2>1. DOMAIN call' = DOMAIN call /\ call'.at = "input"
      BY <1>2, <1>a DEF NowAt
    <2>2. /\ mft'.events \in Seq(Signals)
          /\ HowMany(mft.events, "HaveOutput") = HowMany(mft'.events, "HaveOutput")
      <3>1. /\ mft'.events \in Seq(Signals)
            /\ \A x : HowMany(mft.events, x) =
                        HowMany(mft'.events, x) + (IF Head(mft.events) = x THEN 1 ELSE 0)
            /\ \A x : HowMany(mft'.events, x) \in Nat
        BY <1>1, <1>2, <1>b, EventTaken
      <3> QED  BY <1>2, <3>1
    <2>3. Machine' /\ Lined' /\ Risen' /\ Dated' /\ Paired'
      BY <1>1, <1>2, <1>a, <1>b, <2>1, <2>2, CallMoves DEF Coming, InEncode
    <2>4. Signalled'
      <3>1. \A i \in 1..Len(mft'.events) : mft'.events[i] = "DrainComplete" =>
              i = Len(mft'.events) /\ mft'.inside = <<>> /\ ~ mft'.open
        BY <1>1, <1>2, <1>b, LastEventTaken
      <3>2. HowMany(mft'.events, "HaveOutput") + pending' = Len(mft'.ready)
        <4>1. HowMany(mft.events, "HaveOutput") \in Nat
          BY <1>a, SpotsFinite
        <4> QED  BY <1>1, <1>2, <1>a, <1>b, <2>2, <4>1
      <3> QED  BY <1>1, <1>2, <1>a, <1>b, <2>1, <3>1, <3>2 DEF Signalled
    <2> QED  BY <2>3, <2>4 DEF TransformInv
  <1>3. CASE /\ Head(mft.events) # "NeedInput" /\ ProcessOutput /\ mft' = Shelved(taken)
             /\ call' = call
    <2>1. Head(mft.events) = "HaveOutput"
      <3>1. Head(mft.events) = mft.events[1] /\ 1 \in 1..Len(mft.events)
            /\ Head(mft.events) \in Signals
        BY <1>a, <1>1, HeadTailProperties, EmptySeq, LenProperties
      <3>2. mft.events[1] # "DrainComplete"
        BY <1>a, <3>1 DEF TransformInv, Signalled
      <3> QED  BY <1>3, <3>1, <3>2 DEF Signals
    <2>2. mft.ready # <<>>
      <3>1. HowMany(mft.events, "HaveOutput") = HowMany(Tail(mft.events), "HaveOutput") + 1
        BY <1>a, <1>1, <2>1, OneLess
      <3>2. HowMany(Tail(mft.events), "HaveOutput") \in Nat
        BY <1>a, <1>1, HeadTailProperties, SpotsFinite
      <3> QED  BY <1>a, <3>1, <3>2
    <2>3. /\ DOMAIN mft' = DOMAIN mft /\ mft'.open = mft.open /\ mft'.asked = mft.asked
          /\ mft'.inside = mft.inside /\ mft'.ready = Tail(mft.ready)
          /\ mft'.events = Tail(mft.events)
      BY <1>3, <1>a, <1>b, <2>2 DEF Shelved
    <2>4. /\ Lined' /\ Risen' /\ Dated' /\ Paired'
          /\ packets' \in Seq([frame : Nat, pts : Nat])
          /\ Len(mft'.ready) = Len(mft.ready) - 1 /\ mft'.ready \in Seq(Nat)
      BY <1>1, <1>3, <2>2, <2>3, OutputReturned
    <2>5. /\ mft'.events \in Seq(Signals)
          /\ \A x : HowMany(mft.events, x) =
                      HowMany(mft'.events, x) + (IF Head(mft.events) = x THEN 1 ELSE 0)
          /\ \A x : HowMany(mft'.events, x) \in Nat
      BY <1>1, <2>3, EventTaken
    <2>6. Machine'
      BY <1>1, <1>3, <2>3, <2>4, <2>5 DEF TransformInv, Machine
    <2>7. Signalled'
      <3>1. \A i \in 1..Len(mft'.events) : mft'.events[i] = "DrainComplete" =>
              i = Len(mft'.events) /\ mft'.inside = <<>> /\ ~ mft'.open
        BY <1>1, <2>3, LastEventTaken
      <3>2. HowMany(mft'.events, "HaveOutput") + pending' = Len(mft'.ready)
        <4>1. /\ HowMany(mft.events, "HaveOutput") = HowMany(mft'.events, "HaveOutput") + 1
              /\ HowMany(mft'.events, "HaveOutput") \in Nat
          BY <2>1, <2>5
        <4>2. HowMany(mft'.events, "HaveOutput") = HowMany(mft.events, "HaveOutput") - 1
          BY <4>1
        <4>3. HowMany(mft'.events, "HaveOutput") = Len(mft'.ready)
          BY <1>a, <2>4, <4>2
        <4> QED  BY <1>1, <1>a, <4>1, <4>3
      <3>3. mft'.asked <= HowMany(mft'.events, "NeedInput")
        <4>1. HowMany(mft.events, "NeedInput") = HowMany(mft'.events, "NeedInput")
          BY <2>1, <2>5
        <4>2. mft.asked <= HowMany(mft.events, "NeedInput")
          BY <1>1 DEF TransformInv, Signalled
        <4> QED  BY <2>3, <4>1, <4>2
      <3> QED  BY <1>1, <1>3, <1>a, <2>3, <3>1, <3>2, <3>3 DEF Signalled
    <2> QED  BY <2>4, <2>6, <2>7 DEF TransformInv
  <1> QED  BY <1>2, <1>3 DEF WaitForInput, taken

LEMMA DrainBeginInv ==
    ASSUME TransformInv, DrainBegin
    PROVE  TransformInv'
  <1>1. /\ call.at = "idle" /\ mft.open /\ pending' = pending /\ ptsQueue' = ptsQueue
        /\ lastDts' = lastDts /\ offered' = offered /\ accepted' = accepted /\ packets' = packets
    BY DEF DrainBegin
  <1>2. /\ DOMAIN mft' = DOMAIN mft /\ mft'.open = FALSE /\ mft'.asked = 0
        /\ mft'.inside = mft.inside /\ mft'.ready = mft.ready /\ mft'.events = mft.events
        /\ DOMAIN call' = DOMAIN call /\ call'.at = "drain" /\ mft.events \in Seq(Signals)
    BY DEF DrainBegin, NowAt, TransformInv, Machine
  <1>3. Machine' /\ Lined' /\ Risen' /\ Dated' /\ Paired'
    BY <1>1, <1>2, CallMoves DEF Coming
  <1>4. Signalled'
    <2>1. \A i \in 1..Len(mft.events) : mft.events[i] # "DrainComplete"
      BY <1>1 DEF TransformInv, Signalled
    <2> QED  BY <1>1, <1>2, <2>1 DEF TransformInv, Signalled, InEncode
  <1> QED  BY <1>3, <1>4 DEF TransformInv

LEMMA TransformFailsInv ==
    ASSUME TransformInv, TransformFails
    PROVE  TransformInv'
  <1>1. /\ mft' = mft /\ pending' = pending /\ ptsQueue' = ptsQueue /\ lastDts' = lastDts
        /\ offered' = offered /\ accepted' = accepted /\ packets' = packets
    BY DEF TransformFails
  <1>2. /\ DOMAIN call' = DOMAIN call /\ call'.at = "failed"
        /\ mft.asked \in Nat /\ mft.events \in Seq(Signals)
    BY DEF TransformFails, NowAt, TransformInv, Machine
  <1>3. Machine' /\ Lined' /\ Risen' /\ Dated' /\ Paired'
    BY <1>1, <1>2, CallMoves
  <1>4. Signalled'
    BY <1>1, <1>2 DEF TransformInv, Signalled, InEncode
  <1> QED  BY <1>3, <1>4 DEF TransformInv

(* The drain takes what comes, and ends with nothing left inside.             *)
LEMMA DrainStepInv ==
    ASSUME TransformInv, DrainStep
    PROVE  TransformInv'
  <1> DEFINE taken == [mft EXCEPT !.events = Tail(@)]
  <1>1. /\ call.at = "drain" /\ mft.events # <<>> /\ pending' = pending
        /\ offered' = offered /\ accepted' = accepted
    BY DEF DrainStep
  <1>a. /\ {"at", "again"} \subseteq DOMAIN call /\ pending = 0
        /\ {"open", "asked", "inside", "ready", "events"} \subseteq DOMAIN mft
        /\ mft.asked \in Nat /\ mft.events \in Seq(Signals)
        /\ HowMany(mft.events, "HaveOutput") = Len(mft.ready)
        /\ mft.ready \in Seq(Nat)
    BY <1>1, SpotsFinite DEF TransformInv, Machine, Signalled
  <1>b. /\ DOMAIN taken = DOMAIN mft /\ taken.open = mft.open /\ taken.asked = mft.asked
        /\ taken.inside = mft.inside /\ taken.ready = mft.ready
        /\ taken.events = Tail(mft.events)
    BY <1>a
  <1>c. CASE /\ Head(mft.events) = "HaveOutput" /\ ProcessOutput /\ mft' = Shelved(taken)
             /\ call' = call
    <2>2. mft.ready # <<>>
      <3>1. HowMany(mft.events, "HaveOutput") = HowMany(Tail(mft.events), "HaveOutput") + 1
        BY <1>a, <1>1, <1>c, OneLess
      <3>2. HowMany(Tail(mft.events), "HaveOutput") \in Nat
        BY <1>a, <1>1, HeadTailProperties, SpotsFinite
      <3> QED  BY <1>a, <3>1, <3>2
    <2>3. /\ DOMAIN mft' = DOMAIN mft /\ mft'.open = mft.open /\ mft'.asked = mft.asked
          /\ mft'.inside = mft.inside /\ mft'.ready = Tail(mft.ready)
          /\ mft'.events = Tail(mft.events)
      BY <1>a, <1>b, <1>c, <2>2 DEF Shelved
    <2>4. /\ Lined' /\ Risen' /\ Dated' /\ Paired'
          /\ packets' \in Seq([frame : Nat, pts : Nat])
          /\ Len(mft'.ready) = Len(mft.ready) - 1 /\ mft'.ready \in Seq(Nat)
      BY <1>1, <1>c, <2>2, <2>3, OutputReturned
    <2>5. /\ mft'.events \in Seq(Signals)
          /\ \A x : HowMany(mft.events, x) =
                      HowMany(mft'.events, x) + (IF Head(mft.events) = x THEN 1 ELSE 0)
          /\ \A x : HowMany(mft'.events, x) \in Nat
      BY <1>1, <2>3, EventTaken
    <2>6. Machine'
      BY <1>1, <1>c, <2>3, <2>4, <2>5 DEF TransformInv, Machine
    <2>7. Signalled'
      <3>1. \A i \in 1..Len(mft'.events) : mft'.events[i] = "DrainComplete" =>
              i = Len(mft'.events) /\ mft'.inside = <<>> /\ ~ mft'.open
        BY <1>1, <2>3, LastEventTaken
      <3>2. HowMany(mft'.events, "HaveOutput") + pending' = Len(mft'.ready)
        <4>1. /\ HowMany(mft.events, "HaveOutput") = HowMany(mft'.events, "HaveOutput") + 1
              /\ HowMany(mft'.events, "HaveOutput") \in Nat
          BY <1>c, <2>5
        <4>2. HowMany(mft'.events, "HaveOutput") = HowMany(mft.events, "HaveOutput") - 1
          BY <4>1
        <4>3. HowMany(mft'.events, "HaveOutput") = Len(mft'.ready)
          BY <1>a, <2>4, <4>2
        <4> QED  BY <1>1, <1>a, <4>1, <4>3
      <3> QED  BY <1>1, <1>a, <1>c, <2>3, <3>1, <3>2 DEF Signalled, InEncode
    <2> QED  BY <2>4, <2>6, <2>7 DEF TransformInv
  <1>d. ASSUME Head(mft.events) # "HaveOutput", mft' = taken,
               UNCHANGED <<ptsQueue, lastDts, packets>>, DOMAIN call' = DOMAIN call,
               call'.at = "drain" \/ (call'.at = "drained" /\ mft.inside = <<>> /\ mft.ready = <<>>)
        PROVE  TransformInv'
    <2>1. /\ mft'.events \in Seq(Signals)
          /\ \A x : HowMany(mft.events, x) =
                      HowMany(mft'.events, x) + (IF Head(mft.events) = x THEN 1 ELSE 0)
          /\ \A x : HowMany(mft'.events, x) \in Nat
      BY <1>1, <1>b, <1>d, EventTaken
    <2>2. HowMany(mft.events, "HaveOutput") = HowMany(mft'.events, "HaveOutput")
      BY <1>d, <2>1
    <2>3. Machine' /\ Lined' /\ Risen' /\ Dated' /\ Paired'
      BY <1>1, <1>a, <1>b, <1>d, <2>1, CallMoves DEF Coming
    <2>4. Signalled'
      <3>1. \A i \in 1..Len(mft'.events) : mft'.events[i] = "DrainComplete" =>
              i = Len(mft'.events) /\ mft'.inside = <<>> /\ ~ mft'.open
        BY <1>1, <1>b, <1>d, LastEventTaken
      <3>2. HowMany(mft'.events, "HaveOutput") + pending' = Len(mft'.ready)
        <4>1. HowMany(mft'.events, "HaveOutput") \in Nat
          BY <2>1
        <4> QED  BY <1>1, <1>a, <1>b, <1>d, <2>2, <4>1
      <3> QED  BY <1>1, <1>a, <1>b, <1>d, <3>1, <3>2 DEF Signalled, InEncode
    <2> QED  BY <2>3, <2>4 DEF TransformInv
  <1>e. Head(mft.events) = mft.events[1] /\ 1 \in 1..Len(mft.events)
        /\ Head(mft.events) \in Signals /\ Len(mft.events) \in Nat
    BY <1>a, <1>1, HeadTailProperties, EmptySeq, LenProperties
  <1>f. CASE /\ Head(mft.events) = "NeedInput" /\ mft' = taken
             /\ UNCHANGED <<ptsQueue, lastDts, packets, call>>
    BY <1>1, <1>d, <1>f
  <1>g. CASE /\ Head(mft.events) \notin {"HaveOutput", "NeedInput"} /\ mft' = taken
             /\ NowAt("drained") /\ UNCHANGED <<ptsQueue, lastDts, packets>>
    <2>1. mft.events[1] = "DrainComplete"
      BY <1>e, <1>g DEF Signals
    <2>2. Len(mft.events) = 1 /\ mft.inside = <<>>
      BY <1>e, <2>1 DEF TransformInv, Signalled
    <2>3. Spots(mft.events, "HaveOutput") = {}
      BY <2>1, <2>2 DEF Spots
    <2>4. Len(mft.ready) = 0
      BY <1>a, <2>3, FS_EmptySet DEF HowMany
    <2>5. mft.ready = <<>>
      BY <1>a, <2>4, EmptySeq
    <2>6. DOMAIN call' = DOMAIN call /\ call'.at = "drained"
      BY <1>a, <1>g DEF NowAt
    <2> QED  BY <1>d, <1>g, <2>2, <2>5, <2>6
  <1>h. \/ /\ Head(mft.events) = "HaveOutput" /\ ProcessOutput /\ mft' = Shelved(taken)
           /\ call' = call
        \/ /\ Head(mft.events) = "NeedInput" /\ mft' = taken
           /\ UNCHANGED <<ptsQueue, lastDts, packets, call>>
        \/ /\ Head(mft.events) \notin {"HaveOutput", "NeedInput"} /\ mft' = taken
           /\ NowAt("drained") /\ UNCHANGED <<ptsQueue, lastDts, packets>>
    BY DEF DrainStep
  <1> QED  BY <1>c, <1>f, <1>g, <1>h

LEMMA TransformNextInv == TransformInv /\ [TransformNext]_transformVars => TransformInv'
  <1> SUFFICES ASSUME TransformInv, [TransformNext]_transformVars  PROVE TransformInv'
    OBVIOUS
  <1>1. CASE AskForInput \/ FinishFrame \/ CompleteDrain
    BY <1>1, AskForInputInv, FinishFrameInv, CompleteDrainInv
  <1>2. CASE CollectEvents \/ FetchPending \/ MakeSample \/ ProcessInput \/ WaitForInput
    BY <1>2, CollectEventsInv, FetchPendingInv, MakeSampleInv, ProcessInputInv, WaitForInputInv
  <1>3. CASE DrainBegin \/ DrainStep \/ TransformFails
    BY <1>3, DrainBeginInv, DrainStepInv, TransformFailsInv
  <1>4. CASE \E gap \in Intervals : Encode(Previous + gap)
    BY <1>4, EncodeInv
  <1>5. CASE UNCHANGED transformVars
    <2>1. /\ mft' = mft /\ call' = call /\ pending' = pending /\ ptsQueue' = ptsQueue
          /\ lastDts' = lastDts /\ offered' = offered /\ accepted' = accepted
          /\ packets' = packets
      BY <1>5 DEF transformVars
    <2>2. Machine' /\ Signalled'
      BY <2>1 DEF TransformInv, Machine, Signalled
    <2>3. Lined' /\ Risen' /\ Paired' /\ Dated'
      BY <2>1 DEF TransformInv, Lined, Risen, Paired, Dated, Coming
    <2> QED  BY <2>2, <2>3 DEF TransformInv
  <1> QED  BY <1>1, <1>2, <1>3, <1>4, <1>5 DEF TransformNext

(* However far ahead the transform asks, however many outputs it keeps and    *)
(* whichever frames are left out, a packet has the time of its own frame, a   *)
(* drain that ends has brought out every frame, and the worker waits only     *)
(* while the transform owes it an event.                                      *)
THEOREM TransformAlwaysSound == TransformSpec => []TransformSound
  <1>1. TransformSpec => []TransformInv
    BY TransformInitInv, TransformNextInv, PTL DEF TransformSpec
  <1> QED  BY <1>1, TransformInvSound, PTL

-----------------------------------------------------------------------------
(* The overlay                                                            *)

(* One NativeHud, whatever it is doing. What it is made of.                    *)
Shaped(h) ==
    /\ {"at", "answer", "healthy", "cancelled", "queue", "messages", "posting", "given", "drawn",
        "shown", "attached", "visible", "pill", "hold", "exit", "leaving", "stray"} = DOMAIN h
    /\ h.at \in {"init", "created", "answer", "loop", "drain", "ending", "gone"}
    /\ h.queue \in Seq(Nat) /\ h.messages \in Seq({"close", "command"})
    /\ h.posting \in Nat /\ h.given \in Nat /\ h.drawn \in Nat

(* The pill with its timers, the window and the tree, between two steps.       *)
Tidy(h) ==
    \/ /\ h.pill = "none" /\ h.visible = FALSE /\ h.hold = FALSE /\ h.exit = FALSE
       /\ h.shown = ShownIdle /\ h.attached = AttachedIdle
    \/ /\ h.pill = "up" /\ h.visible = TRUE /\ h.hold = TRUE /\ h.exit = FALSE
       /\ h.shown = TRUE /\ h.attached = TRUE
    \/ /\ h.pill = "fading" /\ h.visible = TRUE /\ h.hold = FALSE /\ h.exit = TRUE
       /\ h.shown = TRUE /\ h.attached = TRUE
Tidied(h) ==
    /\ h.at \in {"created", "answer", "loop", "drain"} => Tidy(h)
    /\ h.at \in {"init", "gone"} => h.pill = "none"
    /\ h.at = "init" => h.visible = FALSE /\ h.hold = FALSE /\ h.exit = FALSE

(* Until it has answered nobody knows of it.                                   *)
Unknown(h) ==
    /\ h.at \in {"init", "created", "answer"} =>
        /\ h.queue = <<>> /\ h.posting = 0 /\ h.drawn = h.given
        /\ h.leaving = "no" /\ h.answer = "none"
    /\ h.at \in {"loop", "drain", "ending"} => h.answer = "ok"

(* The cue accepted last is drawn or the last in the queue, and a queue with   *)
(* something in it has a message on its way.                                   *)
Bidden(h) == \E k \in 1..Len(h.messages) : h.messages[k] = "close"
Cued(h) ==
    h.at \in {"loop", "drain"} =>
        /\ h.leaving = "join" => Bidden(h)
        /\ h.leaving # "join" =>
            /\ h.queue = <<>> => h.drawn = h.given
            /\ h.queue # <<>> => h.queue[Len(h.queue)] = h.given
        /\ h.at = "loop" /\ h.messages = <<>> /\ h.posting = 0 => h.queue = <<>>

HudOk(h) == Shaped(h) /\ Tidied(h) /\ Unknown(h) /\ Cued(h)

(* Nobody has to stop it any more.                                             *)
SettledHud(h) ==
    \/ h.at = "gone" \/ h.stray = TRUE \/ h.leaving # "no"
    \/ h.cancelled = TRUE /\ h.at \in {"init", "created"}

(* The change under way, and the one in use.                                   *)
Lineage == \E S : huds \in Seq(S)
InUse(i) == huds[i].leaving = "no" /\ huds[i].answer = "ok"
Swapping ==
    /\ policy \in Policies /\ cues \in Nat
    /\ runtime.hud \in 0..Len(huds)
    /\ runtime.hud # 0 => runtime.settings.enabled = TRUE /\ InUse(runtime.hud)
    /\ "at" \in DOMAIN swap /\ (swap.at # "idle" => "asked" \in DOMAIN swap)
    /\ swap.at \in {"idle", "look", "build", "swap"}
    /\ swap.at = "build" =>
        /\ Len(huds) # 0 /\ runtime.hud # Len(huds) /\ huds[Len(huds)].leaving = "no"
        /\ swap.asked.enabled = TRUE
    /\ swap.at = "swap" => swap.new = 0 \/ swap.new = Len(huds)
    /\ swap.at = "swap" /\ swap.new # 0 =>
        runtime.hud # Len(huds) /\ InUse(swap.new) /\ swap.asked.enabled = TRUE
    /\ \A i \in 1..Len(huds) :
        \/ i = runtime.hud \/ SettledHud(huds[i])
        \/ swap.at = "build" /\ i = Len(huds)
        \/ swap.at = "swap" /\ i = swap.new

HudInv == Lineage /\ Swapping /\ \A i \in 1..Len(huds) : HudOk(huds[i])

(* One of them changes and the rest stay.                                      *)
LEMMA OneChanges ==
    ASSUME NEW S, huds \in Seq(S), NEW i \in 1..Len(huds), NEW g, huds' = [huds EXCEPT ![i] = g]
    PROVE  /\ huds' \in Seq(S \cup {g}) /\ Len(huds') = Len(huds) /\ huds'[i] = g
           /\ \A j \in 1..Len(huds) : j # i => huds'[j] = huds[j]
  <1>1. Len(huds) \in Nat /\ DOMAIN huds = 1..Len(huds) /\ \A j \in 1..Len(huds) : huds[j] \in S
    BY LenProperties, ElementOfSeq
  <1>2. DOMAIN huds' = 1..Len(huds) /\ huds'[i] = g
        /\ \A j \in 1..Len(huds) : j # i => huds'[j] = huds[j]
    BY <1>1
  <1>3. huds' \in [1..Len(huds) -> S \cup {g}]
    BY <1>1
  <1>4. huds' \in Seq(S \cup {g}) /\ Len(huds') = Len(huds)
    BY <1>1, <1>3, IsASeq, LenProperties
  <1> QED  BY <1>2, <1>4

(* A step of one of them keeps the invariant when it keeps its own part, tells *)
(* nobody that it is in use when it is leaving, and does not come back.        *)
LEMMA OneMoves ==
    ASSUME HudInv, NEW i \in 1..Len(huds), NEW g, HudOk(g), huds' = [huds EXCEPT ![i] = g],
           huds[i].leaving = "no" => g.leaving = "no",
           huds[i].answer = "ok" => g.answer = "ok",
           SettledHud(huds[i]) => SettledHud(g),
           policy' = policy, runtime' = runtime, swap' = swap, cues' \in Nat
    PROVE  HudInv'
  <1>1. PICK S : huds \in Seq(S)
    BY DEF HudInv, Lineage
  <1>2. /\ huds' \in Seq(S \cup {g}) /\ Len(huds') = Len(huds) /\ huds'[i] = g
        /\ \A j \in 1..Len(huds) : j # i => huds'[j] = huds[j]
    BY <1>1, OneChanges
  <1>3. Lineage'
    BY <1>2 DEF Lineage
  <1>4. \A j \in 1..Len(huds') : HudOk(huds[j])
    BY <1>2 DEF HudInv
  <1>5. ASSUME NEW j \in 1..Len(huds')  PROVE  HudOk(huds[j])'
    <2>1. HudOk(huds'[j])
      BY <1>2, <1>4
    <2> QED  BY SMTT(30), <2>1 DEF HudOk, Shaped, Tidied, Tidy, ShownIdle, AttachedIdle, Unknown, Cued, Bidden
  <1>6. Swapping'
    <2>1. \A j \in 1..Len(huds) : InUse(j) => InUse(j)'
      BY <1>2 DEF InUse
    <2>2. \A j \in 1..Len(huds) : SettledHud(huds[j]) => SettledHud(huds'[j])
      BY <1>2
    <2>3. \A j \in 1..Len(huds) : huds[j].leaving = "no" => huds'[j].leaving = "no"
      BY <1>2
    <2>4. Len(huds) \in Nat
      BY <1>1, LenProperties
    <2>5. \A j \in 1..Len(huds') : SettledHud(huds'[j]) <=> SettledHud(huds[j])'
      BY DEF SettledHud
    <2>6. runtime.hud \in 0..Len(huds) /\ (runtime.hud # 0 => InUse(runtime.hud)')
      BY <2>1, <2>4 DEF HudInv, Swapping
    <2>7. swap.at = "build" => huds'[Len(huds)].leaving = "no"
      BY <2>3, <2>4 DEF HudInv, Swapping
    <2>8. swap.at = "swap" /\ swap.new # 0 => InUse(swap.new)'
      BY SMTT(30), <2>1, <2>4 DEF HudInv, Swapping
    <2>9. ASSUME NEW j \in 1..Len(huds)
          PROVE  \/ j = runtime.hud \/ SettledHud(huds[j])'
                 \/ swap.at = "build" /\ j = Len(huds)
                 \/ swap.at = "swap" /\ j = swap.new
      BY ZenonT(60), <1>2, <2>2, <2>5 DEF HudInv, Swapping
    <2>a. /\ policy' \in Policies /\ "at" \in DOMAIN swap'
          /\ swap'.at # "idle" => "asked" \in DOMAIN swap'
          /\ swap'.at \in {"idle", "look", "build", "swap"}
          /\ runtime'.hud # 0 => runtime'.settings.enabled = TRUE
          /\ swap'.at = "build" =>
                Len(huds') # 0 /\ runtime'.hud # Len(huds') /\ swap'.asked.enabled = TRUE
          /\ swap'.at = "swap" => swap'.new = 0 \/ swap'.new = Len(huds')
          /\ swap'.at = "swap" /\ swap'.new # 0 =>
                runtime'.hud # Len(huds') /\ swap'.asked.enabled = TRUE
      BY <1>2 DEF HudInv, Swapping
    <2>b. Len(huds') = Len(huds) /\ runtime' = runtime /\ swap' = swap /\ cues' \in Nat
      BY <1>2
    <2> QED  BY <2>6, <2>7, <2>8, <2>9, <2>a, <2>b DEF Swapping
  <1> QED  BY <1>3, <1>5, <1>6 DEF HudInv

(* What the invariant says of it all.                                          *)
LEMMA HudInvSound == HudInv => HudSound
  <1> SUFFICES ASSUME HudInv  PROVE  HudSound
    OBVIOUS
  <1>1. ASSUME NEW i \in 1..Len(huds)  PROVE  PillsEnd(huds[i])
    <2>1. Tidied(huds[i])
      BY DEF HudInv, HudOk
    <2>2. CASE huds[i].at = "loop"
      <3>1. Tidy(huds[i])
        BY <2>1, <2>2 DEF Tidied
      <3>2. /\ huds[i].visible = (huds[i].pill # "none")
            /\ huds[i].hold = (huds[i].pill = "up") /\ huds[i].exit = (huds[i].pill = "fading")
        BY <3>1 DEF Tidy
      <3>3. huds[i].shown = (huds[i].visible \/ ShownIdle)
        <4>1. \/ huds[i].visible = TRUE /\ huds[i].shown = TRUE
              \/ huds[i].visible = FALSE /\ huds[i].shown = ShownIdle
          BY <3>1 DEF Tidy
        <4>2. ShownIdle = TRUE \/ ShownIdle = FALSE
          BY DEF ShownIdle
        <4>3. CASE huds[i].visible = TRUE /\ huds[i].shown = TRUE
          BY <4>3
        <4>4. CASE huds[i].visible = FALSE /\ huds[i].shown = ShownIdle
          BY <4>2, <4>4
        <4> QED  BY <4>1, <4>3, <4>4
      <3>4. huds[i].attached = (huds[i].visible \/ AttachedIdle)
        <4>1. \/ huds[i].visible = TRUE /\ huds[i].attached = TRUE
              \/ huds[i].visible = FALSE /\ huds[i].attached = AttachedIdle
          BY <3>1 DEF Tidy
        <4>2. AttachedIdle = TRUE \/ AttachedIdle = FALSE
          BY DEF AttachedIdle
        <4>3. CASE huds[i].visible = TRUE /\ huds[i].attached = TRUE
          BY <4>3
        <4>4. CASE huds[i].visible = FALSE /\ huds[i].attached = AttachedIdle
          BY <4>2, <4>4
        <4> QED  BY <4>1, <4>3, <4>4
      <3> QED  BY <2>2, <3>2, <3>3, <3>4 DEF PillsEnd
    <2>3. CASE huds[i].at # "loop"
      BY <2>1, <2>3 DEF Tidied, PillsEnd
    <2> QED  BY <2>2, <2>3
  <1>2. ASSUME NEW i \in 1..Len(huds)  PROVE  CuesDrawn(huds[i])
    BY DEF HudInv, HudOk, Cued, CuesDrawn, Bidden, Shaped
  <1>3. OneHud
    BY DEF HudInv, Swapping, OneHud, InUse, SettledHud, Quiet
  <1> QED  BY <1>1, <1>2, <1>3 DEF HudSound

(* How a compositor that is sent back to idle is left.                         *)
Aside == {"answer", "healthy", "cancelled", "queue", "messages", "posting", "given", "drawn",
          "leaving", "stray"}
LEMMA RecoveredFields ==
    ASSUME NEW h, Shaped(h), NEW committed
    PROVE  /\ Shaped(Recovered(h, committed)) /\ Recovered(h, committed).at = h.at
           /\ \A f \in Aside : Recovered(h, committed)[f] = h[f]
           /\ Recovered(h, committed).hold = FALSE /\ Recovered(h, committed).exit = FALSE
           /\ Recovered(h, committed).visible = FALSE
           /\ committed = TRUE => Recovered(h, committed).pill = "none"
           /\ Recovered(h, committed).attached = (h.attached /\ policy # "DetachedShown")
           /\ Recovered(h, committed).shown = (h.shown /\ policy # "AttachedHidden")
  <1> DEFINE g == Recovered(h, committed)
  <1>1. DOMAIN g = DOMAIN h
    BY DEF Recovered
  <1>2. g.at = h.at /\ \A f \in Aside : g[f] = h[f]
    BY DEF Recovered, Shaped, Aside
  <1>3. g.hold = FALSE /\ g.exit = FALSE /\ g.visible = FALSE /\ (committed = TRUE => g.pill = "none")
    BY DEF Recovered, Shaped
  <1>4. g.attached = (h.attached /\ policy # "DetachedShown")
    BY DEF Recovered, Shaped
  <1>5. g.shown = (h.shown /\ policy # "AttachedHidden")
    BY DEF Recovered, Shaped
  <1>6. g.queue = h.queue /\ g.messages = h.messages /\ g.posting = h.posting /\ g.given = h.given
        /\ g.drawn = h.drawn
    BY <1>2 DEF Aside
  <1>7. Shaped(g)
    BY <1>1, <1>2, <1>6 DEF Shaped
  <1> HIDE DEF g
  <1> QED  BY <1>2, <1>3, <1>4, <1>5, <1>7 DEF g

LEMMA RecoveredTidy ==
    ASSUME NEW h, Shaped(h), Tidy(h), policy \in Policies
    PROVE  Tidy(Recovered(h, TRUE))
  <1> DEFINE g == Recovered(h, TRUE)
  <1>1. /\ g.hold = FALSE /\ g.exit = FALSE /\ g.visible = FALSE /\ g.pill = "none"
        /\ g.attached = (h.attached /\ policy # "DetachedShown")
        /\ g.shown = (h.shown /\ policy # "AttachedHidden")
    BY RecoveredFields
  <1>2. policy \in {"AttachedShown", "DetachedShown", "AttachedHidden"}
    BY HudAssumption
  <1>3. \/ h.shown = TRUE /\ h.attached = TRUE
        \/ h.shown = ShownIdle /\ h.attached = AttachedIdle
    BY DEF Tidy
  <1>4. ShownIdle = (policy # "AttachedHidden") /\ AttachedIdle = (policy # "DetachedShown")
    BY <1>2 DEF ShownIdle, AttachedIdle
  <1>5. g.shown = ShownIdle
    <2>1. CASE h.shown = TRUE
      BY <1>1, <1>4, <2>1
    <2>2. CASE h.shown = ShownIdle
      BY <1>1, <1>4, <2>2
    <2> QED  BY <1>3, <2>1, <2>2
  <1>6. g.attached = AttachedIdle
    <2>1. CASE h.attached = TRUE
      BY <1>1, <1>4, <2>1
    <2>2. CASE h.attached = AttachedIdle
      BY <1>1, <1>4, <2>2
    <2> QED  BY <1>3, <2>1, <2>2
  <1> HIDE DEF g
  <1>7. Tidy(g)
    BY <1>1, <1>5, <1>6 DEF Tidy
  <1> QED  BY <1>7 DEF g

(* A thread that has looked goes on, or fails and ends.                        *)
Pumping(h) == h.at \in {"loop", "drain"}
GoesOn(i, g) ==
    /\ Shaped(g) /\ g.answer = "ok"
    /\ g.leaving = huds[i].leaving /\ g.stray = huds[i].stray
LEMMA KeepsRunning ==
    ASSUME HudInv, NEW i \in 1..Len(huds), Pumping(huds[i]), NEW g, Becomes(i, g), GoesOn(i, g),
           (Pumping(g) /\ Tidy(g) /\ Cued(g)) \/ g.at = "ending"
    PROVE  HudInv'
  <1>1. HudOk(g)
    BY DEF HudOk, GoesOn, Pumping, Tidied, Unknown, Cued
  <1>2. SettledHud(huds[i]) => SettledHud(g)
    BY DEF SettledHud, Pumping, GoesOn
  <1>3. cues \in Nat
    BY DEF HudInv, Swapping
  <1> QED  BY <1>1, <1>2, <1>3, OneMoves DEF Becomes, GoesOn

LEMMA FailsAndEnds ==
    ASSUME HudInv, NEW i \in 1..Len(huds), Pumping(huds[i]), NEW h, GoesOn(i, h), CommitFails(i, h)
    PROVE  HudInv'
  <1>1. PICK committed \in BOOLEAN : Becomes(i, [Recovered(h, committed) EXCEPT !.at = "ending"])
    BY DEF CommitFails
  <1> DEFINE r == Recovered(h, committed)
             g == [r EXCEPT !.at = "ending"]
  <1>2. Shaped(r) /\ r.answer = h.answer /\ r.leaving = h.leaving /\ r.stray = h.stray
    BY ZenonT(60), RecoveredFields DEF GoesOn, Aside
  <1> HIDE DEF r
  <1>3. Shaped(g) /\ g.at = "ending" /\ g.answer = h.answer /\ g.leaving = h.leaving /\ g.stray = h.stray
    BY <1>2 DEF Shaped
  <1>4. Becomes(i, g)
    BY <1>1 DEF r
  <1> HIDE DEF g
  <1> QED  BY <1>3, <1>4, KeepsRunning DEF GoesOn

LEMMA TimerOrNot ==
    ASSUME HudInv, NEW i \in 1..Len(huds), Pumping(huds[i]), NEW h, GoesOn(i, h),
           Pumping(h), Tidy(h), Cued(h), Timed(i, h)
    PROVE  HudInv'
  <1>1. CASE Becomes(i, h)
    BY <1>1, KeepsRunning
  <1>2. CASE Becomes(i, Recovered(h, TRUE))
    <2> DEFINE r == Recovered(h, TRUE)
    <2>1. Shaped(r) /\ r.at = h.at /\ \A f \in Aside : r[f] = h[f]
      BY RecoveredFields DEF GoesOn
    <2>2. Tidy(r)
      BY RecoveredTidy DEF GoesOn, HudInv, Swapping
    <2>3. Becomes(i, r)
      BY <1>2
    <2> HIDE DEF r
    <2>4. /\ r.answer = h.answer /\ r.leaving = h.leaving /\ r.stray = h.stray /\ r.queue = h.queue
          /\ r.messages = h.messages /\ r.posting = h.posting /\ r.given = h.given /\ r.drawn = h.drawn
      BY <2>1 DEF Aside
    <2>5. Pumping(r) /\ Cued(r)
      BY <2>1, <2>4 DEF Pumping, Cued, Bidden
    <2> QED  BY <2>1, <2>2, <2>3, <2>4, <2>5, KeepsRunning DEF GoesOn
  <1>3. CASE CommitFails(i, h)
    BY <1>3, FailsAndEnds
  <1> QED  BY <1>1, <1>2, <1>3 DEF Timed

(* The steps of the thread.                                                   *)
LEMMA GoneOk ==
    ASSUME NEW h, Shaped(h)
    PROVE  /\ HudOk(NoWindow(h)) /\ NoWindow(h).at = "gone" /\ NoWindow(h).leaving = h.leaving
           /\ NoWindow(h).answer = h.answer
  <1> DEFINE g == NoWindow(h)
  <1>1. /\ DOMAIN g = DOMAIN h /\ g.at = "gone" /\ g.pill = "none" /\ g.queue = <<>>
        /\ g.messages = <<>> /\ g.posting = h.posting /\ g.given = h.given /\ g.drawn = h.drawn
        /\ g.leaving = h.leaving /\ g.answer = h.answer
    BY DEF NoWindow, Shaped
  <1>2. <<>> \in Seq(Nat) /\ <<>> \in Seq({"close", "command"})
    BY EmptySeq
  <1> HIDE DEF g
  <1>3. HudOk(g)
    BY <1>1, <1>2 DEF HudOk, Shaped, Tidied, Unknown, Cued
  <1> QED  BY <1>1, <1>3 DEF g

LEMMA CreateWindowKeeps ==
    ASSUME HudInv, NEW i \in 1..Len(huds), CreateWindow(i)  PROVE HudInv'
  <1> DEFINE h == huds[i]
  <1>1. HudOk(h) /\ h.at = "init" /\ cues \in Nat
    BY DEF HudInv, Swapping, CreateWindow
  <1>2. CASE Becomes(i, [h EXCEPT !.at = "created", !.shown = ShownIdle, !.attached = AttachedIdle])
    <2> DEFINE g == [h EXCEPT !.at = "created", !.shown = ShownIdle, !.attached = AttachedIdle]
    <2> HIDE DEF h
    <2>1. /\ DOMAIN g = DOMAIN h /\ g.at = "created" /\ g.shown = ShownIdle /\ g.attached = AttachedIdle
          /\ g.queue = h.queue /\ g.messages = h.messages /\ g.posting = h.posting
          /\ g.given = h.given /\ g.drawn = h.drawn /\ g.leaving = h.leaving /\ g.answer = h.answer
          /\ g.pill = h.pill /\ g.visible = h.visible /\ g.hold = h.hold /\ g.exit = h.exit
          /\ g.stray = h.stray /\ g.cancelled = h.cancelled
      BY <1>1 DEF HudOk, Shaped
    <2>2. Becomes(i, g)
      BY <1>2
    <2> HIDE DEF g
    <2>3. HudOk(g)
      <3>1. Shaped(g)
        BY <1>1, <2>1 DEF HudOk, Shaped
      <3>2. Tidy(g)
        BY <1>1, <2>1 DEF HudOk, Tidied, Tidy
      <3>3. Unknown(g)
        BY <1>1, <2>1 DEF HudOk, Unknown
      <3> QED  BY <2>1, <3>1, <3>2, <3>3 DEF HudOk, Tidied, Cued
    <2>4. SettledHud(h) => SettledHud(g)
      BY <1>1, <2>1 DEF SettledHud
    <2> QED  BY <1>1, <2>1, <2>2, <2>3, <2>4, OneMoves DEF Becomes, h
  <1>3. CASE Becomes(i, [NoWindow(h) EXCEPT !.answer = "error"])
    <2> DEFINE r == NoWindow(h)
               g == [r EXCEPT !.answer = "error"]
    <2> HIDE DEF h
    <2>1. HudOk(r) /\ r.at = "gone" /\ r.leaving = h.leaving
      BY <1>1, GoneOk DEF HudOk
    <2>2. Becomes(i, g)
      BY <1>3
    <2> HIDE DEF r
    <2>3. /\ DOMAIN g = DOMAIN r /\ g.at = "gone" /\ g.pill = r.pill /\ g.queue = r.queue
          /\ g.messages = r.messages /\ g.posting = r.posting /\ g.given = r.given
          /\ g.drawn = r.drawn /\ g.leaving = h.leaving
      BY <2>1 DEF HudOk, Shaped
    <2> HIDE DEF g
    <2>4. HudOk(g)
      BY <2>1, <2>3 DEF HudOk, Shaped, Tidied, Unknown, Cued
    <2>5. h.answer # "ok"
      BY <1>1 DEF HudOk, Unknown
    <2>6. SettledHud(g)
      BY <2>3 DEF SettledHud
    <2> QED  BY <1>1, <2>2, <2>3, <2>4, <2>5, <2>6, OneMoves DEF Becomes, h
  <1> QED  BY <1>2, <1>3 DEF CreateWindow

LEMMA LeavesNothing ==
    ASSUME HudInv, NEW i \in 1..Len(huds), Becomes(i, NoWindow(huds[i]))  PROVE HudInv'
  <1>1. HudOk(huds[i]) /\ cues \in Nat
    BY DEF HudInv, Swapping
  <1> DEFINE g == NoWindow(huds[i])
  <1>2. HudOk(g) /\ g.at = "gone" /\ g.leaving = huds[i].leaving /\ g.answer = huds[i].answer
    BY <1>1, GoneOk DEF HudOk
  <1>3. Becomes(i, g)
    OBVIOUS
  <1> HIDE DEF g
  <1>4. SettledHud(g)
    BY <1>2 DEF SettledHud
  <1> QED  BY <1>1, <1>2, <1>3, <1>4, OneMoves DEF Becomes

LEMMA LookCancelledKeeps ==
    ASSUME HudInv, NEW i \in 1..Len(huds), LookCancelled(i)  PROVE HudInv'
  <1> DEFINE h == huds[i]
             g == [h EXCEPT !.at = "answer"]
  <1>1. HudOk(h) /\ h.at = "created" /\ cues \in Nat
    BY DEF HudInv, Swapping, LookCancelled
  <1>2. CASE h.cancelled
    BY <1>2, LeavesNothing DEF LookCancelled
  <1>3. CASE ~ h.cancelled
    <2>1. Becomes(i, g)
      BY <1>3 DEF LookCancelled
    <2> HIDE DEF h
    <2>2. /\ DOMAIN g = DOMAIN h /\ g.at = "answer" /\ g.shown = h.shown /\ g.attached = h.attached
          /\ g.queue = h.queue /\ g.messages = h.messages /\ g.posting = h.posting
          /\ g.given = h.given /\ g.drawn = h.drawn /\ g.leaving = h.leaving /\ g.answer = h.answer
          /\ g.pill = h.pill /\ g.visible = h.visible /\ g.hold = h.hold /\ g.exit = h.exit
          /\ g.stray = h.stray
      BY <1>1 DEF HudOk, Shaped
    <2> HIDE DEF g
    <2>3. HudOk(g)
      <3>1. Shaped(g)
        BY <1>1, <2>2 DEF HudOk, Shaped
      <3>2. Tidy(g)
        BY <1>1, <2>2 DEF HudOk, Tidied, Tidy
      <3>3. Unknown(g)
        BY <1>1, <2>2 DEF HudOk, Unknown
      <3> QED  BY <2>2, <3>1, <3>2, <3>3 DEF HudOk, Tidied, Cued
    <2>4. SettledHud(h) => SettledHud(g)
      BY <1>1, <1>3, <2>2 DEF SettledHud
    <2> QED  BY <1>1, <2>1, <2>2, <2>3, <2>4, OneMoves DEF Becomes, h
  <1> QED  BY <1>2, <1>3

LEMMA AnswerKeeps ==
    ASSUME HudInv, NEW i \in 1..Len(huds), Answer(i)  PROVE HudInv'
  <1> DEFINE h == huds[i]
             g == [h EXCEPT !.at = "loop", !.answer = "ok"]
  <1>1. HudOk(h) /\ h.at = "answer" /\ cues \in Nat /\ Becomes(i, g)
    BY DEF HudInv, Swapping, Answer
  <1> HIDE DEF h
  <1>2. /\ DOMAIN g = DOMAIN h /\ g.at = "loop" /\ g.shown = h.shown /\ g.attached = h.attached
        /\ g.queue = h.queue /\ g.messages = h.messages /\ g.posting = h.posting
        /\ g.given = h.given /\ g.drawn = h.drawn /\ g.leaving = h.leaving /\ g.answer = "ok"
        /\ g.pill = h.pill /\ g.visible = h.visible /\ g.hold = h.hold /\ g.exit = h.exit
        /\ g.stray = h.stray
    BY <1>1 DEF HudOk, Shaped
  <1> HIDE DEF g
  <1>3. HudOk(g)
    <2>1. Shaped(g)
      BY <1>1, <1>2 DEF HudOk, Shaped
    <2>2. Tidy(g)
      BY <1>1, <1>2 DEF HudOk, Tidied, Tidy
    <2>3. g.queue = <<>> /\ g.leaving = "no" /\ g.drawn = g.given
      BY <1>1, <1>2 DEF HudOk, Unknown
    <2> QED  BY <1>2, <2>1, <2>2, <2>3 DEF HudOk, Tidied, Unknown, Cued
  <1>4. SettledHud(h) => SettledHud(g)
    BY <1>1, <1>2 DEF SettledHud
  <1> QED  BY <1>1, <1>2, <1>3, <1>4, OneMoves DEF Becomes, h

(* What a running thread has to say of itself.                                 *)
LEMMA RunningHas ==
    ASSUME HudInv, NEW i \in 1..Len(huds), Pumping(huds[i])
    PROVE  Shaped(huds[i]) /\ Tidy(huds[i]) /\ Cued(huds[i]) /\ huds[i].answer = "ok"
  BY DEF HudInv, HudOk, Pumping, Tidied, Unknown

LEMMA ReceiveKeeps ==
    ASSUME HudInv, NEW i \in 1..Len(huds), Receive(i)  PROVE HudInv'
  <1> DEFINE h == huds[i]
             at == IF Head(h.messages) = "close" THEN "ending" ELSE "drain"
             g == [h EXCEPT !.messages = Tail(@), !.at = at]
  <1>1. Shaped(h) /\ Tidy(h) /\ Cued(h) /\ h.answer = "ok" /\ Pumping(h) /\ h.at = "loop"
    BY RunningHas DEF Receive, Pumping
  <1>2. Becomes(i, g) /\ h.messages # <<>>
    BY DEF Receive
  <1> HIDE DEF h
  <1>3. /\ DOMAIN g = DOMAIN h /\ g.at = at /\ g.shown = h.shown /\ g.attached = h.attached
        /\ g.queue = h.queue /\ g.messages = Tail(h.messages) /\ g.posting = h.posting
        /\ g.given = h.given /\ g.drawn = h.drawn /\ g.leaving = h.leaving /\ g.answer = h.answer
        /\ g.pill = h.pill /\ g.visible = h.visible /\ g.hold = h.hold /\ g.exit = h.exit
        /\ g.stray = h.stray
    BY <1>1 DEF Shaped
  <1> HIDE DEF g
  <1>4. /\ h.messages \in Seq({"close", "command"})
        /\ Tail(h.messages) \in Seq({"close", "command"})
        /\ Len(Tail(h.messages)) = Len(h.messages) - 1 /\ Head(h.messages) = h.messages[1]
        /\ \A k \in 1..Len(h.messages) - 1 : Tail(h.messages)[k] = h.messages[k + 1]
        /\ Len(h.messages) \in Nat
    BY <1>1, <1>2, HeadTailProperties, LenProperties DEF Shaped
  <1>5. GoesOn(i, g)
    BY <1>1, <1>3, <1>4 DEF GoesOn, Shaped, h
  <1>6. g.at # "ending" => Pumping(g) /\ Tidy(g) /\ Cued(g)
    <2>1. Tidy(g)
      BY <1>1, <1>3 DEF Tidy
    <2>2. Bidden(h) /\ Head(h.messages) # "close" => Bidden(g)
      <3>1. ASSUME NEW k \in 1..Len(h.messages), h.messages[k] = "close", Head(h.messages) # "close"
            PROVE  k - 1 \in 1..Len(g.messages) /\ g.messages[k - 1] = "close"
        <4>1. k # 1
          BY <1>4, <3>1
        <4>2. k - 1 \in 1..Len(h.messages) - 1 /\ (k - 1) + 1 = k
          BY <1>4, <4>1
        <4> QED  BY <1>3, <1>4, <3>1, <4>2
      <3> QED  BY <3>1 DEF Bidden
    <2> QED  BY <1>1, <1>3, <2>1, <2>2 DEF Pumping, Cued
  <1> QED  BY <1>1, <1>2, <1>5, <1>6, KeepsRunning DEF h

LEMMA ShowKeeps ==
    ASSUME HudInv, NEW i \in 1..Len(huds), huds[i].at = "drain", huds[i].queue # <<>>,
           Show(i, Head(huds[i].queue))
    PROVE  HudInv'
  <1> DEFINE o == huds[i]
             cue == Head(o.queue)
             h == [Woken(o) EXCEPT !.queue = Tail(@)]
             up == [h EXCEPT !.drawn = cue, !.attached = TRUE, !.visible = TRUE, !.pill = "up"]
             g == [up EXCEPT !.hold = TRUE]
             Q == o.queue
  <1>1. Shaped(o) /\ Tidy(o) /\ Cued(o) /\ o.answer = "ok" /\ Pumping(o) /\ o.at = "drain"
    BY RunningHas DEF Pumping
  <1>2. \/ Timed(i, g)
        \/ \E stage \in {h, [h EXCEPT !.attached = TRUE]} : CommitFails(i, stage)
    BY DEF Show
  <1>3. /\ Q \in Seq(Nat) /\ Q # <<>> /\ Tail(Q) \in Seq(Nat) /\ Head(Q) \in Nat /\ Head(Q) = Q[1]
        /\ Len(Tail(Q)) = Len(Q) - 1 /\ Len(Q) \in Nat
        /\ \A k \in 1..Len(Q) - 1 : Tail(Q)[k] = Q[k + 1]
    BY <1>1, HeadTailProperties, LenProperties DEF Shaped
  <1> HIDE DEF o
  <1>4. /\ DOMAIN h = DOMAIN o /\ h.at = o.at /\ h.shown = TRUE /\ h.hold = FALSE /\ h.exit = FALSE
        /\ h.queue = Tail(Q) /\ h.messages = o.messages /\ h.posting = o.posting
        /\ h.given = o.given /\ h.drawn = o.drawn /\ h.leaving = o.leaving /\ h.answer = o.answer
        /\ h.stray = o.stray
    BY <1>1 DEF Shaped, Woken
  <1>5. Shaped(h)
    BY <1>1, <1>3, <1>4 DEF Shaped
  <1> HIDE DEF h
  <1>6. /\ DOMAIN up = DOMAIN h /\ up.at = h.at /\ up.shown = TRUE /\ up.hold = FALSE /\ up.exit = FALSE
        /\ up.queue = h.queue /\ up.messages = h.messages /\ up.posting = h.posting
        /\ up.given = h.given /\ up.drawn = cue /\ up.leaving = h.leaving /\ up.answer = h.answer
        /\ up.stray = h.stray /\ up.attached = TRUE /\ up.visible = TRUE /\ up.pill = "up"
    BY <1>4, <1>5 DEF Shaped
  <1> HIDE DEF up
  <1>7. /\ DOMAIN g = DOMAIN up /\ g.at = up.at /\ g.shown = TRUE /\ g.hold = TRUE /\ g.exit = FALSE
        /\ g.queue = up.queue /\ g.messages = up.messages /\ g.posting = up.posting
        /\ g.given = up.given /\ g.drawn = up.drawn /\ g.leaving = up.leaving /\ g.answer = up.answer
        /\ g.stray = up.stray /\ g.attached = TRUE /\ g.visible = TRUE /\ g.pill = "up"
    BY <1>5, <1>6 DEF Shaped
  <1> HIDE DEF g
  <1>8. CASE Timed(i, g)
    <2>1. GoesOn(i, g)
      BY <1>1, <1>3, <1>4, <1>5, <1>6, <1>7 DEF GoesOn, Shaped, o
    <2>2. Pumping(g) /\ Tidy(g)
      BY <1>1, <1>4, <1>6, <1>7 DEF Pumping, Tidy
    <2>3. g.queue = Tail(Q) /\ g.drawn = cue /\ g.given = o.given /\ g.messages = o.messages
          /\ g.leaving = o.leaving /\ g.at = "drain"
      BY <1>1, <1>4, <1>6, <1>7
    <2>4. g.leaving # "join" => o.queue[Len(o.queue)] = o.given
      BY <1>1, <1>3, <2>3 DEF Cued
    <2>5. Tail(Q) = <<>> => Len(Q) = 1
      <3>1. Tail(Q) = <<>> => Len(Tail(Q)) = 0
        BY <1>3, EmptySeq
      <3> QED  BY <1>3, <3>1
    <2>6. Tail(Q) # <<>> => Tail(Q)[Len(Tail(Q))] = Q[Len(Q)]
      <3>1. Tail(Q) # <<>> => Len(Tail(Q)) # 0
        BY <1>3, EmptySeq
      <3> DEFINE L == Len(Q)
      <3>2. Tail(Q) # <<>> => L - 1 \in 1..L - 1 /\ (L - 1) + 1 = L
        BY <1>3, <3>1
      <3> QED  BY <1>3, <3>2
    <2>7. Cued(g)
      BY <1>1, <1>3, <2>3, <2>4, <2>5, <2>6 DEF Cued, Bidden, Pumping
    <2> QED  BY <1>1, <1>8, <2>1, <2>2, <2>7, TimerOrNot DEF o
  <1>9. CASE \E stage \in {h, [h EXCEPT !.attached = TRUE]} : CommitFails(i, stage)
    <2>1. PICK stage \in {h, [h EXCEPT !.attached = TRUE]} : CommitFails(i, stage)
      BY <1>9
    <2>2. /\ DOMAIN stage = DOMAIN h /\ stage.queue = h.queue /\ stage.messages = h.messages
          /\ stage.posting = h.posting /\ stage.given = h.given /\ stage.drawn = h.drawn
          /\ stage.leaving = h.leaving /\ stage.answer = h.answer /\ stage.stray = h.stray
      BY <1>5, <2>1 DEF Shaped
    <2>3. GoesOn(i, stage)
      BY <1>1, <1>4, <1>5, <2>2 DEF GoesOn, Shaped, o
    <2> QED  BY <1>1, <2>1, <2>3, FailsAndEnds DEF o
  <1> QED  BY <1>2, <1>8, <1>9

LEMMA DrainKeeps ==
    ASSUME HudInv, NEW i \in 1..Len(huds), DrainCommands(i)  PROVE HudInv'
  <1> DEFINE h == huds[i]
  <1>1. Shaped(h) /\ Tidy(h) /\ Cued(h) /\ h.answer = "ok" /\ Pumping(h) /\ h.at = "drain"
    BY RunningHas DEF DrainCommands, Pumping
  <1>2. ASSUME NEW at \in {"loop", "ending"}, Becomes(i, [h EXCEPT !.at = at]),
               at = "loop" => h.queue = <<>>
        PROVE  HudInv'
    <2> DEFINE g == [h EXCEPT !.at = at]
    <2>1. Becomes(i, g)
      BY <1>2
    <2> HIDE DEF h
    <2>2. /\ DOMAIN g = DOMAIN h /\ g.at = at /\ g.shown = h.shown /\ g.attached = h.attached
          /\ g.queue = h.queue /\ g.messages = h.messages /\ g.posting = h.posting
          /\ g.given = h.given /\ g.drawn = h.drawn /\ g.leaving = h.leaving /\ g.answer = h.answer
          /\ g.pill = h.pill /\ g.visible = h.visible /\ g.hold = h.hold /\ g.exit = h.exit
          /\ g.stray = h.stray
      BY <1>1 DEF Shaped
    <2> HIDE DEF g
    <2>3. GoesOn(i, g)
      BY <1>1, <2>2 DEF GoesOn, Shaped, h
    <2>4. at = "loop" => Pumping(g) /\ Tidy(g) /\ Cued(g)
      BY <1>1, <1>2, <2>2 DEF Pumping, Tidy, Cued, Bidden
    <2> QED  BY <1>1, <1>2, <2>1, <2>2, <2>3, <2>4, KeepsRunning DEF h
  <1>3. \/ h.queue = <<>> /\ Becomes(i, [h EXCEPT !.at = "loop"])
        \/ Becomes(i, [h EXCEPT !.at = "ending"])
        \/ h.queue # <<>> /\ Show(i, Head(h.queue))
    BY DEF DrainCommands
  <1>4. CASE h.queue = <<>> /\ Becomes(i, [h EXCEPT !.at = "loop"])
    BY <1>2, <1>4
  <1>5. CASE Becomes(i, [h EXCEPT !.at = "ending"])
    BY <1>2, <1>5
  <1>6. CASE h.queue # <<>> /\ Show(i, Head(h.queue))
    BY <1>1, <1>6, ShowKeeps
  <1> QED  BY <1>3, <1>4, <1>5, <1>6

LEMMA HoldExpiresKeeps ==
    ASSUME HudInv, NEW i \in 1..Len(huds), HoldExpires(i)  PROVE HudInv'
  <1> DEFINE o == huds[i]
             h == [o EXCEPT !.hold = FALSE]
             g == [h EXCEPT !.pill = "fading", !.exit = TRUE]
  <1>1. /\ Shaped(o) /\ Tidy(o) /\ Cued(o) /\ o.answer = "ok" /\ Pumping(o) /\ o.at = "loop"
        /\ o.hold = TRUE
    BY RunningHas DEF HoldExpires, Pumping, Tidy
  <1>2. Timed(i, g) \/ CommitFails(i, h)
    BY DEF HoldExpires
  <1> HIDE DEF o
  <1>3. /\ DOMAIN h = DOMAIN o /\ h.at = o.at /\ h.shown = o.shown /\ h.attached = o.attached
        /\ h.queue = o.queue /\ h.messages = o.messages /\ h.posting = o.posting
        /\ h.given = o.given /\ h.drawn = o.drawn /\ h.leaving = o.leaving /\ h.answer = o.answer
        /\ h.visible = o.visible /\ h.hold = FALSE /\ h.stray = o.stray
    BY <1>1 DEF Shaped
  <1> HIDE DEF h
  <1>4. /\ DOMAIN g = DOMAIN h /\ g.at = h.at /\ g.shown = h.shown /\ g.attached = h.attached
        /\ g.queue = h.queue /\ g.messages = h.messages /\ g.posting = h.posting
        /\ g.given = h.given /\ g.drawn = h.drawn /\ g.leaving = h.leaving /\ g.answer = h.answer
        /\ g.visible = h.visible /\ g.hold = h.hold /\ g.stray = h.stray
        /\ g.pill = "fading" /\ g.exit = TRUE
    BY <1>1, <1>3 DEF Shaped
  <1> HIDE DEF g
  <1>5. GoesOn(i, h) /\ GoesOn(i, g)
    BY <1>1, <1>3, <1>4 DEF GoesOn, Shaped, o
  <1>6. Pumping(g) /\ Tidy(g) /\ Cued(g)
    <2>1. Tidy(g)
      BY <1>1, <1>3, <1>4 DEF Tidy
    <2> QED  BY <1>1, <1>3, <1>4, <2>1 DEF Pumping, Cued, Bidden
  <1>7. CASE Timed(i, g)
    BY <1>1, <1>5, <1>6, <1>7, TimerOrNot DEF o
  <1>8. CASE CommitFails(i, h)
    BY <1>1, <1>5, <1>8, FailsAndEnds DEF o
  <1> QED  BY <1>2, <1>7, <1>8

LEMMA ExitExpiresKeeps ==
    ASSUME HudInv, NEW i \in 1..Len(huds), ExitExpires(i)  PROVE HudInv'
  <1> DEFINE o == huds[i]
             h == [o EXCEPT !.exit = FALSE, !.visible = FALSE]
             d == [h EXCEPT !.attached = @ /\ policy # "DetachedShown"]
             g == [d EXCEPT !.pill = "none", !.shown = @ /\ policy # "AttachedHidden"]
  <1>1. /\ Shaped(o) /\ Tidy(o) /\ Cued(o) /\ o.answer = "ok" /\ Pumping(o) /\ o.at = "loop"
        /\ o.exit = TRUE
    BY RunningHas DEF ExitExpires, Pumping, Tidy
  <1>2. Becomes(i, g) \/ \E stage \in {h, d} : CommitFails(i, stage)
    BY DEF ExitExpires
  <1> HIDE DEF o
  <1>3. /\ DOMAIN h = DOMAIN o /\ h.at = o.at /\ h.shown = o.shown /\ h.attached = o.attached
        /\ h.queue = o.queue /\ h.messages = o.messages /\ h.posting = o.posting
        /\ h.given = o.given /\ h.drawn = o.drawn /\ h.leaving = o.leaving /\ h.answer = o.answer
        /\ h.visible = FALSE /\ h.hold = o.hold /\ h.exit = FALSE /\ h.stray = o.stray
    BY <1>1 DEF Shaped
  <1> HIDE DEF h
  <1>4. /\ DOMAIN d = DOMAIN h /\ d.at = h.at /\ d.shown = h.shown
        /\ d.attached = (h.attached /\ policy # "DetachedShown")
        /\ d.queue = h.queue /\ d.messages = h.messages /\ d.posting = h.posting
        /\ d.given = h.given /\ d.drawn = h.drawn /\ d.leaving = h.leaving /\ d.answer = h.answer
        /\ d.visible = h.visible /\ d.hold = h.hold /\ d.exit = h.exit /\ d.stray = h.stray
    BY <1>1, <1>3 DEF Shaped
  <1> HIDE DEF d
  <1>5. /\ DOMAIN g = DOMAIN d /\ g.at = d.at /\ g.shown = (d.shown /\ policy # "AttachedHidden")
        /\ g.attached = d.attached
        /\ g.queue = d.queue /\ g.messages = d.messages /\ g.posting = d.posting
        /\ g.given = d.given /\ g.drawn = d.drawn /\ g.leaving = d.leaving /\ g.answer = d.answer
        /\ g.visible = d.visible /\ g.hold = d.hold /\ g.exit = d.exit /\ g.stray = d.stray
        /\ g.pill = "none"
    BY <1>1, <1>3, <1>4 DEF Shaped
  <1> HIDE DEF g
  <1>6. GoesOn(i, h) /\ GoesOn(i, d) /\ GoesOn(i, g)
    <2>1. Shaped(h)
      BY <1>1, <1>3 DEF Shaped
    <2>2. Shaped(d)
      BY <2>1, <1>4 DEF Shaped
    <2>3. Shaped(g)
      BY <2>2, <1>5 DEF Shaped
    <2> QED  BY <1>1, <1>3, <1>4, <1>5, <2>1, <2>2, <2>3 DEF GoesOn, o
  <1>7. Tidy(g)
    <2>1. policy \in {"AttachedShown", "DetachedShown", "AttachedHidden"}
      BY HudAssumption DEF HudInv, Swapping
    <2>2. o.shown = TRUE /\ o.attached = TRUE /\ o.hold = FALSE
      BY <1>1 DEF Tidy
    <2>3. g.shown = (policy # "AttachedHidden") /\ g.attached = (policy # "DetachedShown")
      BY <1>3, <1>4, <1>5, <2>2
    <2>4. g.shown = ShownIdle
      BY <2>1, <2>3 DEF ShownIdle
    <2>5. g.attached = AttachedIdle
      BY <2>1, <2>3 DEF AttachedIdle
    <2> QED  BY <1>3, <1>4, <1>5, <2>2, <2>4, <2>5 DEF Tidy
  <1>8. Pumping(g) /\ Cued(g)
    BY <1>1, <1>3, <1>4, <1>5 DEF Pumping, Cued, Bidden
  <1>9. CASE Becomes(i, g)
    BY <1>1, <1>6, <1>7, <1>8, <1>9, KeepsRunning DEF o
  <1>a. CASE \E stage \in {h, d} : CommitFails(i, stage)
    BY <1>1, <1>6, <1>a, FailsAndEnds DEF o
  <1> QED  BY <1>2, <1>9, <1>a

LEMMA PumpFailsKeeps ==
    ASSUME HudInv, NEW i \in 1..Len(huds), PumpFails(i)  PROVE HudInv'
  <1> DEFINE h == huds[i]
             g == [h EXCEPT !.at = "ending", !.healthy = FALSE]
  <1>1. Shaped(h) /\ h.answer = "ok" /\ Pumping(h)
    BY RunningHas DEF PumpFails, Pumping
  <1>2. Becomes(i, g)
    BY DEF PumpFails
  <1> HIDE DEF h
  <1>3. /\ DOMAIN g = DOMAIN h /\ g.at = "ending"
        /\ g.queue = h.queue /\ g.messages = h.messages /\ g.posting = h.posting
        /\ g.given = h.given /\ g.drawn = h.drawn /\ g.leaving = h.leaving /\ g.answer = h.answer
        /\ g.stray = h.stray
    BY <1>1 DEF Shaped
  <1> HIDE DEF g
  <1>4. GoesOn(i, g)
    BY <1>1, <1>3 DEF GoesOn, Shaped, h
  <1> QED  BY <1>1, <1>2, <1>3, <1>4, KeepsRunning DEF h

LEMMA HudThreadKeeps ==
    ASSUME HudInv, NEW i \in 1..Len(huds), HudThread(i)  PROVE HudInv'
  BY CreateWindowKeeps, LookCancelledKeeps, AnswerKeeps, ReceiveKeeps, DrainKeeps, HoldExpiresKeeps,
     ExitExpiresKeeps, PumpFailsKeeps, LeavesNothing DEF HudThread, TearDown

(* The change of settings, and those who put a cue in.                        *)
LEMMA NoneChanges ==
    ASSUME HudInv, UNCHANGED <<policy, huds>>, Swapping'  PROVE HudInv'
  <1>1. Lineage'
    BY DEF HudInv, Lineage
  <1>2. ASSUME NEW i \in 1..Len(huds)  PROVE HudOk(huds[i])'
    BY DEF HudInv, HudOk, Shaped, Tidied, Tidy, ShownIdle, AttachedIdle, Unknown, Cued, Bidden
  <1> QED  BY <1>1, <1>2 DEF HudInv

LEMMA ReconfigureKeeps ==
    ASSUME HudInv, NEW asked \in Settings, Reconfigure(asked)  PROVE HudInv'
  <1>1. /\ swap'.at = "look" /\ {"at", "asked"} \subseteq DOMAIN swap' /\ swap.at = "idle"
        /\ UNCHANGED <<policy, runtime, huds, cues>>
    BY DEF Reconfigure, Quiet
  <1>2. Swapping'
    BY <1>1 DEF HudInv, Swapping, InUse, SettledHud
  <1> QED  BY <1>1, <1>2, NoneChanges

LEMMA RebuildKeeps ==
    ASSUME HudInv, Rebuild  PROVE HudInv'
  <1>1. /\ swap.at = "look" /\ UNCHANGED <<policy, runtime, cues>>
        /\ \/ /\ swap.asked.enabled /\ huds' = Append(huds, NewHud)
              /\ swap' = [swap EXCEPT !.at = "build"]
           \/ swap' = [at |-> "swap", asked |-> swap.asked, new |-> 0] /\ UNCHANGED huds
           \/ swap' = Quiet /\ UNCHANGED huds
    BY DEF Rebuild
  <1>2. CASE swap' = [at |-> "swap", asked |-> swap.asked, new |-> 0] /\ UNCHANGED huds
    <2>1. Swapping'
      BY <1>1, <1>2 DEF HudInv, Swapping, InUse, SettledHud
    <2> QED  BY <1>1, <1>2, <2>1, NoneChanges
  <1>3. CASE swap' = Quiet /\ UNCHANGED huds
    <2>1. swap'.at = "idle" /\ "at" \in DOMAIN swap'
      BY <1>3 DEF Quiet
    <2>2. Swapping'
      BY <1>1, <1>3, <2>1 DEF HudInv, Swapping, InUse, SettledHud
    <2> QED  BY <1>1, <1>3, <2>2, NoneChanges
  <1>4. CASE /\ swap.asked.enabled /\ huds' = Append(huds, NewHud)
             /\ swap' = [swap EXCEPT !.at = "build"]
    <2>1. PICK S : huds \in Seq(S)
      BY DEF HudInv, Lineage
    <2>2. /\ huds' \in Seq(S \cup {NewHud}) /\ Len(huds') = Len(huds) + 1
          /\ Len(huds) \in Nat /\ huds'[Len(huds) + 1] = NewHud
          /\ \A j \in 1..Len(huds) : huds'[j] = huds[j]
      <3>1. huds \in Seq(S \cup {NewHud})
        BY <2>1
      <3> QED  BY <1>4, <3>1, AppendProperties, LenProperties
    <2>3. Lineage'
      BY <2>2 DEF Lineage
    <2>4. HudOk(NewHud)
      <3>1. Shaped(NewHud)
        BY EmptySeq DEF Shaped, NewHud
      <3> QED  BY <3>1 DEF HudOk, NewHud, Tidied, Unknown, Cued
    <2>5. ASSUME NEW j \in 1..Len(huds')  PROVE HudOk(huds[j])'
      <3>1. HudOk(huds'[j])
        <4>1. CASE j = Len(huds) + 1
          BY <2>2, <2>4, <4>1
        <4>2. CASE j # Len(huds) + 1
          <5>1. j \in 1..Len(huds)
            BY <2>2, <4>2
          <5> QED  BY <2>2, <5>1 DEF HudInv
        <4> QED  BY <4>1, <4>2
      <3> QED
        BY <1>1, <3>1 DEF HudOk, Shaped, Tidied, Tidy, ShownIdle, AttachedIdle, Unknown, Cued, Bidden
    <2>6. swap'.at = "build" /\ DOMAIN swap' = DOMAIN swap /\ swap'.asked = swap.asked
      BY <1>4 DEF HudInv, Swapping
    <2>7. runtime.hud \in 0..Len(huds) /\ runtime.hud # Len(huds) + 1
      BY <2>2 DEF HudInv, Swapping
    <2>8. runtime'.hud # 0 => InUse(runtime.hud)'
      BY <1>1, <2>2, <2>7 DEF HudInv, Swapping, InUse
    <2>9. ASSUME NEW j \in 1..Len(huds')
          PROVE  j = runtime'.hud \/ SettledHud(huds[j])' \/ j = Len(huds')
      <3>1. CASE j = Len(huds) + 1
        BY <2>2, <3>1
      <3>2. CASE j # Len(huds) + 1
        <4>1. j \in 1..Len(huds)
          BY <2>2, <3>2
        <4>2. j = runtime.hud \/ SettledHud(huds[j])
          BY <1>1, <4>1 DEF HudInv, Swapping
        <4> QED  BY <1>1, <2>2, <4>1, <4>2 DEF SettledHud
      <3> QED  BY <3>1, <3>2
    <2>a. huds'[Len(huds')].leaving = "no"
      BY <2>2 DEF NewHud
    <2>b. Len(huds') # 0 /\ runtime'.hud # Len(huds') /\ runtime'.hud \in 0..Len(huds')
      BY <1>1, <2>2, <2>7
    <2>c. /\ policy' \in Policies /\ cues' \in Nat
          /\ {"at", "asked"} \subseteq DOMAIN swap'
          /\ swap'.asked.enabled = TRUE
          /\ runtime'.hud # 0 => runtime'.settings.enabled = TRUE
      BY <1>1, <1>4, <2>6 DEF HudInv, Swapping
    <2>e. policy' = policy /\ swap'.at = "build"
      BY <1>1, <2>6
    <2>d. Swapping'
      BY <2>e, <2>8, <2>9, <2>a, <2>b, <2>c DEF Swapping
    <2> QED  BY <2>3, <2>5, <2>d DEF HudInv
  <1> QED  BY <1>1, <1>2, <1>3, <1>4

LEMMA TakeAnswerKeeps ==
    ASSUME HudInv, TakeAnswer  PROVE HudInv'
  <1>1. /\ swap.at = "build" /\ UNCHANGED <<policy, runtime, huds, cues>>
        /\ \/ huds[Len(huds)].answer = "ok" /\ Built(Len(huds))
           \/ huds[Len(huds)].at = "gone" /\ Built(0)
    BY DEF TakeAnswer, Latest
  <1>2. CASE huds[Len(huds)].answer = "ok" /\ Built(Len(huds))
    <2>1. /\ swap'.at = "swap" /\ swap'.asked = swap.asked /\ swap'.new = Len(huds)
          /\ {"at", "asked"} \subseteq DOMAIN swap'
      BY <1>2 DEF Built
    <2>2. Swapping'
      BY <1>1, <1>2, <2>1 DEF HudInv, Swapping, InUse, SettledHud
    <2> QED  BY <1>1, <2>2, NoneChanges
  <1>3. CASE huds[Len(huds)].at = "gone" /\ Built(0)
    <2>1. /\ swap'.at = "swap" /\ swap'.asked = swap.asked /\ swap'.new = 0
          /\ {"at", "asked"} \subseteq DOMAIN swap'
      BY <1>3 DEF Built
    <2>2. Swapping'
      BY <1>1, <1>3, <2>1 DEF HudInv, Swapping, InUse, SettledHud
    <2> QED  BY <1>1, <2>2, NoneChanges
  <1> QED  BY <1>1, <1>2, <1>3

LEMMA NoAnswerKeeps ==
    ASSUME HudInv, NoAnswer  PROVE HudInv'
  <1> DEFINE n == Len(huds)
             h == huds[n]
             a == [h EXCEPT !.cancelled = TRUE]
             b == [a EXCEPT !.healthy = FALSE]
             g == [b EXCEPT !.stray = (h.at = "answer")]
  <1>1. /\ swap.at = "build" /\ h.answer = "none" /\ Built(0)
        /\ huds' = [huds EXCEPT ![n].cancelled = TRUE, ![n].healthy = FALSE,
                                ![n].stray = (h.at = "answer")]
        /\ UNCHANGED <<policy, runtime, cues>>
    BY DEF NoAnswer, Latest
  <1>2. PICK S : huds \in Seq(S)
    BY DEF HudInv, Lineage
  <1>3. n \in Nat /\ n # 0 /\ n \in 1..Len(huds) /\ h.leaving = "no" /\ runtime.hud # n
    BY <1>1, <1>2, LenProperties DEF HudInv, Swapping
  <1>4. huds' = [huds EXCEPT ![n] = g]
    BY <1>1, <1>2, <1>3
  <1>5. /\ huds' \in Seq(S \cup {g}) /\ Len(huds') = Len(huds) /\ huds'[n] = g
        /\ \A j \in 1..Len(huds) : j # n => huds'[j] = huds[j]
    BY <1>2, <1>3, <1>4, OneChanges
  <1>6. HudOk(h)
    BY <1>3 DEF HudInv
  <1>7. /\ DOMAIN g = DOMAIN h /\ g.at = h.at /\ g.shown = h.shown /\ g.attached = h.attached
        /\ g.queue = h.queue /\ g.messages = h.messages /\ g.posting = h.posting
        /\ g.given = h.given /\ g.drawn = h.drawn /\ g.leaving = h.leaving /\ g.answer = h.answer
        /\ g.pill = h.pill /\ g.visible = h.visible /\ g.hold = h.hold /\ g.exit = h.exit
        /\ g.cancelled = TRUE /\ g.stray = (h.at = "answer")
    BY <1>6 DEF HudOk, Shaped
  <1> HIDE DEF g
  <1>8. SettledHud(g)
    <2>1. h.at \in {"init", "created", "answer", "gone"}
      BY <1>1, <1>6 DEF HudOk, Unknown, Tidied, Shaped
    <2> QED  BY <1>7, <2>1 DEF SettledHud
  <1>9. HudOk(g)
    BY <1>6, <1>7 DEF HudOk, Shaped, Tidied, Tidy, Unknown, Cued, Bidden
  <1>a. Lineage'
    BY SMTT(30), <1>5 DEF Lineage
  <1>b. ASSUME NEW j \in 1..Len(huds')  PROVE HudOk(huds[j])'
    <2>1. HudOk(huds'[j])
      BY <1>5, <1>9 DEF HudInv
    <2> QED
      BY <1>1, <2>1 DEF HudOk, Shaped, Tidied, Tidy, ShownIdle, AttachedIdle, Unknown, Cued, Bidden
  <1>c. /\ swap'.at = "swap" /\ swap'.new = 0 /\ {"at", "asked"} \subseteq DOMAIN swap'
    BY <1>1 DEF Built
  <1>d. runtime'.hud # 0 => InUse(runtime.hud)'
    BY <1>1, <1>3, <1>5 DEF HudInv, Swapping, InUse
  <1>e. ASSUME NEW j \in 1..Len(huds')  PROVE j = runtime'.hud \/ SettledHud(huds[j])'
    <2>1. CASE j = n
      BY <1>5, <1>8, <2>1 DEF SettledHud
    <2>2. CASE j # n
      <3>1. j = runtime.hud \/ SettledHud(huds[j])
        BY <1>1, <1>5, <2>2 DEF HudInv, Swapping
      <3> QED  BY <1>1, <1>5, <2>2, <3>1 DEF SettledHud
    <2> QED  BY <2>1, <2>2
  <1>f. /\ policy' \in Policies /\ cues' \in Nat
        /\ runtime'.hud \in 0..Len(huds')
        /\ runtime'.hud # 0 => runtime'.settings.enabled = TRUE
    BY <1>1, <1>5 DEF HudInv, Swapping
  <1>g. Swapping'
    BY <1>c, <1>d, <1>e, <1>f DEF Swapping
  <1> QED  BY <1>a, <1>b, <1>g DEF HudInv

LEMMA SwapKeeps ==
    ASSUME HudInv, Swap  PROVE HudInv'
  <1> DEFINE n == Len(huds)
             old == runtime.hud
             g == [huds[old] EXCEPT !.leaving = "stop"]
  <1>1. /\ swap.at = "swap" /\ swap' = Quiet /\ policy' = policy /\ cues' = cues
        /\ runtime' = [settings |-> swap.asked, hud |-> swap.new]
        /\ huds' = [i \in 1..n |-> IF i = old THEN g ELSE huds[i]]
    BY DEF Swap, Latest
  <1>2. PICK S : huds \in Seq(S)
    BY DEF HudInv, Lineage
  <1>3. n \in Nat /\ old \in 0..n /\ (swap.new = 0 \/ swap.new = n) /\ swap.new \in 0..n
    BY <1>1, <1>2, LenProperties DEF HudInv, Swapping
  <1>4. /\ huds' \in Seq(S \cup {g}) /\ Len(huds') = n
        /\ \A j \in 1..n : huds'[j] = IF j = old THEN g ELSE huds[j]
    <2>1. \A j \in 1..n : huds[j] \in S
      BY <1>2, ElementOfSeq
    <2>2. huds' \in [1..n -> S \cup {g}]
      BY <1>1, <2>1
    <2> QED  BY <1>1, <1>3, <2>2, IsASeq, LenProperties
  <1>5. Lineage'
    BY <1>4 DEF Lineage
  <1>6. ASSUME old # 0
        PROVE  HudOk(g) /\ g.leaving = "stop"
    <2> DEFINE h == huds[old]
    <2>1. HudOk(h) /\ h.answer = "ok" /\ h.leaving = "no"
      BY <1>3, <1>6 DEF HudInv, Swapping, InUse
    <2>2. g = [h EXCEPT !.leaving = "stop"]
      OBVIOUS
    <2> HIDE DEF h
    <2>3. /\ DOMAIN g = DOMAIN h /\ g.at = h.at /\ g.shown = h.shown /\ g.attached = h.attached
          /\ g.queue = h.queue /\ g.messages = h.messages /\ g.posting = h.posting
          /\ g.given = h.given /\ g.drawn = h.drawn /\ g.leaving = "stop" /\ g.answer = h.answer
          /\ g.pill = h.pill /\ g.visible = h.visible /\ g.hold = h.hold /\ g.exit = h.exit
      BY <2>1, <2>2 DEF HudOk, Shaped
    <2> HIDE DEF g
    <2>4. Shaped(g) /\ Cued(g)
      BY <2>1, <2>3 DEF HudOk, Shaped, Cued
    <2>5. Tidied(g)
      BY <2>1, <2>3 DEF HudOk, Tidied, Tidy
    <2>6. Unknown(g)
      BY SMTT(30), <2>1, <2>3 DEF HudOk, Unknown
    <2> QED  BY <2>3, <2>4, <2>5, <2>6 DEF HudOk
  <1> HIDE DEF g
  <1>7. ASSUME NEW j \in 1..Len(huds')  PROVE HudOk(huds[j])'
    <2>1. HudOk(huds'[j])
      BY <1>3, <1>4, <1>6 DEF HudInv
    <2> QED
      BY <1>1, <2>1 DEF HudOk, Shaped, Tidied, Tidy, ShownIdle, AttachedIdle, Unknown, Cued, Bidden
  <1>8. swap'.at = "idle" /\ "at" \in DOMAIN swap'
    BY <1>1 DEF Quiet
  <1>9. /\ runtime'.hud = swap.new /\ runtime'.settings = swap.asked
    BY <1>1
  <1>a. swap.new # 0 => old # swap.new /\ InUse(swap.new) /\ swap.asked.enabled = TRUE
    BY <1>1, <1>3 DEF HudInv, Swapping
  <1>b. runtime'.hud # 0 => runtime'.settings.enabled = TRUE /\ InUse(runtime.hud)'
    BY <1>3, <1>4, <1>9, <1>a DEF InUse
  <1>c. ASSUME NEW j \in 1..Len(huds')  PROVE j = runtime'.hud \/ SettledHud(huds[j])'
    <2>1. CASE j = old
      BY <1>3, <1>4, <1>6, <2>1 DEF SettledHud
    <2>2. CASE j # old
      <3>1. j = swap.new \/ SettledHud(huds[j])
        BY <1>1, <1>4, <2>2 DEF HudInv, Swapping
      <3> QED  BY <1>4, <1>9, <2>2, <3>1 DEF SettledHud
    <2> QED  BY <2>1, <2>2
  <1>d. policy' \in Policies /\ cues' \in Nat /\ runtime'.hud \in 0..Len(huds')
    BY <1>1, <1>3, <1>4, <1>9 DEF HudInv, Swapping
  <1>e. Swapping'
    BY <1>8, <1>b, <1>c, <1>d DEF Swapping
  <1> QED  BY <1>5, <1>7, <1>e DEF HudInv

LEMMA StopOldKeeps ==
    ASSUME HudInv, NEW i \in 1..Len(huds), StopOld(i)  PROVE HudInv'
  <1> DEFINE h == huds[i]
             Q == IF h.at # "gone" /\ Len(h.queue) < CueBound THEN Append(h.queue, Shutdown) ELSE h.queue
             M == IF WindowOpen(h) THEN Append(h.messages, "close") ELSE h.messages
             g == [h EXCEPT !.leaving = "join", !.healthy = FALSE, !.cancelled = TRUE,
                            !.queue = Q, !.messages = M]
  <1>1. /\ HudOk(h) /\ cues \in Nat /\ h.leaving = "stop"
        /\ UNCHANGED <<policy, runtime, swap, cues>>
    BY DEF HudInv, Swapping, StopOld
  <1>2. huds' = [huds EXCEPT ![i] = g]
    BY DEF StopOld
  <1> HIDE DEF h
  <1>3. Q \in Seq(Nat) /\ M \in Seq({"close", "command"})
    <2>1. h.queue \in Seq(Nat) /\ Shutdown \in Nat /\ h.messages \in Seq({"close", "command"})
      BY <1>1 DEF HudOk, Shaped, Shutdown
    <2> QED  BY <2>1, AppendProperties
  <1>4. WindowOpen(h) => \E k \in 1..Len(M) : M[k] = "close"
    <2>1. h.messages \in Seq({"close", "command"}) /\ Len(h.messages) \in Nat
      BY <1>1, LenProperties DEF HudOk, Shaped
    <2>2. WindowOpen(h) => Len(M) = Len(h.messages) + 1 /\ M[Len(h.messages) + 1] = "close"
      BY <2>1, AppendProperties
    <2> QED  BY <2>1, <2>2
  <1> HIDE DEF Q, M
  <1>5. /\ DOMAIN g = DOMAIN h /\ g.at = h.at /\ g.shown = h.shown /\ g.attached = h.attached
        /\ g.queue = Q /\ g.messages = M /\ g.posting = h.posting
        /\ g.given = h.given /\ g.drawn = h.drawn /\ g.leaving = "join" /\ g.answer = h.answer
        /\ g.pill = h.pill /\ g.visible = h.visible /\ g.hold = h.hold /\ g.exit = h.exit
    BY <1>1 DEF HudOk, Shaped
  <1> HIDE DEF g
  <1>6. h.at \notin {"init", "created", "answer"}
    BY <1>1 DEF HudOk, Unknown
  <1>7. HudOk(g)
    <2>1. Shaped(g)
      BY <1>1, <1>3, <1>5 DEF HudOk, Shaped
    <2>2. Tidied(g)
      BY <1>1, <1>5 DEF HudOk, Tidied, Tidy
    <2>3. Unknown(g)
      BY <1>1, <1>5, <1>6 DEF HudOk, Unknown
    <2>4. g.at \in {"loop", "drain"} => Bidden(g)
      BY <1>4, <1>5 DEF WindowOpen, Bidden
    <2>5. g.at = "loop" => g.messages # <<>>
      BY <2>4, EmptySeq DEF Bidden
    <2> QED  BY <1>5, <2>1, <2>2, <2>3, <2>4, <2>5 DEF HudOk, Cued
  <1>8. SettledHud(g)
    BY <1>5 DEF SettledHud
  <1>9. h.answer = "ok" => g.answer = "ok"
    BY <1>5
  <1> QED  BY <1>1, <1>2, <1>7, <1>8, <1>9, OneMoves DEF h

LEMMA JoinOldKeeps ==
    ASSUME HudInv, NEW i \in 1..Len(huds), JoinOld(i)  PROVE HudInv'
  <1> DEFINE h == huds[i]
             g == [h EXCEPT !.leaving = "no"]
  <1>1. /\ HudOk(h) /\ cues \in Nat /\ h.leaving = "join" /\ h.at = "gone"
        /\ huds' = [huds EXCEPT ![i] = g] /\ UNCHANGED <<policy, runtime, swap, cues>>
    BY DEF HudInv, Swapping, JoinOld
  <1> HIDE DEF h
  <1>2. /\ DOMAIN g = DOMAIN h /\ g.at = "gone" /\ g.queue = h.queue /\ g.messages = h.messages
        /\ g.posting = h.posting /\ g.given = h.given /\ g.drawn = h.drawn /\ g.answer = h.answer
        /\ g.pill = h.pill
    BY <1>1 DEF HudOk, Shaped
  <1> HIDE DEF g
  <1>3. HudOk(g)
    BY <1>1, <1>2 DEF HudOk, Shaped, Tidied, Unknown, Cued
  <1>4. SettledHud(g)
    BY <1>2 DEF SettledHud
  <1>5. h.answer = "ok" => g.answer = "ok"
    BY <1>2
  <1> QED  BY <1>1, <1>3, <1>4, <1>5, OneMoves DEF h

LEMMA TryShowKeeps ==
    ASSUME HudInv, TryShow  PROVE HudInv'
  <1> DEFINE i == runtime.hud
             h == huds[i]
             c == cues + 1
             a == [h EXCEPT !.queue = Append(@, c)]
             b == [a EXCEPT !.posting = @ + 1]
             g == [b EXCEPT !.given = c]
  <1>1. /\ i # 0 /\ cues' = cues + 1 /\ UNCHANGED <<policy, runtime, swap>>
        /\ huds' = [huds EXCEPT ![i].queue = Append(@, c), ![i].posting = @ + 1, ![i].given = c]
    BY DEF TryShow
  <1>2. PICK S : huds \in Seq(S)
    BY DEF HudInv, Lineage
  <1>3. i \in 1..Len(huds) /\ cues \in Nat /\ cues' \in Nat /\ c \in Nat
    BY <1>1, <1>2, LenProperties DEF HudInv, Swapping
  <1>4. HudOk(h) /\ h.leaving = "no" /\ h.answer = "ok"
    BY <1>1, <1>3 DEF HudInv, Swapping, InUse
  <1>5. huds' = [huds EXCEPT ![i] = g]
    BY <1>1, <1>2, <1>3
  <1> HIDE DEF h, i, c
  <1>6. /\ DOMAIN g = DOMAIN h /\ g.at = h.at /\ g.shown = h.shown /\ g.attached = h.attached
        /\ g.queue = Append(h.queue, c) /\ g.messages = h.messages /\ g.posting = h.posting + 1
        /\ g.given = c /\ g.drawn = h.drawn /\ g.leaving = h.leaving /\ g.answer = h.answer
        /\ g.pill = h.pill /\ g.visible = h.visible /\ g.hold = h.hold /\ g.exit = h.exit
        /\ g.stray = h.stray /\ g.cancelled = h.cancelled
    BY <1>4 DEF HudOk, Shaped
  <1> HIDE DEF g
  <1>7. /\ g.queue \in Seq(Nat) /\ g.posting \in Nat /\ g.posting # 0
        /\ Len(g.queue) # 0 /\ g.queue[Len(g.queue)] = c
    <2>1. h.queue \in Seq(Nat) /\ h.posting \in Nat
      BY <1>4 DEF HudOk, Shaped
    <2>2. Len(h.queue) \in Nat /\ Len(g.queue) = Len(h.queue) + 1 /\ g.queue \in Seq(Nat)
          /\ g.queue[Len(h.queue) + 1] = c
      BY <1>3, <1>6, <2>1, AppendProperties, LenProperties
    <2> QED  BY <1>6, <2>1, <2>2
  <1>8. HudOk(g)
    <2>1. Shaped(g)
      BY <1>3, <1>4, <1>6, <1>7 DEF HudOk, Shaped
    <2>2. Tidied(g)
      BY <1>4, <1>6 DEF HudOk, Tidied, Tidy
    <2>3. Unknown(g)
      BY <1>4, <1>6 DEF HudOk, Unknown
    <2>4. g.queue # <<>>
      BY <1>7, EmptySeq
    <2> QED  BY <1>4, <1>6, <1>7, <2>1, <2>2, <2>3, <2>4 DEF HudOk, Cued
  <1>9. SettledHud(h) => SettledHud(g)
    BY <1>6 DEF SettledHud
  <1> QED  BY <1>1, <1>3, <1>4, <1>5, <1>6, <1>8, <1>9, OneMoves DEF h

LEMMA PostWakeKeeps ==
    ASSUME HudInv, NEW i \in 1..Len(huds), PostWake(i)  PROVE HudInv'
  <1> DEFINE h == huds[i]
             M == IF WindowOpen(h) THEN Append(h.messages, "command") ELSE h.messages
             a == [h EXCEPT !.posting = @ - 1]
             g == [a EXCEPT !.messages = M]
  <1>1. PICK S : huds \in Seq(S)
    BY DEF HudInv, Lineage
  <1>2. /\ HudOk(h) /\ cues \in Nat /\ h.posting > 0
        /\ huds' = [huds EXCEPT ![i].posting = @ - 1, ![i].messages = M]
        /\ UNCHANGED <<policy, runtime, swap, cues>>
    BY DEF HudInv, Swapping, PostWake
  <1>3. huds' = [huds EXCEPT ![i] = g]
    BY <1>1, <1>2
  <1> HIDE DEF h
  <1>4. /\ M \in Seq({"close", "command"}) /\ (Bidden(h) => \E k \in 1..Len(M) : M[k] = "close")
        /\ WindowOpen(h) => M # <<>>
    <2>1. h.messages \in Seq({"close", "command"}) /\ Len(h.messages) \in Nat
      BY <1>2, LenProperties DEF HudOk, Shaped
    <2>2. CASE WindowOpen(h)
      <3>1. /\ M \in Seq({"close", "command"}) /\ Len(M) = Len(h.messages) + 1
            /\ \A k \in 1..Len(h.messages) : M[k] = h.messages[k]
        BY <2>1, <2>2, AppendProperties
      <3>2. M # <<>>
        <4>1. Len(M) # 0
          BY <2>1, <3>1
        <4> QED  BY <4>1, EmptySeq
      <3> QED  BY <2>1, <3>1, <3>2 DEF Bidden
    <2>3. CASE ~ WindowOpen(h)
      BY <2>1, <2>3 DEF Bidden
    <2> QED  BY <2>2, <2>3
  <1> HIDE DEF M
  <1>5. /\ DOMAIN g = DOMAIN h /\ g.at = h.at /\ g.shown = h.shown /\ g.attached = h.attached
        /\ g.queue = h.queue /\ g.messages = M /\ g.posting = h.posting - 1
        /\ g.given = h.given /\ g.drawn = h.drawn /\ g.leaving = h.leaving /\ g.answer = h.answer
        /\ g.pill = h.pill /\ g.visible = h.visible /\ g.hold = h.hold /\ g.exit = h.exit
        /\ g.stray = h.stray /\ g.cancelled = h.cancelled
    BY <1>2 DEF HudOk, Shaped
  <1> HIDE DEF g
  <1>6. h.posting \in Nat /\ g.posting \in Nat
    BY <1>2, <1>5 DEF HudOk, Shaped
  <1>7. HudOk(g)
    <2>1. Shaped(g)
      BY <1>2, <1>4, <1>5, <1>6 DEF HudOk, Shaped
    <2>2. Tidied(g)
      BY <1>2, <1>5 DEF HudOk, Tidied, Tidy
    <2>3. h.at \notin {"init", "created", "answer"}
      BY <1>2, <1>6 DEF HudOk, Unknown
    <2>4. Unknown(g)
      BY <1>2, <1>5, <2>3 DEF HudOk, Unknown
    <2>5. Bidden(h) => Bidden(g)
      BY <1>4, <1>5 DEF Bidden
    <2>6. g.at = "loop" => g.messages # <<>>
      BY <1>4, <1>5 DEF WindowOpen
    <2> QED  BY <1>2, <1>5, <2>1, <2>2, <2>4, <2>5, <2>6 DEF HudOk, Cued
  <1>8. SettledHud(h) => SettledHud(g)
    BY <1>5 DEF SettledHud
  <1> QED  BY <1>2, <1>3, <1>5, <1>7, <1>8, OneMoves DEF h

LEMMA HudInitially == HudInit => HudInv
  <1> SUFFICES ASSUME HudInit  PROVE HudInv
    OBVIOUS
  <1>1. /\ huds = <<>> /\ policy \in Policies /\ cues = 0 /\ runtime.hud = 0
        /\ swap.at = "look" /\ {"at", "asked"} \subseteq DOMAIN swap
    BY DEF HudInit
  <1>2. huds \in Seq({}) /\ Len(huds) = 0
    BY <1>1, EmptySeq
  <1>3. Lineage
    BY <1>2 DEF Lineage
  <1>4. 1..Len(huds) = {}
    BY <1>2
  <1>5. Swapping
    BY <1>1, <1>2, <1>4 DEF Swapping
  <1> QED  BY <1>3, <1>4, <1>5 DEF HudInv

LEMMA HudStepKeeps == HudInv /\ [HudNext]_hudVars => HudInv'
  <1> SUFFICES ASSUME HudInv, [HudNext]_hudVars  PROVE HudInv'
    OBVIOUS
  <1>1. CASE UNCHANGED hudVars
    <2>1. UNCHANGED <<policy, runtime, swap, huds, cues>>
      BY <1>1 DEF hudVars
    <2>2. Swapping'
      BY <2>1 DEF HudInv, Swapping, InUse, SettledHud
    <2> QED  BY <2>1, <2>2, NoneChanges
  <1>2. ASSUME NEW asked \in Settings, Reconfigure(asked)  PROVE HudInv'
    BY <1>2, ReconfigureKeeps
  <1>3. ASSUME NEW i \in 1..Len(huds), StopOld(i) \/ JoinOld(i) \/ PostWake(i) \/ HudThread(i)
        PROVE  HudInv'
    BY <1>3, StopOldKeeps, JoinOldKeeps, PostWakeKeeps, HudThreadKeeps
  <1> QED
    BY <1>1, <1>2, <1>3, RebuildKeeps, TakeAnswerKeeps, NoAnswerKeeps, SwapKeeps, TryShowKeeps
    DEF HudNext

(* However often the settings change and threads are given up, cues come, the *)
(* compositor fails and timers go off, no pill stays for ever, no accepted cue *)
(* is forgotten, and no thread but the one in use is left to itself.           *)
THEOREM HudAlwaysSound == HudSpec => []HudSound
  <1>1. HudInit => HudInv
    BY HudInitially
  <1>2. HudInv /\ [HudNext]_hudVars => HudInv'
    BY HudStepKeeps
  <1>3. HudInv => HudSound
    BY HudInvSound
  <1> QED  BY <1>1, <1>2, <1>3, PTL DEF HudSpec

-----------------------------------------------------------------------------
(* The hotkeys                                                            *)

(* What is registered with the system is what is in force and was not refused. *)
Registration ==
    /\ inForce = NoBindings \/ inForce \in Bindings
    /\ registered = {<<id, inForce[id]>> : id \in DOMAIN inForce \ tally.refused}
    /\ succeeded = {p[1] : p \in registered}

(* A command is the answer to one that waits, and has one message to be read.  *)
Controls(i) == messages[i].kind = "control"
Waits ==
    /\ \E S : messages \in Seq(S)
    /\ \E S : commands \in Seq(S)
    /\ {"thread", "step", "asked"} \subseteq DOMAIN owner
    /\ owner.step \in {"idle", "post", "waiting"}
    /\ owner.thread = "none" => owner.asked = NoBindings
    /\ owner.step # "idle" =>
        /\ Running /\ Len(commands) = 1
        /\ commands[1].kind = "replace" => commands[1].set = owner.asked /\ owner.asked \in Bindings
    /\ owner.step = "idle" => commands = <<>>
    /\ owner.step \in {"idle", "post"} => \A i \in 1..Len(messages) : ~ Controls(i)
    /\ owner.step = "waiting" =>
        \E i \in 1..Len(messages) : Controls(i) /\ \A j \in 1..Len(messages) : Controls(j) => j = i
    /\ Running /\ owner.step = "idle" /\ owner.asked # NoBindings => inForce = owner.asked

(* Until the hook is mistaken about a modifier, a message finds its press      *)
(* answered already.                                                          *)
Answered ==
    /\ {"spare", "ahead", "refused", "strayed"} \subseteq DOMAIN tally
    /\ ~ tally.strayed =>
        /\ \A i \in 1..Len(messages) : messages[i].kind = "hotkey" => messages[i].id \in recent
        /\ \A id \in HotkeyIds : tally.spare[id] \in Nat /\ tally.ahead[id] \in Nat

HotkeysInv == Registration /\ Waits /\ Answered

LEMMA HotkeysInvSound == HotkeysInv => HotkeysSound
  <1> SUFFICES ASSUME HotkeysInv  PROVE HotkeysSound
    OBVIOUS
  <1>1. HotkeysFollow
    BY DEF HotkeysInv, Registration, Waits, HotkeysFollow, Controls
  <1>2. PressesAnswered
    BY DEF HotkeysInv, Answered, PressesAnswered
  <1> QED  BY <1>1, <1>2 DEF HotkeysSound

(* What is not touched stays as it is.                                        *)
LEMMA RegistrationKept ==
    ASSUME Registration, UNCHANGED <<inForce, registered, succeeded>>, tally'.refused = tally.refused
    PROVE  Registration'
  BY DEF Registration

LEMMA WaitsKept ==
    ASSUME Waits, UNCHANGED <<owner, commands, messages, inForce>>
    PROVE  Waits'
  BY DEF Waits, Controls, Running

LEMMA AnsweredKept ==
    ASSUME Answered, UNCHANGED <<messages, recent, tally>>
    PROVE  Answered'
  BY DEF Answered

LEMMA StartKeeps == ASSUME HotkeysInv, Start  PROVE HotkeysInv'
  <1>1. CASE owner' = [owner EXCEPT !.thread = "gone"]
             /\ UNCHANGED <<registered, succeeded, inForce, tally>>
    <2>1. UNCHANGED <<commands, messages, recent>> /\ owner.thread = "none"
      BY DEF Start
    <2>2. Waits'
      <3>1. /\ owner'.thread = "gone" /\ owner'.step = owner.step /\ DOMAIN owner' = DOMAIN owner
            /\ owner.step = "idle"
        BY <1>1, <2>1 DEF HotkeysInv, Waits, Running
      <3> QED  BY <2>1, <3>1 DEF HotkeysInv, Waits, Controls, Running
    <2> QED  BY <1>1, <2>1, <2>2, RegistrationKept, AnsweredKept DEF HotkeysInv
  <1>2. ASSUME NEW set \in Bindings, registered' = Granted({}, set),
               succeeded' = {p[1] : p \in registered'}, inForce' = set,
               owner' = [owner EXCEPT !.thread = "running"],
               tally' = [tally EXCEPT !.refused = Refused(set)]
        PROVE  HotkeysInv'
    <2>1. UNCHANGED <<commands, messages, recent>> /\ owner.thread = "none"
      BY DEF Start
    <2>2. Registration'
      <3>1. tally'.refused = {id \in DOMAIN set : set[id] \in foreign}
        BY <1>2 DEF Refused, HotkeysInv, Answered
      <3>2. registered' = {p \in {<<id, set[id]>> : id \in DOMAIN set} : p[2] \notin foreign}
        BY <1>2 DEF Granted
      <3>3. registered' = {<<id, inForce'[id]>> : id \in DOMAIN inForce' \ tally'.refused}
        BY <1>2, <3>1, <3>2
      <3> QED  BY <1>2, <3>3 DEF Registration
    <2>3. Waits'
      <3>1. /\ owner'.step = owner.step /\ DOMAIN owner' = DOMAIN owner /\ owner'.thread = "running"
            /\ owner'.asked = NoBindings /\ owner.step = "idle"
        BY <1>2, <2>1 DEF HotkeysInv, Waits, Running
      <3> QED  BY <2>1, <3>1 DEF HotkeysInv, Waits, Controls, Running
    <2>4. Answered'
      BY <1>2, <2>1 DEF HotkeysInv, Answered
    <2> QED  BY <2>2, <2>3, <2>4 DEF HotkeysInv
  <1> QED  BY <1>1, <1>2 DEF Start

LEMMA AskKeeps == ASSUME HotkeysInv, NEW set \in Bindings, Ask(set)  PROVE HotkeysInv'
  <1> DEFINE c == [kind |-> "replace", set |-> set]
  <1>1. /\ Running /\ owner.step = "idle" /\ commands' = Append(commands, c)
        /\ owner' = [owner EXCEPT !.step = "post", !.asked = set]
        /\ UNCHANGED <<messages, inForce, registered, succeeded, recent, tally>>
    BY DEF Ask
  <1>2. commands = <<>> /\ \A i \in 1..Len(messages) : ~ Controls(i)
    BY <1>1 DEF HotkeysInv, Waits
  <1>3. commands' \in Seq({c}) /\ Len(commands') = 1 /\ commands'[1] = c
    <2>1. commands \in Seq({c}) /\ Len(commands) = 0
      BY <1>2, EmptySeq
    <2> QED  BY <1>1, <2>1, AppendProperties
  <1>4. c.kind = "replace" /\ c.set = set
    OBVIOUS
  <1> HIDE DEF c
  <1>5. /\ DOMAIN owner' = DOMAIN owner /\ owner'.step = "post" /\ owner'.asked = set
        /\ owner'.thread = owner.thread /\ owner.thread = "running"
    BY <1>1 DEF HotkeysInv, Waits, Running
  <1>6. Waits'
    BY <1>1, <1>2, <1>3, <1>4, <1>5 DEF HotkeysInv, Waits, Controls, Running
  <1> QED  BY <1>1, <1>6, RegistrationKept, AnsweredKept DEF HotkeysInv

LEMMA DropKeeps == ASSUME HotkeysInv, Drop  PROVE HotkeysInv'
  <1> DEFINE c == [kind |-> "stop"]
  <1>1. /\ Running /\ owner.step = "idle" /\ commands' = Append(commands, c)
        /\ owner' = [owner EXCEPT !.step = "post"]
        /\ UNCHANGED <<messages, inForce, registered, succeeded, recent, tally>>
    BY DEF Drop
  <1>2. commands = <<>> /\ \A i \in 1..Len(messages) : ~ Controls(i)
    BY <1>1 DEF HotkeysInv, Waits
  <1>3. commands' \in Seq({c}) /\ Len(commands') = 1 /\ commands'[1] = c
    <2>1. commands \in Seq({c}) /\ Len(commands) = 0
      BY <1>2, EmptySeq
    <2> QED  BY <1>1, <2>1, AppendProperties
  <1>4. c.kind = "stop"
    OBVIOUS
  <1> HIDE DEF c
  <1>5. /\ DOMAIN owner' = DOMAIN owner /\ owner'.step = "post" /\ owner'.asked = owner.asked
        /\ owner'.thread = owner.thread /\ owner.thread = "running"
    BY <1>1 DEF HotkeysInv, Waits, Running
  <1>6. Waits'
    BY <1>1, <1>2, <1>3, <1>4, <1>5 DEF HotkeysInv, Waits, Controls, Running
  <1> QED  BY <1>1, <1>6, RegistrationKept, AnsweredKept DEF HotkeysInv

LEMMA PostKeeps == ASSUME HotkeysInv, Post  PROVE HotkeysInv'
  <1> DEFINE m == [kind |-> "control"]
             L == Len(messages)
  <1>1. /\ Running /\ owner.step = "post" /\ messages' = Append(messages, m)
        /\ owner' = [owner EXCEPT !.step = "waiting"]
        /\ UNCHANGED <<commands, inForce, registered, succeeded, recent, tally>>
    BY DEF Post, HotkeysInv, Waits
  <1>2. \A i \in 1..L : messages[i].kind # "control"
    BY <1>1 DEF HotkeysInv, Waits, Controls
  <1>3. PICK S : messages \in Seq(S)
    BY DEF HotkeysInv, Waits
  <1>4. /\ messages' \in Seq(S \cup {m}) /\ Len(messages') = L + 1 /\ L \in Nat
        /\ messages'[L + 1] = m /\ \A i \in 1..L : messages'[i] = messages[i]
    <2>1. messages \in Seq(S \cup {m})
      BY <1>3
    <2> QED  BY <1>1, <2>1, AppendProperties, LenProperties
  <1>5. m.kind = "control"
    OBVIOUS
  <1> HIDE DEF m, L
  <1>6. /\ DOMAIN owner' = DOMAIN owner /\ owner'.step = "waiting" /\ owner'.asked = owner.asked
        /\ owner'.thread = owner.thread /\ owner.thread = "running"
    BY <1>1 DEF HotkeysInv, Waits, Running
  <1>7. \E i \in 1..Len(messages') :
            messages'[i].kind = "control"
            /\ \A j \in 1..Len(messages') : messages'[j].kind = "control" => j = i
    <2>1. L + 1 \in 1..Len(messages')
      BY <1>4
    <2>2. \A j \in 1..Len(messages') : j = L + 1 \/ j \in 1..L
      BY <1>4
    <2> QED  BY <1>2, <1>4, <1>5, <2>1, <2>2
  <1>8. Waits'
    BY <1>1, <1>4, <1>6, <1>7 DEF HotkeysInv, Waits, Controls, Running
  <1>9. Answered'
    <2>1. \A j \in 1..Len(messages') : j = L + 1 \/ j \in 1..L
      BY <1>4
    <2>2. ASSUME ~ tally.strayed, NEW j \in 1..Len(messages'), messages'[j].kind = "hotkey"
          PROVE  messages'[j].id \in recent
      BY <1>4, <1>5, <2>1, <2>2 DEF HotkeysInv, Answered, L
    <2> QED  BY <1>1, <2>2 DEF HotkeysInv, Answered
  <1> QED  BY <1>1, <1>8, <1>9, RegistrationKept DEF HotkeysInv

(* Reading a message shortens the queue.                                       *)
LEMMA MessageRead ==
    ASSUME NEW S, messages \in Seq(S), messages # <<>>, messages' = Tail(messages)
    PROVE  /\ messages' \in Seq(S) /\ Head(messages) = messages[1] /\ 1 \in 1..Len(messages)
           /\ \A i \in 1..Len(messages') : i + 1 \in 1..Len(messages) /\ i + 1 # 1
                                           /\ messages'[i] = messages[i + 1]
           /\ \A i \in 1..Len(messages) : i # 1 => i - 1 \in 1..Len(messages')
                                                   /\ messages'[i - 1] = messages[i]
  <1> DEFINE L == Len(messages)
  <1>1. /\ messages' \in Seq(S) /\ Head(messages) = messages[1] /\ L \in Nat /\ L # 0
        /\ Len(messages') = L - 1 /\ \A i \in 1..L - 1 : messages'[i] = messages[i + 1]
    BY HeadTailProperties, LenProperties, EmptySeq
  <1> HIDE DEF L
  <1>2. \A i \in 1..L - 1 : i + 1 \in 1..L /\ i + 1 # 1
    BY <1>1
  <1>3. \A i \in 1..L : i # 1 => i - 1 \in 1..L - 1 /\ (i - 1) + 1 = i
    BY <1>1
  <1>4. 1 \in 1..L
    BY <1>1
  <1> QED  BY <1>1, <1>2, <1>3, <1>4 DEF L

(* Replacing bindings leaves exactly the new ones registered.                  *)
LEMMA ReplacedExactly ==
    ASSUME Registration, NEW set \in Bindings, NEW kept,
           kept = {id \in DOMAIN set \cap DOMAIN inForce : set[id] = inForce[id]},
           registered' = Replaced(set, kept), inForce' = set,
           succeeded' = (succeeded \cap kept) \cup {p[1] : p \in registered' \ registered},
           tally'.refused = (tally.refused \cap kept) \cup Refused(Only(set, DOMAIN set \ kept))
    PROVE  Registration'
  <1> DEFINE fresh == DOMAIN set \ kept
             left == {<<id, set[id]>> : id \in kept \ tally.refused}
             taken == {id \in fresh : set[id] \in foreign}
             granted == {<<id, set[id]>> : id \in fresh \ taken}
  <1>1. \A i, j \in DOMAIN set : set[i] = set[j] => i = j
    BY HotkeysAssumption
  <1>2. {p \in registered : p[1] \in kept \/ p[1] \notin succeeded} = left
    BY DEF Registration
  <1>3. /\ DOMAIN Only(set, fresh) = fresh
        /\ \A id \in fresh : Only(set, fresh)[id] = set[id]
    BY DEF Only
  <1>4. Refused(Only(set, fresh)) = taken
    BY <1>3 DEF Refused
  <1>5. Granted(left, Only(set, fresh)) = granted
    <2>1. {<<id, Only(set, fresh)[id]>> : id \in DOMAIN Only(set, fresh)} = {<<id, set[id]>> : id \in fresh}
      BY <1>3
    <2>2. ASSUME NEW id \in fresh  PROVE \A q \in left : q[2] # set[id]
      BY <1>1
    <2>3. Granted(left, Only(set, fresh)) =
              {p \in {<<id, set[id]>> : id \in fresh} : p[2] \notin foreign /\ \A q \in left : q[2] # p[2]}
      BY <2>1 DEF Granted
    <2> HIDE DEF left
    <2> QED  BY <2>2, <2>3
  <1>6. registered' = left \cup granted
    BY <1>2, <1>5 DEF Replaced
  <1>7. tally'.refused = (tally.refused \cap kept) \cup taken
    BY <1>4
  <1>8. registered' = {<<id, set[id]>> : id \in DOMAIN set \ tally'.refused}
    BY ZenonT(60), <1>6, <1>7
  <1>9. succeeded' = {p[1] : p \in registered'}
    <2>1. ASSUME NEW id \in succeeded \cap kept  PROVE \E p \in registered' : p[1] = id
      <3>1. <<id, set[id]>> \in registered'
        BY <1>6 DEF Registration
      <3> QED  BY <3>1
    <2>2. ASSUME NEW p \in registered', p \in registered  PROVE p[1] \in succeeded \cap kept
      <3>1. PICK id \in DOMAIN set \ tally'.refused : p = <<id, set[id]>>
        BY <1>8
      <3>2. p = <<id, inForce[id]>> /\ id \in DOMAIN inForce
        BY <2>2, <3>1 DEF Registration
      <3>3. set[id] = inForce[id]
        BY <3>1, <3>2
      <3> QED  BY <2>2, <3>1, <3>2, <3>3 DEF Registration
    <2> QED  BY <2>1, <2>2
  <1> QED  BY <1>8, <1>9 DEF Registration

LEMMA ReplaceKeeps == ASSUME HotkeysInv, Replace  PROVE HotkeysInv'
  <1> DEFINE set == Head(commands).set
             kept == {id \in DOMAIN set \cap DOMAIN inForce : set[id] = inForce[id]}
             refused == (tally.refused \cap kept) \cup Refused(Only(set, DOMAIN set \ kept))
  <1>1. /\ Running /\ messages # <<>> /\ messages[1].kind = "control"
        /\ commands # <<>> /\ commands[1].kind = "replace" /\ set = commands[1].set
        /\ registered' = Replaced(set, kept)
        /\ succeeded' = (succeeded \cap kept) \cup {p[1] : p \in registered' \ registered}
        /\ inForce' = set
        /\ commands' = Tail(commands) /\ messages' = Tail(messages)
        /\ owner' = [owner EXCEPT !.step = "idle"] /\ UNCHANGED recent
    <2>1. PICK S, T : messages \in Seq(S) /\ commands \in Seq(T)
      BY DEF HotkeysInv, Waits
    <2>2. messages # <<>> /\ commands # <<>>
      BY DEF Replace
    <2>3. Head(messages) = messages[1] /\ Head(commands) = commands[1]
      BY <2>1, <2>2, HeadTailProperties
    <2> QED  BY <2>3 DEF Replace
  <1>2. tally' = [tally EXCEPT !.refused = refused]
    BY DEF Replace
  <1>3. PICK S : messages \in Seq(S)
    BY DEF HotkeysInv, Waits
  <1>4. PICK T : commands \in Seq(T)
    BY DEF HotkeysInv, Waits
  <1> HIDE DEF set, kept, refused
  <1>5. /\ messages' \in Seq(S) /\ 1 \in 1..Len(messages)
        /\ \A i \in 1..Len(messages') : i + 1 \in 1..Len(messages) /\ i + 1 # 1
                                        /\ messages'[i] = messages[i + 1]
    BY <1>1, <1>3, MessageRead
  <1>6. owner.step = "waiting" /\ \A j \in 1..Len(messages) : messages[j].kind = "control" => j = 1
    BY <1>1, <1>5 DEF HotkeysInv, Waits, Controls
  <1>7. \A i \in 1..Len(messages') : messages'[i].kind # "control"
    BY <1>5, <1>6
  <1>8. set = owner.asked /\ set \in Bindings /\ Len(commands) = 1
    BY <1>1, <1>6 DEF HotkeysInv, Waits
  <1>9. commands' = <<>> /\ commands' \in Seq(T)
    <2>1. Tail(commands) \in Seq(T) /\ Len(Tail(commands)) = Len(commands) - 1
      BY <1>1, <1>4, HeadTailProperties
    <2>2. Len(Tail(commands)) = 0
      BY <1>8, <2>1
    <2> QED  BY <1>1, <2>1, <2>2, EmptySeq
  <1>a. /\ DOMAIN owner' = DOMAIN owner /\ owner'.step = "idle" /\ owner'.asked = owner.asked
        /\ owner'.thread = owner.thread /\ owner.thread = "running"
    BY <1>1 DEF HotkeysInv, Waits, Running
  <1>b. Waits'
    BY <1>1, <1>5, <1>7, <1>8, <1>9, <1>a DEF HotkeysInv, Waits, Controls, Running
  <1>c. /\ DOMAIN tally' = DOMAIN tally /\ tally'.refused = refused /\ tally'.spare = tally.spare
        /\ tally'.ahead = tally.ahead /\ tally'.strayed = tally.strayed
    BY <1>2 DEF HotkeysInv, Answered
  <1>d. Answered'
    BY <1>1, <1>5, <1>c DEF HotkeysInv, Answered
  <1>e. Registration'
    BY <1>1, <1>8, <1>c, ReplacedExactly DEF HotkeysInv, kept, refused
  <1> QED  BY <1>b, <1>d, <1>e DEF HotkeysInv

LEMMA StopKeeps == ASSUME HotkeysInv, Stop  PROVE HotkeysInv'
  <1>1. /\ registered' = {p \in registered : p[1] \notin succeeded} /\ messages # <<>>
        /\ succeeded' = {} /\ inForce' = NoBindings /\ recent' = {} /\ messages' = <<>>
        /\ commands # <<>> /\ commands' = Tail(commands)
        /\ owner' = [owner EXCEPT !.thread = "gone", !.step = "idle"] /\ UNCHANGED tally
    BY DEF Stop
  <1>2. PICK T : commands \in Seq(T)
    BY DEF HotkeysInv, Waits
  <1>3. Len(commands) = 1
    BY <1>1 DEF HotkeysInv, Waits
  <1>4. commands' = <<>> /\ commands' \in Seq(T)
    <2>1. Tail(commands) \in Seq(T) /\ Len(Tail(commands)) = Len(commands) - 1
      BY <1>1, <1>2, HeadTailProperties
    <2>2. Len(Tail(commands)) = 0
      BY <1>3, <2>1
    <2> QED  BY <1>1, <2>1, <2>2, EmptySeq
  <1>5. messages' \in Seq({}) /\ 1..Len(messages') = {}
    BY <1>1, EmptySeq
  <1>6. /\ DOMAIN owner' = DOMAIN owner /\ owner'.step = "idle" /\ owner'.asked = owner.asked
        /\ owner'.thread = "gone"
    BY <1>1 DEF HotkeysInv, Waits
  <1>7. Waits'
    BY <1>1, <1>4, <1>5, <1>6 DEF HotkeysInv, Waits, Controls, Running
  <1>8. Answered'
    BY <1>1, <1>5 DEF HotkeysInv, Answered
  <1>9. Registration'
    <2>1. registered' = {}
      BY <1>1 DEF HotkeysInv, Registration
    <2>2. DOMAIN inForce' = {}
      BY <1>1 DEF NoBindings
    <2> QED  BY <1>1, <2>1, <2>2 DEF Registration
  <1> QED  BY <1>7, <1>8, <1>9 DEF HotkeysInv

(* A message read or put in that is no command.                               *)
LEMMA OtherRead ==
    ASSUME Waits, messages # <<>>, messages[1].kind # "control", messages' = Tail(messages),
           UNCHANGED <<owner, commands, inForce>>
    PROVE  Waits'
  <1>1. PICK S : messages \in Seq(S)
    BY DEF Waits
  <1>2. /\ messages' \in Seq(S)
        /\ \A i \in 1..Len(messages') : i + 1 \in 1..Len(messages) /\ messages'[i] = messages[i + 1]
        /\ \A i \in 1..Len(messages) : i # 1 => i - 1 \in 1..Len(messages')
                                                /\ messages'[i - 1] = messages[i]
    BY <1>1, MessageRead
  <1>3. ASSUME NEW i \in 1..Len(messages), messages[i].kind = "control",
               \A j \in 1..Len(messages) : messages[j].kind = "control" => j = i
        PROVE  \E k \in 1..Len(messages') :
                   messages'[k].kind = "control"
                   /\ \A j \in 1..Len(messages') : messages'[j].kind = "control" => j = k
    <2>1. i - 1 \in 1..Len(messages') /\ messages'[i - 1].kind = "control"
      BY <1>2, <1>3
    <2>2. ASSUME NEW j \in 1..Len(messages'), messages'[j].kind = "control"  PROVE j = i - 1
      <3>1. j + 1 = i
        BY <1>2, <1>3, <2>2
      <3> QED  BY <3>1
    <2> QED  BY <2>1, <2>2
  <1>4. owner.step = "waiting" =>
            \E k \in 1..Len(messages') :
                messages'[k].kind = "control"
                /\ \A j \in 1..Len(messages') : messages'[j].kind = "control" => j = k
    BY <1>3 DEF Waits, Controls
  <1>5. owner.step \in {"idle", "post"} => \A i \in 1..Len(messages') : messages'[i].kind # "control"
    BY <1>2 DEF Waits, Controls
  <1> QED  BY <1>2, <1>4, <1>5 DEF Waits, Controls, Running

LEMMA OtherPut ==
    ASSUME Waits, NEW m, m.kind # "control", messages' = Append(messages, m),
           UNCHANGED <<owner, commands, inForce>>
    PROVE  Waits'
  <1> DEFINE L == Len(messages)
  <1>1. PICK S : messages \in Seq(S)
    BY DEF Waits
  <1>2. /\ messages' \in Seq(S \cup {m}) /\ Len(messages') = L + 1 /\ L \in Nat
        /\ messages'[L + 1] = m /\ \A i \in 1..L : messages'[i] = messages[i]
    <2>1. messages \in Seq(S \cup {m})
      BY <1>1
    <2> QED  BY <2>1, AppendProperties, LenProperties
  <1> HIDE DEF L
  <1>3. \A j \in 1..Len(messages') : j = L + 1 \/ j \in 1..L
    BY <1>2
  <1>4. \A j \in 1..L : j \in 1..Len(messages')
    BY <1>2
  <1>5. owner.step = "waiting" =>
            \E k \in 1..Len(messages') :
                messages'[k].kind = "control"
                /\ \A j \in 1..Len(messages') : messages'[j].kind = "control" => j = k
    <2>1. ASSUME NEW i \in 1..L, messages[i].kind = "control",
                 \A j \in 1..L : messages[j].kind = "control" => j = i
          PROVE  /\ i \in 1..Len(messages') /\ messages'[i].kind = "control"
                 /\ \A j \in 1..Len(messages') : messages'[j].kind = "control" => j = i
      BY <1>2, <1>3, <1>4, <2>1
    <2>2. owner.step = "waiting" =>
              \E i \in 1..L : messages[i].kind = "control"
                              /\ \A j \in 1..L : messages[j].kind = "control" => j = i
      BY DEF Waits, Controls, L
    <2> QED  BY <2>1, <2>2
  <1>6. owner.step \in {"idle", "post"} => \A i \in 1..Len(messages') : messages'[i].kind # "control"
    BY <1>2, <1>3 DEF Waits, Controls, L
  <1> QED  BY <1>2, <1>5, <1>6 DEF Waits, Controls, Running

LEMMA HotkeyMessageKeeps == ASSUME HotkeysInv, HotkeyMessage  PROVE HotkeysInv'
  <1>1. PICK S : messages \in Seq(S)
    BY DEF HotkeysInv, Waits
  <1>2. messages # <<>> /\ Head(messages) = messages[1]
    BY <1>1, HeadTailProperties DEF HotkeyMessage
  <1> DEFINE ids == ToAnswer(messages[1].id)
  <1>3. /\ messages[1].kind = "hotkey" /\ recent' = recent \cup ids
        /\ tally' = [tally EXCEPT !.spare = Minus(@, ids), !.ahead = Plus(@, ids)]
        /\ messages' = Tail(messages)
        /\ UNCHANGED <<owner, commands, inForce, registered, succeeded>>
    BY <1>2 DEF HotkeyMessage
  <1>4. messages[1].kind # "control"
    BY <1>3
  <1>5. Waits'
    BY <1>2, <1>3, <1>4, OtherRead DEF HotkeysInv
  <1>6. /\ 1 \in 1..Len(messages)
        /\ \A i \in 1..Len(messages') : i + 1 \in 1..Len(messages) /\ messages'[i] = messages[i + 1]
    BY <1>1, <1>2, <1>3, MessageRead
  <1>7. ~ tally.strayed => ids = {}
    BY <1>3, <1>6 DEF HotkeysInv, Answered, ToAnswer
  <1> HIDE DEF ids
  <1>8. /\ DOMAIN tally' = DOMAIN tally /\ tally'.refused = tally.refused
        /\ tally'.spare = Minus(tally.spare, ids) /\ tally'.ahead = Plus(tally.ahead, ids)
        /\ tally'.strayed = tally.strayed
    BY <1>3 DEF HotkeysInv, Answered
  <1>9. ASSUME ~ tally.strayed, NEW id \in HotkeyIds
        PROVE  tally'.spare[id] = tally.spare[id] /\ tally'.ahead[id] = tally.ahead[id]
    <2>1. tally.spare[id] \in Nat /\ tally.ahead[id] \in Nat
      BY <1>9 DEF HotkeysInv, Answered
    <2> QED  BY <1>7, <1>8, <1>9, <2>1 DEF Minus, Plus
  <1>a. Answered'
    BY <1>3, <1>6, <1>8, <1>9 DEF HotkeysInv, Answered
  <1> QED  BY <1>3, <1>5, <1>8, <1>a, RegistrationKept DEF HotkeysInv

LEMMA KeyDownKeeps == ASSUME HotkeysInv, NEW key \in Keys, KeyDown(key)  PROVE HotkeysInv'
  <1> DEFINE chord == [ctrl |-> keyboard.ctrl, key |-> key]
             seen == [ctrl |-> keyboard.tracked, key |-> key]
             now == {id \in DOMAIN inForce : inForce[id] = seen} \ recent
             meant == {id \in DOMAIN inForce : inForce[id] = chord}
             ids == {p[1] : p \in {q \in registered : q[2] = chord}}
             i == CHOOSE id \in ids : TRUE
             m == [kind |-> "hotkey", id |-> i]
             L == Len(messages)
  <1>1. /\ recent' = recent \cup now
        /\ tally' = [tally EXCEPT !.spare = Minus(Plus(@, meant), now),
                                  !.ahead = Minus(Plus(@, now), meant \ recent),
                                  !.strayed = @ \/ chord # seen]
        /\ \/ ids # {} /\ messages' = Append(messages, m)
           \/ messages' = messages
        /\ UNCHANGED <<owner, commands, inForce, registered, succeeded>>
    BY DEF KeyDown
  <1>2. ids # {} => i \in meant
    <2>1. ids \subseteq meant
      BY DEF HotkeysInv, Registration
    <2> QED  BY <2>1
  <1>3. m.kind = "hotkey" /\ m.kind # "control" /\ m.id = i
    OBVIOUS
  <1> HIDE DEF i, m, L
  <1>4. chord = seen => now = meant \ recent
    OBVIOUS
  <1> HIDE DEF ids, chord, seen
  <1>5. /\ DOMAIN tally' = DOMAIN tally /\ tally'.refused = tally.refused
        /\ tally'.spare = Minus(Plus(tally.spare, meant), now)
        /\ tally'.ahead = Minus(Plus(tally.ahead, now), meant \ recent)
        /\ tally'.strayed = (tally.strayed \/ chord # seen)
    BY <1>1 DEF HotkeysInv, Answered
  <1> HIDE DEF now, meant
  <1>6. Waits'
    <2>1. CASE messages' = Append(messages, m)
      BY <1>1, <1>3, <2>1, OtherPut DEF HotkeysInv
    <2>2. CASE messages' = messages
      BY <1>1, <2>2, WaitsKept DEF HotkeysInv
    <2> QED  BY <1>1, <2>1, <2>2
  <1>7. ASSUME ~ tally'.strayed  PROVE ~ tally.strayed /\ now = meant \ recent
    BY <1>4, <1>5, <1>7
  <1>8. ASSUME ~ tally'.strayed, NEW id \in HotkeyIds
        PROVE  tally'.spare[id] \in Nat /\ tally'.ahead[id] \in Nat
    <2>1. tally.spare[id] \in Nat /\ tally.ahead[id] \in Nat /\ now = meant \ recent
      BY <1>7, <1>8 DEF HotkeysInv, Answered
    <2>2. Plus(tally.spare, meant)[id] = tally.spare[id] + IF id \in meant THEN 1 ELSE 0
      BY DEF Plus
    <2>3. Plus(tally.ahead, now)[id] = tally.ahead[id] + IF id \in now THEN 1 ELSE 0
      BY DEF Plus
    <2>4. tally'.spare[id] = Plus(tally.spare, meant)[id] - IF id \in now THEN 1 ELSE 0
      BY <1>5 DEF Minus
    <2>5. tally'.ahead[id] = Plus(tally.ahead, now)[id] - IF id \in meant \ recent THEN 1 ELSE 0
      BY <1>5 DEF Minus
    <2>6. tally'.spare[id] \in Nat
      BY <2>1, <2>2, <2>4
    <2>7. tally'.ahead[id] \in Nat
      BY <2>1, <2>3, <2>5
    <2> QED  BY <2>6, <2>7
  <1>9. ASSUME ~ tally'.strayed, NEW j \in 1..Len(messages'), messages'[j].kind = "hotkey"
        PROVE  messages'[j].id \in recent'
    <2>1. CASE messages' = messages
      BY <1>1, <1>7, <1>9, <2>1 DEF HotkeysInv, Answered
    <2>2. CASE ids # {} /\ messages' = Append(messages, m)
      <3>1. PICK S : messages \in Seq(S)
        BY DEF HotkeysInv, Waits
      <3>2. /\ Len(messages') = L + 1 /\ L \in Nat
            /\ messages'[L + 1] = m /\ \A k \in 1..L : messages'[k] = messages[k]
        <4>1. messages \in Seq(S \cup {m})
          BY <3>1
        <4> QED  BY <2>2, <4>1, AppendProperties, LenProperties DEF L
      <3>3. j = L + 1 \/ j \in 1..L
        BY <3>2
      <3>4. CASE j = L + 1
        <4>1. messages'[j].id = i /\ i \in meant
          BY <1>2, <1>3, <2>2, <3>2, <3>4
        <4> QED  BY <1>1, <1>7, <1>9, <4>1
      <3>5. CASE j \in 1..L
        BY <1>1, <1>7, <1>9, <3>2, <3>5 DEF HotkeysInv, Answered, L
      <3> QED  BY <3>3, <3>4, <3>5
    <2> QED  BY <1>1, <2>1, <2>2
  <1>a. Answered'
    BY <1>5, <1>8, <1>9 DEF HotkeysInv, Answered
  <1> QED  BY <1>1, <1>5, <1>6, <1>a, RegistrationKept DEF HotkeysInv

LEMMA SettleKeeps == ASSUME HotkeysInv, Settle  PROVE HotkeysInv'
  <1>1. /\ \A i \in 1..Len(messages) : messages[i].kind # "hotkey"
        /\ UNCHANGED <<owner, commands, messages, inForce, registered, succeeded, tally>>
    BY DEF Settle
  <1>2. Answered'
    BY <1>1 DEF HotkeysInv, Answered
  <1> QED  BY <1>1, <1>2, RegistrationKept, WaitsKept DEF HotkeysInv

LEMMA OthersKeep ==
    ASSUME HotkeysInv,
           UNCHANGED <<owner, commands, messages, inForce, registered, succeeded, recent, tally>>
    PROVE  HotkeysInv'
  BY RegistrationKept, WaitsKept, AnsweredKept DEF HotkeysInv

LEMMA HotkeysInitially == HotkeysInit => HotkeysInv
  <1> SUFFICES ASSUME HotkeysInit  PROVE HotkeysInv
    OBVIOUS
  <1>1. /\ owner = [thread |-> "none", step |-> "idle", asked |-> NoBindings]
        /\ commands = <<>> /\ messages = <<>> /\ inForce = NoBindings /\ registered = {}
        /\ succeeded = {}
        /\ tally = [spare |-> [id \in HotkeyIds |-> 0], ahead |-> [id \in HotkeyIds |-> 0],
                    refused |-> {}, strayed |-> FALSE]
    BY DEF HotkeysInit
  <1>2. Registration
    BY <1>1 DEF Registration, NoBindings
  <1>3. messages \in Seq({}) /\ commands \in Seq({}) /\ 1..Len(messages) = {}
    BY <1>1, EmptySeq
  <1>4. Waits
    BY <1>1, <1>3 DEF Waits, Running
  <1>5. Answered
    BY <1>1, <1>3 DEF Answered
  <1> QED  BY <1>2, <1>4, <1>5 DEF HotkeysInv

LEMMA HotkeysStepKeeps == HotkeysInv /\ [HotkeysNext]_hotkeysVars => HotkeysInv'
  <1> SUFFICES ASSUME HotkeysInv, [HotkeysNext]_hotkeysVars  PROVE HotkeysInv'
    OBVIOUS
  <1>1. CASE DrainHotkeys \/ CtrlMoves \/ KeyUp \/ OthersMove \/ UNCHANGED hotkeysVars
    <2>1. UNCHANGED <<owner, commands, messages, inForce, registered, succeeded, recent, tally>>
      BY <1>1 DEF DrainHotkeys, CtrlMoves, KeyUp, OthersMove, hotkeysVars
    <2> QED  BY <2>1, OthersKeep
  <1>2. ASSUME NEW set \in Bindings, Ask(set)  PROVE HotkeysInv'
    BY <1>2, AskKeeps
  <1>3. ASSUME NEW key \in Keys, KeyDown(key)  PROVE HotkeysInv'
    BY <1>3, KeyDownKeeps
  <1> QED
    BY <1>1, <1>2, <1>3, StartKeeps, DropKeeps, PostKeeps, ReplaceKeeps, StopKeeps,
       HotkeyMessageKeeps, SettleKeeps
    DEF HotkeysNext

(* Whatever is pressed, replaced, missed by the hook or taken by another        *)
(* application, the system has registered exactly the bindings in force that   *)
(* it granted, the owner gets what it asked for, and as long as the hook knows *)
(* the modifiers every press is answered once.                                *)
THEOREM HotkeysAlwaysSound == HotkeysSpec => []HotkeysSound
  <1>1. HotkeysInit => HotkeysInv
    BY HotkeysInitially
  <1>2. HotkeysInv /\ [HotkeysNext]_hotkeysVars => HotkeysInv'
    BY HotkeysStepKeeps
  <1>3. HotkeysInv => HotkeysSound
    BY HotkeysInvSound
  <1> QED  BY <1>1, <1>2, <1>3, PTL DEF HotkeysSpec

-----------------------------------------------------------------------------
(* The planner of an export: for every request, ladder and width of its       *)
(* integers, a plan keeps to its target, and a refusal has a reason.          *)

(* Rounding up: less than one too much, and no more than what is divided.      *)
LEMMA CeilBounds ==
    ASSUME NEW a \in Nat, NEW d \in Nat \ {0}
    PROVE  /\ CeilDiv(a, d) \in Nat /\ CeilDiv(a, d) <= a
           /\ a <= CeilDiv(a, d) * d /\ CeilDiv(a, d) * d < a + d
<1>. DEFINE q == a \div d
<1>1. q \in Nat /\ a = q * d + (a % d) /\ a % d \in 0..d - 1
  OBVIOUS
<1>2. q <= q * d
  BY <1>1
<1>3. CASE a % d = 0
  BY <1>1, <1>2, <1>3 DEF CeilDiv
<1>4. CASE a % d # 0
  <2>1. CeilDiv(a, d) = q + 1
    BY <1>4 DEF CeilDiv
  <2>2. (q + 1) * d = q * d + d
    BY <1>1
  <2>. QED BY <1>1, <1>2, <1>4, <2>1, <2>2
<1>. QED BY <1>3, <1>4

(* Rounding down.                                                              *)
LEMMA FloorBounds ==
    ASSUME NEW a \in Nat, NEW d \in Nat \ {0}
    PROVE  a \div d \in Nat /\ (a \div d) * d <= a /\ a < (a \div d + 1) * d
OBVIOUS

LEMMA TimesMonotone ==
    ASSUME NEW x \in Int, NEW y \in Int, x <= y, NEW k \in Nat
    PROVE  x * k <= y * k /\ k * x <= k * y
OBVIOUS

(* The use of a bitrate against the target, over the roundings: what is left   *)
(* of the target after the rounded reserve and audio bounds what it may cost,  *)
(* and costing more than is left is less than two bytes from the target.       *)
LEMMA BudgetBounds ==
    ASSUME NEW t \in Nat, NEW p \in Nat, NEW w \in Nat \ {0}, NEW f \in Nat, NEW a \in Nat,
           NEW b \in Nat \ {0}, NEW m \in Nat \ {0}, NEW cost \in Nat, NEW rb \in Nat, NEW ab \in Nat,
           t * p <= rb * w, rb * w < t * p + w, a <= ab * (b * m), ab * (b * m) < a + b * m,
           NEW v \in Int, v = t - (rb + f) - ab
    PROVE  /\ cost <= v * b * m => t * p * b * m + w * (f * b * m + a + cost) <= t * w * b * m
           /\ cost > v * b * m =>
                t * p * b * m + w * (f * b * m + a + cost) > t * w * b * m - 2 * w * b * m
<1>. DEFINE d == b * m
            u == w * d
            full == (rb * w) * d + w * (f * d + ab * d + v * d)
<1>1. d \in Nat \ {0} /\ u \in Nat \ {0}
  OBVIOUS
<1>2. full = (rb + f + ab + v) * u
  OBVIOUS
<1>3. rb + f + ab + v = t
  OBVIOUS
<1>4. full = t * w * b * m
  BY <1>2, <1>3
<1>5. t * p * b * m = (t * p) * d /\ f * b * m = f * d /\ v * b * m = v * d
  OBVIOUS
<1>6. ASSUME cost <= v * d
      PROVE  (t * p) * d + w * (f * d + a + cost) <= full
  <2>1. (t * p) * d <= (rb * w) * d
    BY <1>1, TimesMonotone
  <2>2. f * d + a + cost <= f * d + ab * d + v * d
    BY <1>1, <1>6
  <2>3. w * (f * d + a + cost) <= w * (f * d + ab * d + v * d)
    BY <1>1, <2>2, TimesMonotone
  <2>. QED BY <1>1, <2>1, <2>3
<1>7. ASSUME cost > v * d
      PROVE  (t * p) * d + w * (f * d + a + cost) > full - 2 * u
  <2>1. (rb * w - w) * d < (t * p) * d
    <3>1. (rb * w - w + 1) * d <= (t * p) * d
      BY <1>1, TimesMonotone
    <3>2. (rb * w - w + 1) * d = (rb * w - w) * d + d
      BY <1>1
    <3>. QED BY <1>1, <3>1, <3>2
  <2>2. f * d + ab * d + v * d - d <= f * d + a + cost
    BY <1>1, <1>7
  <2>3. w * (f * d + ab * d + v * d - d) <= w * (f * d + a + cost)
    BY <1>1, <2>2, TimesMonotone
  <2>4. w * (f * d + ab * d + v * d - d) = w * (f * d + ab * d + v * d) - u
    BY <1>1
  <2>5. (rb * w - w) * d = (rb * w) * d - u
    BY <1>1
  <2>. QED BY <1>1, <2>1, <2>3, <2>4, <2>5
<1>8. 2 * w * b * m = 2 * u
  OBVIOUS
<1>. QED BY <1>4, <1>5, <1>6, <1>7, <1>8

-----------------------------------------------------------------------------
(* What a request is made of.                                                 *)
LEMMA RequestTypes ==
    ASSUME NEW r \in Requests
    PROVE  \A f \in {"target", "duration", "audio", "tracks", "part", "whole", "fixed", "floor"} :
               r[f] \in Nat /\ r[f] <= Narrow
BY SMTT(30), PlanAssumption

LEMMA PlannedSizes ==
    ASSUME NEW r \in Requests, WellFormed(r)
    PROVE  /\ RatioBytes(r) \in Nat /\ RatioBytes(r) <= r.target * r.part
           /\ r.target * r.part <= RatioBytes(r) * r.whole
           /\ RatioBytes(r) * r.whole < r.target * r.part + r.whole
           /\ r.audio * r.duration * r.tracks \in Nat
           /\ AudioBytes(r) \in Nat
           /\ r.audio * r.duration * r.tracks <= AudioBytes(r) * (Bits * Micros)
           /\ AudioBytes(r) * (Bits * Micros) < r.audio * r.duration * r.tracks + Bits * Micros
           /\ Reserved(r) = RatioBytes(r) + r.fixed /\ VideoBudget(r) \in Int
<1>1. r.target \in Nat /\ r.part \in Nat /\ r.fixed \in Nat /\ r.whole \in Nat \ {0}
  BY RequestTypes DEF WellFormed
<1>2. r.audio \in Nat /\ r.duration \in Nat /\ r.tracks \in Nat
  BY RequestTypes
<1>3. Bits * Micros \in Nat \ {0}
  BY PlanAssumption
<1>4. r.target * r.part \in Nat /\ r.audio * r.duration * r.tracks \in Nat
  BY <1>1, <1>2
<1>5. /\ RatioBytes(r) \in Nat /\ RatioBytes(r) <= r.target * r.part
      /\ r.target * r.part <= RatioBytes(r) * r.whole
      /\ RatioBytes(r) * r.whole < r.target * r.part + r.whole
  BY <1>1, <1>4, CeilBounds DEF RatioBytes
<1>6. /\ AudioBytes(r) \in Nat
      /\ r.audio * r.duration * r.tracks <= AudioBytes(r) * (Bits * Micros)
      /\ AudioBytes(r) * (Bits * Micros) < r.audio * r.duration * r.tracks + Bits * Micros
  BY <1>3, <1>4, CeilBounds DEF AudioBytes
<1>7. VideoBudget(r) \in Int
  BY <1>1, <1>5, <1>6 DEF VideoBudget, Reserved
<1>. QED BY <1>4, <1>5, <1>6, <1>7 DEF Reserved

(* A bitrate within the budget of the video fits, one beyond it does not with a *)
(* byte to spare for each rounding.                                            *)
LEMMA UsesBounds ==
    ASSUME NEW r \in Requests, WellFormed(r), NEW bitrate \in Nat
    PROVE  /\ bitrate * r.duration <= VideoBudget(r) * Bits * Micros => Fits(r, bitrate)
           /\ bitrate * r.duration > VideoBudget(r) * Bits * Micros =>
                Uses(r, bitrate) > Full(r) - Slack(r)
<1>1. /\ r.target \in Nat /\ r.part \in Nat /\ r.fixed \in Nat /\ r.whole \in Nat \ {0}
      /\ bitrate * r.duration \in Nat
  BY RequestTypes DEF WellFormed
<1>2. Bits \in Nat \ {0} /\ Micros \in Nat \ {0}
  BY PlanAssumption
<1>. DEFINE t == r.target
            p == r.part
            w == r.whole
            f == r.fixed
            a == r.audio * r.duration * r.tracks
            rb == RatioBytes(r)
            ab == AudioBytes(r)
            v == VideoBudget(r)
            cost == bitrate * r.duration
<1>3. v = t - (rb + f) - ab
  BY PlannedSizes DEF VideoBudget
<1>4. /\ rb \in Nat /\ ab \in Nat /\ a \in Nat /\ v \in Int
      /\ t * p <= rb * w /\ rb * w < t * p + w
      /\ a <= ab * (Bits * Micros) /\ ab * (Bits * Micros) < a + Bits * Micros
  BY PlannedSizes
<1>5. /\ cost <= v * Bits * Micros =>
            t * p * Bits * Micros + w * (f * Bits * Micros + a + cost) <= t * w * Bits * Micros
      /\ cost > v * Bits * Micros =>
            t * p * Bits * Micros + w * (f * Bits * Micros + a + cost)
                > t * w * Bits * Micros - 2 * w * Bits * Micros
  <2>. HIDE DEF t, p, w, f, a, rb, ab, v, cost
  <2>1. t \in Nat /\ p \in Nat /\ f \in Nat /\ w \in Nat \ {0} /\ cost \in Nat
    BY <1>1 DEF t, p, w, f, cost
  <2>. QED BY <1>2, <1>3, <1>4, <2>1, BudgetBounds
<1>. QED BY <1>5 DEF Fits, Uses, Full, Slack

-----------------------------------------------------------------------------
(* The rung of a plan is one of the ladder and makes nothing larger.           *)
LEMMA RungSelected ==
    ASSUME NEW r \in Requests, Selectable(r.source) # {}
    PROVE  NoUpscale(SelectRung(r.source), r.source)
<1>. DEFINE S == Selectable(r.source)
<1>1. S \subseteq Nat /\ S # {} /\ \A i \in S : NoUpscale(Ladder[i], r.source)
  BY DEF Selectable
<1>. DEFINE Below == {ss \in Nat \X Nat : ss[1] < ss[2]}
<1>2. IsWellFoundedOn(Below, Nat)
  BY NatLessThanWellFounded DEF OpToRel
<1>3. PICK i \in S : \A j \in S : ~ (<<j, i>> \in Below)
  <2>. HIDE DEF Below, S
  <2>. QED BY <1>1, <1>2, WFMin
<1>4. \A j \in S : i <= j
  <2>. SUFFICES ASSUME NEW j \in S PROVE i <= j
    OBVIOUS
  <2>1. i \in Nat /\ j \in Nat
    BY <1>1
  <2>2. ~ (<<j, i>> \in Below)
    BY <1>3
  <2>. HIDE DEF S
  <2>. QED BY <2>1, <2>2
<1>. DEFINE k == CHOOSE n \in S : \A j \in S : n <= j
<1>5. k \in S
  BY <1>4
<1>6. SelectRung(r.source) = Ladder[k]
  BY DEF SelectRung
<1>. QED BY <1>1, <1>5, <1>6

(* A plan that is made.                                                        *)
LEMMA FeasibleFits ==
    ASSUME NEW r \in Requests, Feasible(r)
    PROVE  /\ Reserved(r) \in 0..Narrow /\ AudioBytes(r) \in 0..Narrow
           /\ VideoBudget(r) \in 0..Narrow /\ VideoBitrate(r) \in 0..Narrow
           /\ Fits(r, VideoBitrate(r))
           /\ Uses(r, VideoBitrate(r) + 1) > Full(r) - Slack(r)
           /\ VideoBitrate(r) >= r.floor /\ VideoBitrate(r) > 0
           /\ NoUpscale(SelectRung(r.source), r.source)
<1>1. WellFormed(r) /\ Affordable(r) /\ Watchable(r)
  BY DEF Feasible
<1>2. r.duration \in Nat \ {0} /\ r.floor \in Nat
      /\ r.target \in Nat /\ r.target <= Narrow /\ r.fixed \in Nat /\ Narrow \in Nat
  BY <1>1, RequestTypes, PlanAssumption DEF WellFormed
<1>3. /\ RatioBytes(r) \in Nat /\ AudioBytes(r) \in Nat
      /\ Reserved(r) = RatioBytes(r) + r.fixed /\ VideoBudget(r) \in Int
  BY <1>1, PlannedSizes
<1>4. /\ Reserved(r) \in Nat /\ Reserved(r) <= r.target
      /\ AudioBytes(r) <= r.target - Reserved(r)
      /\ VideoBudget(r) = r.target - Reserved(r) - AudioBytes(r)
  BY <1>1, <1>2, <1>3 DEF Affordable, VideoBudget
<1>5. VideoBudget(r) \in Nat /\ VideoBudget(r) <= Narrow /\ Reserved(r) <= Narrow /\ AudioBytes(r) <= Narrow
  BY <1>2, <1>3, <1>4
<1>6. VideoBudget(r) * Bits * Micros \in Nat
  <2>1. Bits \in Nat /\ Micros \in Nat
    BY PlanAssumption
  <2>. QED BY <1>5, <2>1
<1>7. /\ VideoBitrate(r) \in Nat
      /\ VideoBitrate(r) * r.duration <= VideoBudget(r) * Bits * Micros
      /\ (VideoBitrate(r) + 1) * r.duration > VideoBudget(r) * Bits * Micros
  BY <1>2, <1>6, FloorBounds DEF VideoBitrate
<1>8. Fits(r, VideoBitrate(r))
  BY <1>1, <1>7, UsesBounds
<1>9. Uses(r, VideoBitrate(r) + 1) > Full(r) - Slack(r)
  <2>1. VideoBitrate(r) + 1 \in Nat
    BY <1>7
  <2>. QED BY <1>1, <1>7, <2>1, UsesBounds
<1>10. /\ VideoBitrate(r) <= Narrow /\ VideoBitrate(r) >= r.floor /\ VideoBitrate(r) > 0
       /\ Selectable(r.source) # {}
  BY <1>1, <1>7 DEF Watchable
<1>11. NoUpscale(SelectRung(r.source), r.source)
  BY <1>10, RungSelected
<1>. QED BY <1>2, <1>3, <1>4, <1>5, <1>7, <1>8, <1>9, <1>10, <1>11

(* A request that cannot be planned, by what is found wanting.                 *)
LEMMA UsesAtLeast ==
    ASSUME NEW r \in Requests, WellFormed(r)
    PROVE  /\ Uses(r, 0) \in Nat
           /\ Uses(r, 0) >= r.target * r.part /\ Uses(r, 0) >= Reserved(r)
           /\ Uses(r, 0) >= r.audio * r.duration * r.tracks
<1>1. /\ r.target * r.part \in Nat /\ r.fixed \in Nat /\ r.whole \in Nat \ {0} /\ r.duration \in Nat
      /\ r.target \in Nat /\ r.part \in Nat
  BY RequestTypes DEF WellFormed
<1>2. Bits \in Nat \ {0} /\ Micros \in Nat \ {0}
  BY PlanAssumption
<1>3. /\ RatioBytes(r) \in Nat /\ RatioBytes(r) <= r.target * r.part
      /\ r.audio * r.duration * r.tracks \in Nat /\ Reserved(r) = RatioBytes(r) + r.fixed
  BY PlannedSizes
<1>. DEFINE tp == r.target * r.part
            f == r.fixed
            w == r.whole
            a == r.audio * r.duration * r.tracks
            d == Bits * Micros
<1>4. d \in Nat \ {0}
  BY <1>2
<1>5. Uses(r, 0) = tp * d + w * (f * d + a)
  BY <1>1, <1>2, <1>3 DEF Uses
<1>6. tp \in Nat /\ f \in Nat /\ w \in Nat \ {0} /\ a \in Nat
  BY <1>1, <1>3
<1>7. /\ tp * d + w * (f * d + a) \in Nat
      /\ tp * d + w * (f * d + a) >= tp + f /\ tp * d + w * (f * d + a) >= a
  <2>. HIDE DEF tp, f, w, a, d
  <2>1. tp * d \in Nat /\ tp * d >= tp /\ f * d \in Nat /\ f * d >= f
    BY <1>4, <1>6
  <2>2. w * (f * d + a) \in Nat /\ w * (f * d + a) >= f * d + a
    BY <1>6, <2>1
  <2>. QED BY <1>6, <2>1, <2>2
<1>. QED BY <1>3, <1>5, <1>6, <1>7

(* Why the budget of the video is not there.                                   *)
LEMMA Unaffordable ==
    ASSUME NEW r \in Requests, WellFormed(r), ~ Affordable(r)
    PROVE  \/ Uses(r, 0) > Wide \/ VideoBudget(r) * Bits * Micros > Wide \/ VideoBudget(r) < 0
<1>1. /\ r.target \in Nat /\ r.fixed \in Nat /\ r.audio \in Nat /\ r.duration \in Nat
      /\ r.audio <= Narrow /\ r.duration <= Narrow
  BY RequestTypes
<1>2. Bits \in Nat \ {0} /\ Micros \in Nat \ {0} /\ Narrow \in Nat /\ Wide \in Nat
      /\ Narrow * Narrow <= Wide
  BY PlanAssumption
<1>3. /\ RatioBytes(r) \in Nat /\ AudioBytes(r) \in Nat /\ Reserved(r) = RatioBytes(r) + r.fixed
      /\ VideoBudget(r) \in Int /\ r.audio * r.duration * r.tracks \in Nat
  BY PlannedSizes
<1>4. r.audio * r.duration <= Wide
  <2>1. r.audio * r.duration <= Narrow * r.duration
    BY <1>1, <1>2, TimesMonotone
  <2>2. Narrow * r.duration <= Narrow * Narrow
    BY <1>1, <1>2, TimesMonotone
  <2>3. r.audio * r.duration \in Nat /\ Narrow * r.duration \in Nat /\ Narrow * Narrow \in Nat
    BY <1>1, <1>2
  <2>. QED BY <1>2, <2>1, <2>2, <2>3
<1>5. CASE r.target * r.part > Wide \/ Reserved(r) > Wide \/ r.audio * r.duration * r.tracks > Wide
  <2>1. /\ Uses(r, 0) \in Nat /\ Uses(r, 0) >= r.target * r.part /\ Uses(r, 0) >= Reserved(r)
        /\ Uses(r, 0) >= r.audio * r.duration * r.tracks
    BY UsesAtLeast
  <2>2. r.target * r.part \in Nat /\ Reserved(r) \in Nat
    BY <1>1, <1>3, RequestTypes
  <2>. QED BY <1>2, <1>3, <1>5, <2>1, <2>2
<1>6. CASE Reserved(r) > r.target \/ AudioBytes(r) > r.target - Reserved(r)
  BY <1>1, <1>3, <1>6 DEF VideoBudget
<1>7. CASE VideoBudget(r) * Bits > Wide
  <2>1. VideoBudget(r) * Bits \in Int
    BY <1>2, <1>3
  <2>2. (VideoBudget(r) * Bits) * Micros >= VideoBudget(r) * Bits
    BY <1>2, <1>7, <2>1
  <2>3. (VideoBudget(r) * Bits) * Micros \in Int
    BY <1>2, <2>1
  <2>. QED BY <1>2, <1>7, <2>1, <2>2, <2>3
<1>8. CASE VideoBudget(r) * Bits * Micros > Wide
  BY <1>8
<1>9. r.target * r.part \in Nat /\ Reserved(r) \in Nat /\ VideoBudget(r) * Bits \in Int
      /\ VideoBudget(r) * Bits * Micros \in Int
  BY <1>1, <1>2, <1>3, RequestTypes
<1>. QED BY <1>1, <1>2, <1>3, <1>4, <1>5, <1>6, <1>7, <1>8, <1>9 DEF Affordable

LEMMA RefusalReason ==
    ASSUME NEW r \in Requests, WellFormed(r), ~ Feasible(r), Selectable(r.source) # {}
    PROVE  \/ Uses(r, 0) > Wide \/ VideoBudget(r) * Bits * Micros > Wide
           \/ VideoBitrate(r) > Narrow
           \/ \A bitrate \in 1..Narrow :
                bitrate >= r.floor => Uses(r, bitrate) > Full(r) - Slack(r)
<1>1. r.duration \in Nat \ {0} /\ r.floor \in Nat /\ Narrow \in Nat
  BY RequestTypes, PlanAssumption DEF WellFormed
<1>2. VideoBudget(r) \in Int /\ Bits \in Nat \ {0} /\ Micros \in Nat \ {0}
  BY PlannedSizes, PlanAssumption
<1>3. CASE VideoBudget(r) < 0
  <2>. SUFFICES ASSUME NEW bitrate \in 1..Narrow
                PROVE  Uses(r, bitrate) > Full(r) - Slack(r)
    OBVIOUS
  <2>1. bitrate \in Nat /\ bitrate * r.duration \in Nat
    BY <1>1
  <2>2. VideoBudget(r) * Bits * Micros < 0
    <3>1. VideoBudget(r) * Bits < 0 /\ VideoBudget(r) * Bits \in Int
      BY <1>2, <1>3
    <3>. QED BY <1>2, <3>1
  <2>3. VideoBudget(r) * Bits * Micros \in Int
    BY <1>2
  <2>4. bitrate * r.duration > VideoBudget(r) * Bits * Micros
    BY <2>1, <2>2, <2>3
  <2>. QED BY <2>1, <2>4, UsesBounds
<1>4. CASE ~ Affordable(r)
  BY <1>3, <1>4, Unaffordable
<1>5. CASE ~ (VideoBudget(r) < 0) /\ ~ Watchable(r)
  <2>1. VideoBudget(r) * Bits * Micros \in Nat
    <3>1. VideoBudget(r) * Bits \in Nat
      BY <1>2, <1>5
    <3>. QED BY <1>2, <3>1
  <2>2. /\ VideoBitrate(r) \in Nat
        /\ (VideoBitrate(r) + 1) * r.duration > VideoBudget(r) * Bits * Micros
    BY <1>1, <2>1, FloorBounds DEF VideoBitrate
  <2>3. CASE VideoBitrate(r) > Narrow
    BY <2>3
  <2>4. CASE VideoBitrate(r) = 0 \/ VideoBitrate(r) < r.floor
    <3>. SUFFICES ASSUME NEW bitrate \in 1..Narrow, bitrate >= r.floor
                  PROVE  Uses(r, bitrate) > Full(r) - Slack(r)
      OBVIOUS
    <3>1. bitrate \in Nat /\ VideoBitrate(r) + 1 \in Nat /\ VideoBitrate(r) + 1 <= bitrate
      BY <1>1, <2>2, <2>4
    <3>2. (VideoBitrate(r) + 1) * r.duration <= bitrate * r.duration
      BY <1>1, <3>1, TimesMonotone
    <3>3. (VideoBitrate(r) + 1) * r.duration \in Nat /\ bitrate * r.duration \in Nat
      BY <1>1, <3>1
    <3>4. bitrate * r.duration > VideoBudget(r) * Bits * Micros
      BY <2>1, <2>2, <3>2, <3>3
    <3>. QED BY <3>1, <3>4, UsesBounds
  <2>. QED BY <1>1, <1>5, <2>2, <2>3, <2>4 DEF Watchable
<1>. QED BY <1>3, <1>4, <1>5 DEF Feasible

-----------------------------------------------------------------------------
(* The one step of the planner.                                               *)
Decided ==
    /\ request \in Requests
    /\ \/ plan = Unplanned
       \/ plan = NoPlan /\ ~ Feasible(request)
       \/ plan = Planned(request) /\ Feasible(request)

LEMMA AlwaysDecided == PlanSpec => []Decided
<1>1. PlanInit => Decided
  BY DEF PlanInit, Decided
<1>2. Decided /\ [MakePlan]_planVars => Decided'
  <2>. SUFFICES ASSUME Decided, [MakePlan]_planVars PROVE Decided'
    OBVIOUS
  <2>1. CASE UNCHANGED planVars
    BY <2>1 DEF Decided, planVars, Unplanned, NoPlan, Feasible, Planned
  <2>2. CASE MakePlan
    BY <2>2 DEF Decided, MakePlan
  <2>. QED BY <2>1, <2>2
<1>. QED BY <1>1, <1>2, PTL DEF PlanSpec

LEMMA DecidedTypes == Decided => PlanTypeOK
<1>. SUFFICES ASSUME Decided, plan.made
              PROVE  \A f \in {"reserve", "audio", "video", "bitrate"} : plan[f] \in 0..Narrow
  BY DEF PlanTypeOK, Decided
<1>1. plan = Planned(request) /\ Feasible(request) /\ request \in Requests
  BY DEF Decided, Unplanned, NoPlan
<1>. QED BY <1>1, FeasibleFits DEF Planned

LEMMA DecidedFits == Decided => PlanFits
<1>. SUFFICES ASSUME Decided PROVE PlanKeeps /\ RefusedRightly
  BY DEF PlanFits
<1>1. PlanKeeps
  <2>. SUFFICES ASSUME plan.made
                PROVE  /\ Fits(request, plan.bitrate)
                       /\ Uses(request, plan.bitrate + 1) > Full(request) - Slack(request)
                       /\ plan.bitrate >= request.floor /\ plan.bitrate > 0
                       /\ NoUpscale(plan.rung, request.source)
    BY DEF PlanKeeps
  <2>1. plan = Planned(request) /\ Feasible(request) /\ request \in Requests
    BY DEF Decided, Unplanned, NoPlan
  <2>2. plan.bitrate = VideoBitrate(request) /\ plan.rung = SelectRung(request.source)
    BY <2>1 DEF Planned
  <2>. QED BY <2>1, <2>2, FeasibleFits
<1>2. RefusedRightly
  <2>. SUFFICES ASSUME plan.refused, WellFormed(request), Selectable(request.source) # {}
                PROVE  \/ Uses(request, 0) > Wide
                       \/ VideoBudget(request) * Bits * Micros > Wide
                       \/ VideoBitrate(request) > Narrow
                       \/ \A bitrate \in 1..Narrow :
                            bitrate >= request.floor =>
                                Uses(request, bitrate) > Full(request) - Slack(request)
    BY DEF RefusedRightly
  <2>1. ~ Feasible(request) /\ request \in Requests
    BY DEF Decided, Unplanned, Planned
  <2>. QED BY <2>1, RefusalReason
<1>. QED BY <1>1, <1>2

(* What a plan holds fits the integers it is returned in, for every width.     *)
THEOREM PlanTypeCorrect == PlanSpec => []PlanTypeOK
BY AlwaysDecided, DecidedTypes, PTL

(* Whatever is asked for, a plan keeps to its target and wastes no more than    *)
(* its roundings, and a refusal has one of the four reasons.                    *)
THEOREM PlanAlwaysFits == PlanSpec => []PlanFits
BY AlwaysDecided, DecidedFits, PTL
=============================================================================
