--------------------------- MODULE ShellSettings ---------------------------
(* A change of settings in the desktop shell: one command of the UI thread    *)
(* moves the hotkeys, the recorder, the clip library and the settings file    *)
(* from one document to the next, one after the other, and takes back what it *)
(* did when one of them refuses. The clip library works under it, and the     *)
(* process may die between any two steps. Commands of the UI run one at a     *)
(* time, so a library request and a change of settings never overlap; the     *)
(* save worker publishes clips at any time, where the recorder sends them.    *)
EXTENDS ClipLibrary

CONSTANTS
    Documents,          \* settings: a directory, a quota and the hotkeys
    DefaultDocument,    \* what a process without a readable file starts with
    NoManager,          \* the hotkey thread could not be started
    NoFile              \* no settings were ever saved

ASSUME SettingsAssumption ==
    /\ \A doc \in Documents : doc.dir \in Dirs /\ doc.quota \in Quotas /\ doc.keys # NoManager
    /\ DefaultDocument \in Documents
    /\ NoFile \notin Documents

VARIABLES
    stored,     \* the document the shell answers with (ShellState.settings)
    recorder,   \* the document the controller works by
    bound,      \* the hotkeys in force
    config,     \* the settings file
    change,     \* the change of settings under way
    torn        \* parts that could not be taken back or read (history)

libraryState ==
    <<files, staged, rows, catalog, outputDir, quota, job, blame, pinned, unsure>>
shellOwn == <<stored, recorder, bound, config, change, torn>>
shellVars == <<libraryVars, shellOwn>>

Steady == [step |-> "idle"]
LibraryUp == job # Down

ShellInit ==
    /\ LibraryInit
    /\ outputDir = DefaultDocument.dir /\ quota = DefaultDocument.quota
    /\ stored = DefaultDocument /\ recorder = DefaultDocument
    /\ bound = DefaultDocument.keys
    /\ config = NoFile
    /\ change = Steady
    /\ torn = {}

Goto(step) == change' = [change EXCEPT !.step = step]

--------------------------------------------------------------------------------
(* Forward: hotkeys, recorder, directory, quota, file, and only then memory.  *)
ApplyBindings(next) ==
    /\ Sound
    /\ change.step = "idle" /\ job.step \in {"idle", "down"}
    /\ bound' = next.keys
    /\ change' = [step |-> "recorder", next |-> next, created |-> bound = NoManager]
    /\ UNCHANGED <<libraryState, stored, recorder, config, torn>>

UpdateRecorder ==
    /\ change.step = "recorder"
    /\ \/ recorder' = change.next /\ Goto("directory") /\ Sound
       \/ UNCHANGED recorder /\ Goto("undo_keys") /\ Fault
    /\ UNCHANGED <<libraryState, stored, bound, config, torn>>

(* A library that is not there takes any directory and refuses any policy.    *)
ChangeDirectory(d) ==
    /\ IF LibraryUp THEN SetOutputDirectory(d) ELSE UNCHANGED libraryVars
    /\ UNCHANGED <<stored, recorder, bound, config, torn>>

UpdateDirectory ==
    /\ change.step = "directory"
    /\ ChangeDirectory(change.next.dir)
    /\ Goto("policy")

ChangePolicy(q) ==
    /\ IF LibraryUp THEN SetStoragePolicy(q) ELSE UNCHANGED libraryVars
    /\ UNCHANGED <<stored, recorder, bound, config, torn>>

UpdatePolicy ==
    /\ change.step = "policy"
    /\ ChangePolicy(change.next.quota)
    /\ Goto(IF LibraryUp THEN "persist" ELSE "undo_directory")

Persist ==
    /\ change.step = "persist"
    /\ \/ config' = change.next /\ Goto("adopt") /\ Sound
       \/ UNCHANGED config /\ Goto("undo_directory") /\ Fault
    /\ UNCHANGED <<libraryState, stored, recorder, bound, torn>>

Adopt ==
    /\ Sound
    /\ change.step = "adopt"
    /\ stored' = change.next
    /\ change' = Steady
    /\ torn' = {}
    /\ UNCHANGED <<libraryState, recorder, bound, config>>

--------------------------------------------------------------------------------
(* Back: library, recorder, hotkeys; a step that fails does not stop the rest. *)
UndoDirectory ==
    /\ change.step = "undo_directory"
    /\ ChangeDirectory(stored.dir)
    /\ Goto("undo_policy")

ForgetPolicy ==
    /\ change.step = "undo_policy"
    /\ UNCHANGED <<libraryVars, stored, recorder, bound, config, torn>>
    /\ Goto("undo_recorder")
UndoPolicy ==
    /\ change.step = "undo_policy"
    /\ ChangePolicy(stored.quota)
    /\ Goto("undo_recorder")

UndoRecorder ==
    /\ change.step = "undo_recorder"
    /\ Goto("undo_keys")
    /\ \/ recorder' = stored /\ UNCHANGED torn /\ Sound
       \/ torn' = torn \cup {"recorder"} /\ UNCHANGED recorder /\ Fault
    /\ UNCHANGED <<libraryState, stored, bound, config>>

UndoBindings ==
    /\ change.step = "undo_keys"
    /\ change' = Steady
    /\ \/ /\ bound' = IF change.created THEN NoManager ELSE stored.keys
          /\ Sound /\ UNCHANGED torn
       \/ ~change.created /\ torn' = torn \cup {"keys"} /\ UNCHANGED bound /\ Fault
    /\ UNCHANGED <<libraryState, stored, recorder, config>>

--------------------------------------------------------------------------------
(* The process ends; the next one reads the file, starts the recorder and the *)
(* hotkeys from it, then the library, which may fail to start on its own.     *)
ProcessDies ==
    /\ Crash
    /\ change.step \notin {"dead", "starting"}
    /\ change' = [step |-> "dead"]
    /\ UNCHANGED <<stored, recorder, bound, config, torn>>

ShellStart ==
    LET asSaved == IF config = NoFile THEN DefaultDocument ELSE config
    IN  /\ change.step = "dead"
        /\ \/ stored' = asSaved /\ bound' = asSaved.keys /\ torn' = {} /\ Sound
           \/ stored' = asSaved /\ bound' = NoManager /\ torn' = {} /\ Fault
           \/ /\ config # NoFile
              /\ stored' = DefaultDocument /\ bound' = DefaultDocument.keys
              /\ torn' = {"config"} /\ Fault
        /\ recorder' = stored'
        /\ change' = [step |-> "starting"]
        /\ UNCHANGED <<libraryState, config>>

LibraryStart ==
    /\ change.step = "starting"
    /\ change' = Steady
    /\ outputDir' = stored.dir /\ quota' = stored.quota
    /\ \/ LibraryOpen(stored.dir)
       \/ UNCHANGED <<files, staged, rows, unsure, catalog, job, blame, pinned>> /\ Fault
    /\ UNCHANGED <<stored, recorder, bound, config, torn>>

--------------------------------------------------------------------------------
ApplyAppSettings ==
    \/ \E next \in Documents : ApplyBindings(next)
    \/ UpdateRecorder \/ UpdateDirectory \/ UpdatePolicy \/ Persist \/ Adopt
    \/ UndoDirectory \/ UndoPolicy \/ UndoRecorder \/ UndoBindings

LibraryCommand == change.step = "idle" /\ LibraryRequest

Around ==
    \/ change.step \notin {"dead", "starting"} /\ \E p \in InDir(recorder.dir) : PublishClip(p)
    \/ \E p \in Places : RemovedOutside(p)

ShellNext ==
    \/ ApplyAppSettings
    \/ ProcessDies \/ ShellStart \/ LibraryStart
    \/ (LibraryCommand \/ Around) /\ UNCHANGED shellOwn

ShellSpec == ShellInit /\ [][ShellNext]_shellVars

--------------------------------------------------------------------------------
ShellTypeOK ==
    /\ LibraryTypeOK
    /\ stored \in Documents /\ recorder \in Documents
    /\ bound \in {doc.keys : doc \in Documents} \cup {NoManager}
    /\ config \in Documents \cup {NoFile}
    /\ change.step \in {"idle", "dead", "starting", "recorder", "directory", "policy",
           "persist", "adopt", "undo_directory", "undo_policy", "undo_recorder", "undo_keys"}
    /\ torn \subseteq {"recorder", "keys", "config"}

(* Between changes, the hotkeys, the recorder, the library and the file follow *)
(* one document, the one the shell shows, through refused changes, crashes in *)
(* the middle of one and restarts, but for a part whose roll-back itself      *)
(* failed or that could not be started.                                       *)
SettingsAllOrNothing ==
    change.step = "idle" =>
        /\ "recorder" \in torn \/ recorder = stored
        /\ "keys" \in torn \/ bound \in {stored.keys, NoManager}
        /\ LibraryUp => outputDir = stored.dir /\ quota = stored.quota
        /\ \/ "config" \in torn
           \/ config = stored
           \/ config = NoFile /\ stored = DefaultDocument
=============================================================================
