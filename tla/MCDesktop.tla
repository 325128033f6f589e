------------------------------ MODULE MCDesktop ------------------------------
(* The parts of the desktop process around the recorder, each on its own: the *)
(* variables of the others stay as they are. The shell is taken twice: with   *)
(* changes of settings, over all clips but one, and under one document, over  *)
(* all of them.                                                               *)
EXTENDS ShellSettings, CaptureSession, EncoderFallback, VideoTransform, MCClipFile, Hotkeys, AudioSession,
        NativeHud, ExportPlan

MCDefault == [dir |-> "d1", quota |-> 1, keys |-> "k1"]
MCDocuments == {MCDefault, [dir |-> "d2", quota |-> 0, keys |-> "k2"]}

(* A chord and its bare key, bound to two actions, changed round, and alone.   *)
MCBindings ==
    LET bare == [ctrl |-> FALSE, key |-> "a"]
        chord == [ctrl |-> TRUE, key |-> "a"]
    IN  {<<chord, bare>>, <<bare, chord>>, <<chord>>}

(* A packet begun before silence was made up, one after a pause, one after the *)
(* machine slept.                                                             *)
MCDelays == {-10, 40, 500}

(* Of a clip of every length, shape and price, into targets that are and are   *)
(* not enough.                                                                 *)
MCLadder == <<<<4, 3, 2>>, <<4, 3, 1>>, <<2, 2, 1>>>>
MCRequests ==
    [target : {0, 5, 15}, duration : {0, 3, 10}, audio : {0, 3, 15}, tracks : {0, 3}, part : {0, 1},
     whole : {0, 1, 3}, fixed : {0, 4}, floor : {0, 9},
     source : {<<4, 3, 1>>, <<2, 3, 2>>, <<1, 3, 2>>}]

VARIABLE part

desktopVars == <<shellVars, captureVars, fallbackVars, transformVars, clipFileVars, hotkeysVars,
                 audioVars, hudVars, planVars, part>>

DesktopInit ==
    /\ ShellInit /\ CaptureInit /\ FallbackInit /\ TransformInit /\ ClipFileInit /\ HotkeysInit
    /\ AudioInit /\ HudInit /\ PlanInit
    /\ source.size = CHOOSE s \in Sizes : TRUE
    /\ part \in {"settings", "library", "capture", "encoder", "transform", "clip", "hotkeys", "audio",
                "hud", "plan"}
    /\ part # "capture" => clock.interval = 0
    /\ part # "hotkeys" => foreign = {} /\ ~ keyboard.ctrl
    /\ part # "hud" => policy = "AttachedHidden" /\ runtime.settings = CHOOSE s \in Settings : TRUE
    /\ part # "plan" => request = CHOOSE r \in Requests : TRUE

(* What the parts other than the one that moves keep.                          *)
Still(moving) ==
    /\ part = moving /\ UNCHANGED part
    /\ moving \notin {"settings", "library"} => UNCHANGED shellVars
    /\ moving # "capture" => UNCHANGED captureVars
    /\ moving # "encoder" => UNCHANGED fallbackVars
    /\ moving # "transform" => UNCHANGED transformVars
    /\ moving # "clip" => UNCHANGED clipFileVars
    /\ moving # "hotkeys" => UNCHANGED hotkeysVars
    /\ moving # "audio" => UNCHANGED audioVars
    /\ moving # "hud" => UNCHANGED hudVars
    /\ moving # "plan" => UNCHANGED planVars

DesktopNext ==
    \/ Still("settings") /\ ShellNext /\ blame'[MaxClips] = "unsaved"
    \/ Still("library") /\ ShellNext /\ change'.step \in {"idle", "dead", "starting"}
    \/ Still("capture") /\ CaptureNext
    \/ Still("encoder") /\ FallbackNext
    \/ Still("transform") /\ TransformNext
    \/ Still("clip") /\ ClipFileNext
    \/ Still("hotkeys") /\ HotkeysNext
    \/ Still("audio") /\ AudioNext
    \/ Still("hud") /\ HudNext
    \/ Still("plan") /\ MakePlan

DesktopSpec == DesktopInit /\ [][DesktopNext]_desktopVars

(* The types of all of them.                                                  *)
DesktopTypeOK ==
    /\ ShellTypeOK /\ CaptureTypeOK /\ FallbackTypeOK /\ TransformTypeOK /\ ClipFileTypeOK
    /\ HotkeysTypeOK /\ AudioTypeOK /\ HudTypeOK /\ PlanTypeOK
=============================================================================
