------------------------------ MODULE NativeHud ------------------------------
(* The overlay that confirms a save (crates/native-hud) and the runtime that   *)
(* owns it (hud.rs of the desktop shell). Each NativeHud is a thread with a    *)
(* window, a bounded queue of cues and two timers; whoever has an event to     *)
(* show puts a cue in the queue and posts a message to wake the thread. A      *)
(* change of settings builds a new one, swaps it in, and drops the old one,    *)
(* which stops and joins its thread while the next change may be under way.    *)
(*                                                                            *)
(* What is drawn is left out: a cue is its number. A timer may go off whenever *)
(* it is set, and never after it is killed (KillTimer, with GetMessage making  *)
(* WM_TIMER only when it is asked).                                           *)
EXTENDS Integers, Sequences

CONSTANTS
    Policies,       \* DiagnosticLifecyclePolicy; production has AttachedHidden
    CueBound,       \* HUD_COMMAND_QUEUE_BOUND, 16
    Overlays,       \* overlay settings, by what they are besides being enabled
    MaxHuds, MaxCues    \* bounds: NativeHuds built, cues accepted

ASSUME HudAssumption ==
    /\ Policies \subseteq {"AttachedShown", "DetachedShown", "AttachedHidden"}
    /\ CueBound \in Nat \ {0} /\ {MaxHuds, MaxCues} \subseteq Nat

VARIABLES
    policy,
    runtime,    \* HudInner: the settings and the NativeHud in use, 0 for none
    swap,       \* a reconfiguration: how far, what is asked and the new one
    huds,       \* every NativeHud ever built
    cues        \* cues accepted so far

hudVars == <<policy, runtime, swap, huds, cues>>

Shutdown == 0
Settings == [enabled : BOOLEAN, overlay : Overlays]
ShownIdle == policy \in {"AttachedShown", "DetachedShown"}
AttachedIdle == policy \in {"AttachedShown", "AttachedHidden"}
Quiet == [at |-> "idle"]

(* at: the thread; posting: who has put a cue and not posted yet; pill: what    *)
(* the compositor shows; hold, exit: timers; leaving: is it dropped. Given, drawn and stray are        *)
(* history: the last cue accepted and drawn; its owner gave up after it looked. *)
NewHud ==
    [at |-> "init", answer |-> "none", healthy |-> TRUE, cancelled |-> FALSE, queue |-> <<>>,
     messages |-> <<>>, posting |-> 0, given |-> 0, drawn |-> 0, shown |-> FALSE,
     attached |-> FALSE, visible |-> FALSE, pill |-> "none", hold |-> FALSE, exit |-> FALSE,
     leaving |-> "no", stray |-> FALSE]
NoWindow(h) ==
    [h EXCEPT !.at = "gone", !.healthy = FALSE, !.queue = <<>>, !.messages = <<>>, !.shown = FALSE,
              !.attached = FALSE, !.pill = "none", !.hold = FALSE, !.exit = FALSE]

(* HudRuntime::init builds the first one as a reconfiguration does.            *)
HudInit ==
    /\ policy \in Policies
    /\ huds = <<>> /\ cues = 0
    /\ \E asked \in Settings :
        /\ runtime = [settings |-> asked, hud |-> 0]
        /\ swap = [at |-> "look", asked |-> asked]

--------------------------------------------------------------------------------
(* HudRuntime::reconfigure, one at a time under reconfig_lock.                 *)
Reconfigure(asked) ==
    /\ swap = Quiet
    /\ swap' = [at |-> "look", asked |-> asked]
    /\ UNCHANGED <<policy, runtime, huds, cues>>

Rebuild ==
    /\ swap.at = "look"
    /\ LET missing == swap.asked.enabled /\ (runtime.hud = 0 \/ ~ huds[runtime.hud].healthy)
       IN  IF runtime.settings # swap.asked \/ missing
           THEN IF swap.asked.enabled
                THEN /\ Len(huds) < MaxHuds
                     /\ huds' = Append(huds, NewHud)
                     /\ swap' = [swap EXCEPT !.at = "build"]
                ELSE swap' = [at |-> "swap", asked |-> swap.asked, new |-> 0] /\ UNCHANGED huds
           ELSE swap' = Quiet /\ UNCHANGED huds
    /\ UNCHANGED <<policy, runtime, cues>>

(* try_new_internal: the answer of the thread, or none within five seconds.     *)
Built(new) == swap' = [at |-> "swap", asked |-> swap.asked, new |-> new]
Latest == Len(huds)

TakeAnswer ==
    /\ swap.at = "build"
    /\ \/ /\ huds[Latest].answer = "ok" /\ Built(Latest) /\ UNCHANGED huds
       \/ /\ huds[Latest].answer = "error" /\ huds[Latest].at = "gone"
          /\ Built(0) /\ UNCHANGED huds
    /\ UNCHANGED <<policy, runtime, cues>>

NoAnswer ==
    /\ swap.at = "build" /\ huds[Latest].answer = "none"
    /\ huds' = [huds EXCEPT ![Latest].cancelled = TRUE, ![Latest].healthy = FALSE,
                            ![Latest].stray = huds[Latest].at = "answer"]
    /\ Built(0)
    /\ UNCHANGED <<policy, runtime, cues>>

(* The write lock waits for those who are showing a cue. The next change may   *)
(* come before the old one is dropped.                                         *)
Swap ==
    /\ swap.at = "swap"
    /\ runtime.hud # 0 => huds[runtime.hud].posting = 0
    /\ runtime' = [settings |-> swap.asked, hud |-> swap.new]
    /\ huds' = [i \in 1..Latest |->
                   IF i = runtime.hud THEN [huds[i] EXCEPT !.leaving = "stop"] ELSE huds[i]]
    /\ swap' = Quiet
    /\ UNCHANGED <<policy, cues>>

(* Dropping an old one: shutdown, and the join of its thread.                  *)
WindowOpen(h) == h.at \in {"created", "answer", "loop", "drain", "ending"}
StopOld(i) ==
    /\ huds[i].leaving = "stop"
    /\ LET h == huds[i]
       IN  huds' = [huds EXCEPT ![i] =
               [h EXCEPT !.leaving = "join", !.healthy = FALSE, !.cancelled = TRUE,
                         !.queue = IF h.at # "gone" /\ Len(@) < CueBound THEN Append(@, Shutdown) ELSE @,
                         !.messages = IF WindowOpen(h) THEN Append(@, "close") ELSE @]]
    /\ UNCHANGED <<policy, runtime, swap, cues>>

JoinOld(i) ==
    /\ huds[i].leaving = "join" /\ huds[i].at = "gone"
    /\ huds' = [huds EXCEPT ![i].leaving = "no"]
    /\ UNCHANGED <<policy, runtime, swap, cues>>

--------------------------------------------------------------------------------
(* try_dispatch_event and try_show, under the read lock: the cue is left out    *)
(* unless there is a healthy NativeHud with room. The message follows, and     *)
(* goes nowhere when the window is no more.                                   *)
TryShow ==
    LET i == runtime.hud
    IN  /\ runtime.settings.enabled /\ i # 0 /\ huds[i].healthy
        /\ Len(huds[i].queue) < CueBound
        /\ cues < MaxCues /\ cues' = cues + 1
        /\ huds' = [huds EXCEPT ![i].queue = Append(@, cues + 1), ![i].posting = @ + 1,
                                ![i].given = cues + 1]
        /\ UNCHANGED <<policy, runtime, swap>>

PostWake(i) ==
    /\ huds[i].posting > 0
    /\ huds' = [huds EXCEPT ![i].posting = @ - 1,
                            ![i].messages = IF WindowOpen(huds[i]) THEN Append(@, "command") ELSE @]
    /\ UNCHANGED <<policy, runtime, swap, cues>>

--------------------------------------------------------------------------------
(* The thread. It makes a window, looks whether its owner gave up, answers, and *)
(* pumps messages until it is told to close or something fails.               *)
Becomes(i, h) == huds' = [huds EXCEPT ![i] = h] /\ UNCHANGED <<policy, runtime, swap, cues>>

CreateWindow(i) ==
    /\ huds[i].at = "init"
    /\ \/ Becomes(i, [huds[i] EXCEPT !.at = "created", !.shown = ShownIdle, !.attached = AttachedIdle])
       \/ Becomes(i, [NoWindow(huds[i]) EXCEPT !.answer = "error"])

LookCancelled(i) ==
    /\ huds[i].at = "created"
    /\ Becomes(i, IF huds[i].cancelled THEN NoWindow(huds[i]) ELSE [huds[i] EXCEPT !.at = "answer"])

Answer(i) ==
    /\ huds[i].at = "answer"
    /\ Becomes(i, [huds[i] EXCEPT !.at = "loop", !.answer = "ok"])

(* recover_to_idle; a commit that fails leaves the compositor as it was.        *)
Recovered(h, committed) ==
    [h EXCEPT !.hold = FALSE, !.exit = FALSE, !.visible = FALSE,
              !.pill = IF committed THEN "none" ELSE @,
              !.attached = @ /\ policy # "DetachedShown",
              !.shown = @ /\ policy # "AttachedHidden"]
CommitFails(i, h) == \E committed \in BOOLEAN : Becomes(i, [Recovered(h, committed) EXCEPT !.at = "ending"])

(* SetTimer, whose failure sends the pill away.                                *)
Timed(i, armed) ==
    \/ Becomes(i, armed)
    \/ Becomes(i, Recovered(armed, TRUE))
    \/ CommitFails(i, armed)

(* handle_show_cue: a pill on its way in or out stays and is drawn anew.        *)
KeepingExit(h) == [h EXCEPT !.hold = FALSE, !.shown = TRUE]
Woken(h) == [h EXCEPT !.hold = FALSE, !.exit = FALSE, !.shown = TRUE]
Show(i, cue) ==
    LET h == [Woken(huds[i]) EXCEPT !.queue = Tail(@)]
        up == [h EXCEPT !.drawn = cue, !.attached = TRUE, !.visible = TRUE, !.pill = "up"]
    IN  \/ Timed(i, [up EXCEPT !.hold = TRUE])
        \/ \E stage \in {h, [h EXCEPT !.attached = TRUE]} : CommitFails(i, stage)

Receive(i) ==
    /\ huds[i].at = "loop" /\ huds[i].messages # <<>>
    /\ Becomes(i, [huds[i] EXCEPT !.messages = Tail(@),
                                  !.at = IF Head(huds[i].messages) = "close" THEN "ending" ELSE "drain"])

DrainCommands(i) ==
    /\ huds[i].at = "drain"
    /\ IF huds[i].queue = <<>> THEN Becomes(i, [huds[i] EXCEPT !.at = "loop"])
       ELSE IF Head(huds[i].queue) = Shutdown THEN Becomes(i, [huds[i] EXCEPT !.at = "ending"])
       ELSE Show(i, Head(huds[i].queue))

HoldExpires(i) ==
    LET h == [huds[i] EXCEPT !.hold = FALSE]
    IN  /\ huds[i].at = "loop" /\ huds[i].hold
        /\ \/ Timed(i, [h EXCEPT !.pill = "fading", !.exit = TRUE])
           \/ CommitFails(i, h)

ExitExpires(i) ==
    LET h == [huds[i] EXCEPT !.exit = FALSE, !.visible = FALSE]
        detached == [h EXCEPT !.attached = @ /\ policy # "DetachedShown"]
    IN  /\ huds[i].at = "loop" /\ huds[i].exit
        /\ \/ Becomes(i, [detached EXCEPT !.pill = "none", !.shown = @ /\ policy # "AttachedHidden"])
           \/ \E stage \in {h, detached} : CommitFails(i, stage)

(* GetMessageW itself may fail.                                                *)
PumpFails(i) ==
    /\ huds[i].at = "loop"
    /\ Becomes(i, [huds[i] EXCEPT !.at = "ending", !.healthy = FALSE])

TearDown(i) == huds[i].at = "ending" /\ Becomes(i, NoWindow(huds[i]))

HudThread(i) ==
    \/ CreateWindow(i) \/ LookCancelled(i) \/ Answer(i) \/ Receive(i) \/ DrainCommands(i)
    \/ HoldExpires(i) \/ ExitExpires(i) \/ PumpFails(i) \/ TearDown(i)

HudNext ==
    \/ \E asked \in Settings : Reconfigure(asked)
    \/ Rebuild \/ TakeAnswer \/ NoAnswer \/ Swap \/ TryShow
    \/ \E i \in 1..Len(huds) : StopOld(i) \/ JoinOld(i) \/ PostWake(i) \/ HudThread(i)

HudSpec == HudInit /\ [][HudNext]_hudVars

--------------------------------------------------------------------------------
HudTypeOK ==
    /\ runtime.settings \in Settings /\ runtime.hud \in 0..Len(huds)
    /\ swap.at \in {"idle", "look", "build", "swap"}
    /\ \A i \in 1..Len(huds) :
        /\ huds[i].at \in {"init", "created", "answer", "loop", "drain", "ending", "gone"}
        /\ huds[i].leaving \in {"no", "stop", "join"} /\ huds[i].pill \in {"none", "up", "fading"}
        /\ Len(huds[i].queue) <= CueBound /\ huds[i].posting \in 0..MaxCues

(* Between two messages a pill on the screen has one timer, the one that takes *)
(* it away next, however cues, timers and failures follow each other; without *)
(* a pill no timer runs, and window and tree are as the policy has them when  *)
(* idle. A window that is gone leaves nothing on the screen.                   *)
PillsEnd(h) ==
    /\ h.at = "loop" =>
        /\ h.visible = (h.pill # "none")
        /\ h.hold = (h.pill = "up") /\ h.exit = (h.pill = "fading")
        /\ h.shown = (h.visible \/ ShownIdle) /\ h.attached = (h.visible \/ AttachedIdle)
    /\ h.at = "gone" => h.pill = "none"

(* A cue that was accepted is drawn: a thread that waits for a message with    *)
(* nobody about to post one has drawn the last cue it was given.               *)
CuesDrawn(h) ==
    h.at = "loop" /\ h.messages = <<>> /\ h.posting = 0 => h.queue = <<>> /\ h.drawn = h.given

(* The settings in force say whether there is a NativeHud, and with no change  *)
(* under way every other thread has ended or is joined by whoever replaced it, *)
(* but for one whose owner gave up waiting: that one will look and end, unless *)
(* it had looked already. The one in use is nobody's to stop.                  *)
OneHud ==
    /\ runtime.hud # 0 => runtime.settings.enabled /\ huds[runtime.hud].leaving = "no"
    /\ swap = Quiet =>
        \A i \in 1..Len(huds) :
            \/ i = runtime.hud \/ huds[i].at = "gone" \/ huds[i].stray \/ huds[i].leaving # "no"
            \/ huds[i].cancelled /\ huds[i].at \in {"init", "created"}

(* All of it.                                                                  *)
HudSound ==
    /\ \A i \in 1..Len(huds) : PillsEnd(huds[i]) /\ CuesDrawn(huds[i])
    /\ OneHud
=============================================================================
