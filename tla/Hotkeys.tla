------------------------------- MODULE Hotkeys -------------------------------
(* The global hotkeys (crates/hotkeys). A thread of its own registers chords   *)
(* with the system and installs a keyboard hook; a press may be answered by   *)
(* the hook, by the WM_HOTKEY message of the registration, or by both, 50 ms  *)
(* of silence keeping the second answer back. Bindings are replaced by a      *)
(* command the owner waits for. The hook and the messages are handled by the  *)
(* same thread, one at a time.                                                *)
(*                                                                            *)
(* Of the modifiers there is one, CTRL: SHIFT and WIN are tracked alike, ALT   *)
(* is put right by every key. Parsing of chords is left out.                  *)
EXTENDS Integers, Sequences, FiniteSets

CONSTANTS
    Keys,
    Bindings,       \* what may be asked for: functions from ids to chords
    EventQueueBound,\* HOTKEY_EVENT_QUEUE_BOUND, 64
    MaxDowns, MaxReplacements, MaxMishaps   \* bounds; missed keys, chords taken elsewhere

HotkeyIds == UNION {DOMAIN b : b \in Bindings}
Chords == [ctrl : BOOLEAN, key : Keys]

(* Chords of a set are distinct: validate_bindings.                           *)
ASSUME HotkeysAssumption ==
    /\ EventQueueBound \in Nat \ {0} /\ {MaxDowns, MaxReplacements, MaxMishaps} \subseteq Nat
    /\ \A b \in Bindings : /\ \A id \in DOMAIN b : b[id] \in Chords
                           /\ \A i, j \in DOMAIN b : b[i] = b[j] => i = j

VARIABLES
    owner,      \* the HotkeyManager and who calls it
    commands,   \* ControlMessages sent
    messages,   \* the message queue of the thread
    inForce,    \* current_bindings, and those of HOOK_DISPATCH
    registered, \* registrations with the system: pairs of id and chord
    succeeded,  \* succeeded_hotkey_ids
    foreign,    \* chords other applications have
    keyboard,   \* what is held down, and the ModifierState the hook made of it
    recent,     \* ids with a last_activation less than 50 ms ago
    fired,      \* HotkeyEvents sent
    tally,      \* history: presses not answered, answers not owed, by id; refusals
    used        \* how much of each bound is used

hotkeysVars == <<owner, commands, messages, inForce, registered, succeeded, foreign, keyboard,
                 recent, fired, tally, used>>

NoKey == "none"
NoBindings == [id \in {} |-> NoKey]
Running == owner.thread = "running"

HotkeysInit ==
    /\ owner = [thread |-> "none", step |-> "idle", asked |-> NoBindings]
    /\ commands = <<>> /\ messages = <<>> /\ fired = <<>>
    /\ inForce = NoBindings /\ registered = {} /\ succeeded = {} /\ recent = {}
    /\ foreign \in {{}} \cup {{c} : c \in Chords}
    /\ keyboard \in [ctrl : BOOLEAN, key : {NoKey}, tracked : {FALSE}]
    /\ tally = [spare |-> [id \in HotkeyIds |-> 0], ahead |-> [id \in HotkeyIds |-> 0],
                refused |-> {}, strayed |-> FALSE]
    /\ used = [downs |-> 0, replaced |-> 0, mishaps |-> 0]

(* RegisterHotKey refuses a chord that somebody has.                          *)
Refused(set) == {id \in DOMAIN set : set[id] \in foreign}
Granted(owned, set) ==
    {p \in {<<id, set[id]>> : id \in DOMAIN set} :
        p[2] \notin foreign /\ \A q \in owned : q[2] # p[2]}
Only(set, ids) == [id \in ids |-> set[id]]

--------------------------------------------------------------------------------
(* HotkeyManager::new: a thread that registers what it can, fills the dispatch *)
(* state and hooks the keyboard, or undoes it all when it cannot.             *)
Start ==
    /\ owner.thread = "none"
    /\ \/ \E set \in Bindings :
            /\ registered' = Granted({}, set)
            /\ succeeded' = {p[1] : p \in registered'}
            /\ inForce' = set
            /\ owner' = [owner EXCEPT !.thread = "running"]
            /\ tally' = [tally EXCEPT !.refused = Refused(set)]
       \/ owner' = [owner EXCEPT !.thread = "gone"]
          /\ UNCHANGED <<registered, succeeded, inForce, tally>>
    /\ UNCHANGED <<commands, messages, foreign, keyboard, recent, fired, used>>

(* set_bindings and drop send a command and post a message to have it read.    *)
Ask(set) ==
    /\ Running /\ owner.step = "idle" /\ used.replaced < MaxReplacements
    /\ commands' = Append(commands, [kind |-> "replace", set |-> set])
    /\ owner' = [owner EXCEPT !.step = "post", !.asked = set]
    /\ used' = [used EXCEPT !.replaced = @ + 1]
    /\ UNCHANGED <<messages, inForce, registered, succeeded, foreign, keyboard, recent, fired, tally>>

Drop ==
    /\ Running /\ owner.step = "idle"
    /\ commands' = Append(commands, [kind |-> "stop"])
    /\ owner' = [owner EXCEPT !.step = "post"]
    /\ UNCHANGED <<messages, inForce, registered, succeeded, foreign, keyboard, recent, fired, tally, used>>

Post ==
    /\ owner.step = "post"
    /\ messages' = IF Running THEN Append(messages, [kind |-> "control"]) ELSE messages
    /\ owner' = [owner EXCEPT !.step = "waiting"]
    /\ UNCHANGED <<commands, inForce, registered, succeeded, foreign, keyboard, recent, fired, tally, used>>

--------------------------------------------------------------------------------
(* WM_HOTKEY_CONTROL. A replacement leaves what both sets have, unregisters    *)
(* the rest of the old before it registers the rest of the new, and goes on   *)
(* whatever the system refuses.                                               *)
AddedFirst(set, kept) ==
    LET removed == {id \in DOMAIN inForce : id \notin kept}
        both == registered \cup Granted(registered, Only(set, DOMAIN set \ kept))
    IN  {p \in both : p[1] \in removed => <<p[1], inForce[p[1]]>> # p}
Replaced(set, kept) ==
    LET left == {p \in registered : p[1] \in kept \/ p[1] \notin succeeded}
    IN  left \cup Granted(left, Only(set, DOMAIN set \ kept))

Replace ==
    /\ Running /\ messages # <<>> /\ Head(messages).kind = "control"
    /\ commands # <<>> /\ Head(commands).kind = "replace"
    /\ LET set == Head(commands).set
           kept == {id \in DOMAIN set \cap DOMAIN inForce : set[id] = inForce[id]}
       IN  /\ registered' = Replaced(set, kept)
           /\ succeeded' = (succeeded \cap kept) \cup {p[1] : p \in registered' \ registered}
           /\ inForce' = set
           /\ tally' = [tally EXCEPT !.refused = (@ \cap kept) \cup Refused(Only(set, DOMAIN set \ kept))]
    /\ commands' = Tail(commands) /\ messages' = Tail(messages)
    /\ owner' = [owner EXCEPT !.step = "idle"]
    /\ UNCHANGED <<foreign, keyboard, recent, fired, used>>

(* Stop: unhook, forget the dispatch state, unregister what had succeeded.     *)
Stop ==
    /\ Running /\ messages # <<>> /\ Head(messages).kind = "control"
    /\ commands # <<>> /\ Head(commands).kind = "stop"
    /\ registered' = {p \in registered : p[1] \notin succeeded}
    /\ succeeded' = {} /\ inForce' = NoBindings /\ recent' = {} /\ messages' = <<>>
    /\ commands' = Tail(commands)
    /\ owner' = [owner EXCEPT !.thread = "gone", !.step = "idle"]
    /\ UNCHANGED <<foreign, keyboard, fired, tally, used>>

(* An answer that finds the queue full is lost, and the report of it too: both *)
(* count as given.                                                            *)
Queued(ids) ==
    IF ids # {} /\ Len(fired) < EventQueueBound THEN Append(fired, CHOOSE id \in ids : TRUE)
    ELSE fired
Plus(f, ids) == [id \in HotkeyIds |-> f[id] + IF id \in ids THEN 1 ELSE 0]
Minus(f, ids) == [id \in HotkeyIds |-> f[id] - IF id \in ids THEN 1 ELSE 0]

(* WM_HOTKEY: an id that is bound and was not answered lately.                *)
AnsweredAgain(id) == {id} \cap DOMAIN inForce
ToAnswer(id) == ({id} \cap DOMAIN inForce) \ recent

HotkeyMessage ==
    /\ Running /\ messages # <<>> /\ Head(messages).kind = "hotkey"
    /\ LET ids == ToAnswer(Head(messages).id)
       IN  /\ fired' = Queued(ids)
           /\ recent' = recent \cup ids
           /\ tally' = [tally EXCEPT !.spare = Minus(@, ids), !.ahead = Plus(@, ids)]
    /\ messages' = Tail(messages)
    /\ UNCHANGED <<owner, commands, inForce, registered, succeeded, foreign, keyboard, used>>

(* HotkeyManager::drain, by the shell.                                        *)
DrainHotkeys ==
    /\ Running /\ fired # <<>> /\ fired' = <<>>
    /\ UNCHANGED <<owner, commands, messages, inForce, registered, succeeded, foreign, keyboard,
                   recent, tally, used>>

--------------------------------------------------------------------------------
(* The hook sees keys go down and up, unless another desktop is in front or    *)
(* the thread was too slow; a key held is seen to go down again and again.     *)
CtrlMoves ==
    /\ Running /\ keyboard.key = NoKey
    /\ \/ keyboard' = [keyboard EXCEPT !.ctrl = ~@, !.tracked = ~keyboard.ctrl] /\ UNCHANGED used
       \/ /\ used.mishaps < MaxMishaps
          /\ keyboard' = [keyboard EXCEPT !.ctrl = ~@]
          /\ used' = [used EXCEPT !.mishaps = @ + 1]
    /\ UNCHANGED <<owner, commands, messages, inForce, registered, succeeded, foreign, recent, fired,
                   tally>>

(* Down first goes through the hook, then becomes a message if it is a         *)
(* registered chord and no repetition (MOD_NOREPEAT). Modifiers do not move    *)
(* while a key is held.                                                       *)
KeyDown(key) ==
    LET chord == [ctrl |-> keyboard.ctrl, key |-> key]
        seen == [ctrl |-> keyboard.tracked, key |-> key]
        now == {id \in DOMAIN inForce : inForce[id] = seen} \ recent
        meant == {id \in DOMAIN inForce : inForce[id] = chord}
        ids == {p[1] : p \in {q \in registered : q[2] = chord}}
    IN  /\ Running /\ keyboard.key \in {NoKey, key} /\ used.downs < MaxDowns
        /\ recent' = recent \cup now
        /\ fired' = Queued(now)
        /\ tally' = [tally EXCEPT !.spare = Minus(Plus(@, meant), now),
                                  !.ahead = Minus(Plus(@, now), meant \ recent),
                                  !.strayed = @ \/ chord # seen]
        /\ used' = [used EXCEPT !.downs = @ + 1]
        /\ messages' = IF keyboard.key = NoKey /\ ids # {}
                       THEN Append(messages, [kind |-> "hotkey", id |-> CHOOSE id \in ids : TRUE])
                       ELSE messages
        /\ keyboard' = [keyboard EXCEPT !.key = key]
        /\ UNCHANGED <<owner, commands, inForce, registered, succeeded, foreign>>

KeyUp ==
    /\ Running /\ keyboard.key # NoKey
    /\ keyboard' = [keyboard EXCEPT !.key = NoKey]
    /\ UNCHANGED <<owner, commands, messages, inForce, registered, succeeded, foreign, recent, fired,
                   tally, used>>

(* 50 ms pass. The thread is prompt: no message waits that long.              *)
Settle ==
    /\ recent # {} /\ \A i \in 1..Len(messages) : messages[i].kind # "hotkey"
    /\ recent' = {}
    /\ UNCHANGED <<owner, commands, messages, inForce, registered, succeeded, foreign, keyboard,
                   fired, tally, used>>

(* Another application gives a chord up, or takes one that is free.           *)
OthersMove ==
    /\ Running /\ used.mishaps < MaxMishaps /\ used' = [used EXCEPT !.mishaps = @ + 1]
    /\ \/ \E c \in foreign : foreign' = foreign \ {c}
       \/ foreign = {} /\ \E c \in Chords : (\A p \in registered : p[2] # c) /\ foreign' = {c}
    /\ UNCHANGED <<owner, commands, messages, inForce, registered, succeeded, keyboard, recent, fired,
                   tally>>

HotkeysNext ==
    \/ Start \/ Drop \/ Post \/ Replace \/ Stop \/ HotkeyMessage \/ DrainHotkeys
    \/ CtrlMoves \/ KeyUp \/ Settle \/ OthersMove
    \/ \E set \in Bindings : Ask(set)
    \/ \E key \in Keys : KeyDown(key)

HotkeysSpec == HotkeysInit /\ [][HotkeysNext]_hotkeysVars

--------------------------------------------------------------------------------
HotkeysTypeOK ==
    /\ owner.thread \in {"none", "running", "gone"} /\ owner.step \in {"idle", "post", "waiting"}
    /\ \A set \in {owner.asked, inForce} : set = NoBindings \/ set \in Bindings
    /\ registered \subseteq HotkeyIds \X Chords /\ succeeded \subseteq HotkeyIds /\ recent \subseteq HotkeyIds
    /\ foreign \subseteq Chords /\ Len(fired) <= EventQueueBound

(* The system has registered, of the bindings in force, all that no other      *)
(* application held when they were registered, and nothing else: no chord of  *)
(* a replaced set stays taken, a chord that moves from one action to another  *)
(* is not lost, and nothing is left when the thread is gone. The owner who has *)
(* its answer has its bindings; one that waits has a message in the queue.    *)
HotkeysFollow ==
    /\ registered = {<<id, inForce[id]>> : id \in DOMAIN inForce \ tally.refused}
    /\ succeeded = {p[1] : p \in registered}
    /\ Running /\ owner.step = "idle" /\ owner.asked # NoBindings => inForce = owner.asked
    /\ owner.step = "waiting" => \E i \in 1..Len(messages) : messages[i].kind = "control"

(* A chord pressed is answered, once: as long as the hook knows which          *)
(* modifiers are held, no action is started more often than its chord went    *)
(* down, and each time it went down after 50 ms of silence it was started, or  *)
(* found the queue full.                                                       *)
PressesAnswered ==
    ~ tally.strayed =>
        \A id \in HotkeyIds :
            /\ tally.spare[id] >= 0
            /\ tally.ahead[id] >= 0

(* Both, whatever replacement comes between a press and its answer.            *)
HotkeysSound == HotkeysFollow /\ PressesAnswered
=============================================================================
