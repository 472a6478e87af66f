----------------------------- MODULE WheelInput -----------------------------
(***************************************************************************)
(* The driving wheel as an input: the device and the joystick subsystem it *)
(* is opened on (src/p8/tsxw_input.py), the merging of a wheel button with *)
(* its key (tsxw_policy.py) and the view's use of both                     *)
(* (research_noa_view.py).  One command key with its button stands for the *)
(* four.  A frame's events are a short sequence of what the keyboard and   *)
(* the window did.                                                         *)
(***************************************************************************)
EXTENDS Integers, Sequences

CONSTANTS
    MaxEvents,      \* keyboard and window events in one frame
    MaxFrames       \* bound: frames driven

ASSUME WheelAssumption == MaxEvents \in Nat /\ MaxFrames \in Nat

VARIABLES
    subsystem,      \* pygame.joystick.get_init()
    foundInit,      \* the subsystem was running before the adapter was opened
    adapter,        \* the view's _tsxw_input: "none", "open", "broken"
    driving,        \* the released controls were confirmed and the loop runs
    owns,           \* _owns_subsystem
    key,            \* the physical key, and whether the window sees it
    button,         \* the physical wheel button
    commands,       \* TsxwCommandState
    frame,          \* what the last frame did with the key
    frames

wheelVars ==
    <<subsystem, foundInit, adapter, driving, owns, key, button, commands, frame, frames>>

NoFrame == [command |-> FALSE, levels |-> <<>>]
Cleared == [keyboard |-> FALSE, wheel |-> FALSE]

WheelInit ==
    /\ subsystem \in BOOLEAN /\ foundInit = subsystem
    /\ adapter = "none" /\ driving = FALSE /\ owns = FALSE
    /\ key \in [down : BOOLEAN, seen : {TRUE}] /\ button \in BOOLEAN
    /\ commands = Cleared /\ frame = NoFrame /\ frames = 0

-----------------------------------------------------------------------------
(***************************************************************************)
(* TsxwInput.open: the subsystem is started when it was not running, and a *)
(* device that is missing, ambiguous or of another shape undoes that.      *)
(***************************************************************************)
Fresh == commands' = Cleared /\ frame' = NoFrame

OpenSucceeds ==
    /\ adapter' = "open"
    /\ owns' = ~subsystem /\ foundInit' = subsystem /\ subsystem' = TRUE
    /\ Fresh

OpenFails ==
    /\ adapter' = "none"
    /\ owns' = FALSE /\ foundInit' = subsystem /\ UNCHANGED subsystem
    /\ UNCHANGED <<commands, frame>>

OpenDevice ==
    /\ adapter = "none"
    /\ OpenSucceeds \/ OpenFails
    /\ UNCHANGED <<driving, key, button, frames>>

\* prepare_tsxw_input: two samples with the window focused and all released.
PrepareWheel ==
    /\ adapter = "open" /\ ~driving
    /\ key.seen /\ ~key.down /\ ~button
    /\ driving' = TRUE /\ Fresh
    /\ UNCHANGED <<subsystem, foundInit, adapter, owns, key, button, frames>>

\* TsxwInput.close: the subsystem ends in any case when it was started here.
ReturnSubsystem == subsystem' = (subsystem /\ ~owns)

CloseDevice ==
    /\ adapter # "none"
    /\ ReturnSubsystem
    /\ adapter' = "none" /\ driving' = FALSE /\ owns' = FALSE
    /\ UNCHANGED <<foundInit, key, button, commands, frame, frames>>

(***************************************************************************)
(* TsxwInput.poll refuses a device that was removed, lost or replaced; the *)
(* frame's events are then not looked at.  Only after the operator         *)
(* confirmed is the device opened anew.                                    *)
(***************************************************************************)
PollFails ==
    /\ adapter = "open" /\ driving
    /\ adapter' = "broken"
    /\ UNCHANGED <<subsystem, foundInit, driving, owns, key, button, commands, frame, frames>>

\* DriverView.recover_input: closed, then opened; closing may itself fail.
RecoverInput ==
    /\ adapter = "broken"
    /\ foundInit' = (subsystem /\ ~owns)
    /\ \/ /\ adapter' = "open" /\ subsystem' = TRUE /\ owns' = ~foundInit' /\ Fresh
       \/ /\ adapter' = "none" /\ subsystem' = foundInit' /\ owns' = FALSE
          /\ UNCHANGED <<commands, frame>>
    /\ UNCHANGED <<driving, key, button, frames>>

-----------------------------------------------------------------------------
(***************************************************************************)
(* The participant's hands.  A window without the focus sees no key, and   *)
(* the page that announces a runtime error takes the events of its time.   *)
(***************************************************************************)
UnseenKey ==
    /\ ~key.seen
    /\ key' = [key EXCEPT !.down = ~@]
    /\ UNCHANGED <<subsystem, foundInit, adapter, driving, owns, button, commands, frame, frames>>

Refocus ==
    /\ ~key.seen
    /\ key' = [key EXCEPT !.seen = TRUE]
    /\ UNCHANGED <<subsystem, foundInit, adapter, driving, owns, button, commands, frame, frames>>

Notice ==
    /\ adapter = "open" /\ driving /\ key.seen
    /\ \E down \in BOOLEAN : key' = [key EXCEPT !.down = down]
    /\ frame' = NoFrame
    /\ UNCHANGED <<subsystem, foundInit, adapter, driving, owns, button, commands, frames>>

Hand ==
    /\ button' = ~button
    /\ UNCHANGED <<subsystem, foundInit, adapter, driving, owns, key, commands, frame, frames>>

Events == {"down", "repeat", "up", "focus lost"}
EventSeqs == UNION {[1 .. n -> Events] : n \in 0 .. MaxEvents}

After(k, e) ==
    CASE e = "down" -> [k EXCEPT !.down = TRUE]
      [] e = "up" -> [k EXCEPT !.down = FALSE]
      [] e = "focus lost" -> [k EXCEPT !.seen = FALSE]
      [] OTHER -> k

\* The physical key after each of the frame's events, from before the first.
Physical(events) ==
    LET hand[i \in 0 .. Len(events)] == IF i = 0 THEN key ELSE After(hand[i - 1], events[i])
    IN  hand

CanHappen(events) ==
    \A i \in 1 .. Len(events) :
        LET k == Physical(events)[i - 1]
        IN  /\ k.seen
            /\ events[i] = "down" => ~k.down
            /\ events[i] \in {"repeat", "up"} => k.down

-----------------------------------------------------------------------------
(***************************************************************************)
(* coalesce_command_events for one key: the key and the button are one     *)
(* logical key.  A hold that only passes from one to the other within the  *)
(* frame is no event, and a frame has at most one press.                   *)
(***************************************************************************)
Keyboard(down, e) ==
    CASE e = "down" -> TRUE
      [] e \in {"up", "focus lost"} -> FALSE
      [] OTHER -> down

\* The key as the commands know it, before the frame and after each of its events.
KnownKeys(events) ==
    LET known[i \in 0 .. Len(events)] ==
          IF i = 0 THEN commands.keyboard ELSE Keyboard(known[i - 1], events[i])
    IN  known

KeyboardAfter(events) == KnownKeys(events)[Len(events)]

HandedOver(events) ==
    /\ (commands.keyboard \/ commands.wheel) = (KeyboardAfter(events) \/ button)
    /\ commands.keyboard # KeyboardAfter(events)
    /\ commands.wheel # button

Level(down) == down \/ button

\* slip: every event of a held key answers, whichever of the two holds it
EagerTransition(acc, level) == level

Transition(acc, level) == level # acc.logical

\* One keyboard event: the key, the logical key, whether a press came of it.
Event(acc, e) ==
    LET level == Level(Keyboard(acc.keyboard, e))
    IN  IF e # "repeat" /\ Transition(acc, level)
        THEN [keyboard |-> Keyboard(acc.keyboard, e), logical |-> level,
              press |-> acc.press \/ level]
        ELSE [acc EXCEPT !.keyboard = Keyboard(@, e)]

KnownDown == commands.keyboard \/ commands.wheel

\* What the frame has made of its events, from before the first.
Heard(events) ==
    LET heard[i \in 0 .. Len(events)] ==
          IF i = 0
          THEN [keyboard |-> commands.keyboard, logical |-> KnownDown, press |-> FALSE]
          ELSE Event(heard[i - 1], events[i])
    IN  heard

Coalesced(events) ==
    LET last == Heard(events)[Len(events)]
    IN  /\ ~HandedOver(events)
        /\ last.press \/ (Level(last.keyboard) /\ ~last.logical)

\* The logical key through the frame: as known, after each event, at the end.
Levels(events) ==
    [i \in 0 .. Len(events) + 1 |->
        IF i = 0 THEN KnownDown
        ELSE Level(KnownKeys(events)[IF i > Len(events) THEN Len(events) ELSE i])]

Frame ==
    /\ adapter = "open" /\ driving /\ frames < MaxFrames
    /\ \E events \in EventSeqs :
          /\ CanHappen(events)
          /\ frame' = [command |-> Coalesced(events), levels |-> Levels(events)]
          /\ commands' = [keyboard |-> KeyboardAfter(events), wheel |-> button]
          /\ key' = Physical(events)[Len(events)]
    /\ frames' = frames + 1
    /\ UNCHANGED <<subsystem, foundInit, adapter, driving, owns, button>>

WheelNext ==
    \/ OpenDevice \/ PrepareWheel \/ CloseDevice \/ PollFails \/ RecoverInput
    \/ UnseenKey \/ Refocus \/ Notice \/ Hand \/ Frame

WheelSpec == WheelInit /\ [][WheelNext]_wheelVars

-----------------------------------------------------------------------------
(***************************************************************************)
(* A logical key that was free at the end of one frame and is held at the  *)
(* end of the next has given its command, by key or by wheel; and a held   *)
(* one gives no further command, whichever of the two holds it and however *)
(* they take over from each other, unless it was free in between.          *)
(***************************************************************************)
PressesAreCounted ==
    LET levels == frame.levels
    IN  frame # NoFrame =>
            /\ ~levels[0] /\ commands # Cleared => frame.command
            /\ frame.command =>
                  \E i, j \in DOMAIN levels : i < j /\ ~levels[i] /\ levels[j]

=============================================================================
