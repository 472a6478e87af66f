---------------------------- MODULE HazardScenario ----------------------------
(***************************************************************************)
(* The final hazard as p7 describes it: HazardScenario, its ResponseMetrics *)
(* and the registry of occurrences.  A scenario is armed on one            *)
(* observation and updated on each later one; both are called by a loop    *)
(* that modules OperatorHazardLoop and StaticHazardDrive model.  One call  *)
(* is one step: nothing else reads or writes a scenario while it runs.     *)
(*                                                                         *)
(* What a call can meet is the writing of a row that raises, at any row,   *)
(* which leaves the scenario as it was when the row was to be written.  A  *)
(* call is therefore a chain of stages, each a set of results: the         *)
(* scenario, what was raised, and whether the call ends there.             *)
(***************************************************************************)
EXTENDS Naturals, FiniteSets

CONSTANTS
    Pedals,      \* what a driver can answer with: the brake, the steering
    Observing,   \* config.observation_duration_s, in observations
    MaxTime,     \* the observations of one scene
    MaxFaults    \* calls that raise although nothing asked them to

ASSUME ScenarioAssumption ==
    /\ IsFiniteSet(Pedals) /\ Pedals # {}
    /\ {Observing, MaxTime, MaxFaults} \subseteq Nat

Never == 0
NoInput == [p \in {} |-> 0]

\* A pedal's reading: at rest, off its rest, or at the candidate threshold.
Inputs == [Pedals -> 0..2] \cup {NoInput}

\* What one observation says, as far as the scenario tells it apart.
Contacts == {"none", "collision", "departure", "both"}
Observations == [contact : Contacts, sound : BOOLEAN, reached : BOOLEAN,
                 onset : BOOLEAN, clear : BOOLEAN, complete : BOOLEAN,
                 input : Inputs]

VARIABLES
    h,         \* the scenario and its metrics
    enabled,   \* config.enabled, in module 2's final phase
    policy,    \* an injected policy decides, instead of the stations
    disk,      \* who holds the participant's file: "none", "earlier" or "ours"
    prepared,  \* actors_prepared
    now,       \* the last observation
    err,       \* what the last call of the scenario raised
    rested,    \* pedals seen at rest at or after the reveal (history)
    struck,    \* the contact that ended the scene (history)
    faults

settings == <<enabled, policy>>
scenarioVars ==
    <<h, enabled, policy, disk, prepared, now, err, rested, struck, faults>>

Terminal == {"COMPLETED", "ABORTED"}
Live == {"ARMED", "TRIGGERED", "LEAD_MOVING_ASIDE", "HAZARD_REVEALED", "RESPONDED"}

Fresh == [state |-> "IDLE", outcome |-> "NONE", terminated |-> FALSE,
          claimed |-> FALSE, trigger |-> Never, reveal |-> Never,
          leadComplete |-> FALSE, onset |-> [p \in Pedals |-> Never],
          candidate |-> Never, previous |-> NoInput, previousAt |-> Never]

ScenarioInit ==
    /\ h = Fresh
    /\ enabled \in BOOLEAN /\ policy \in BOOLEAN
    /\ disk \in {"none", "earlier"}
    /\ prepared = FALSE
    /\ now = Never /\ err = "none"
    /\ rested = {} /\ struck = "none" /\ faults = 0

Responses(s) == {s.onset[p] : p \in Pedals} \ {Never}

-----------------------------------------------------------------------------
(* Stages                                                                  *)

Raised == {"runtime", "other"}    \* a RuntimeError, or an OSError or the like

Ok(s)      == [s |-> s, err |-> "none", ends |-> FALSE]
Ends(s)    == [s |-> s, err |-> "none", ends |-> TRUE]
Fails(s)   == {[s |-> s, err |-> e, ends |-> TRUE] : e \in Raised}

\* A row is written, or writing it raises.
Row(s) == {Ok(s)} \cup Fails(s)

\* The results of the stages so far, each carried on by Stage if it goes on.
Then(results, Stage(_)) ==
    UNION {IF r.ends THEN {r} ELSE Stage(r.s) : r \in results}

\* abort's assignments: the first ending stays.
Aborted(s, outcome) ==
    IF s.state \in Terminal THEN s
    ELSE [s EXCEPT !.state = "ABORTED",
                   !.outcome = IF outcome = "NONE" THEN @ ELSE outcome]

\* abort: a scenario that has ended writes no further row.
Abort(s, outcome) ==
    IF s.state \in Terminal
    THEN {Ends(s)}
    ELSE {Ends(Aborted(s, outcome))} \cup Fails(Aborted(s, outcome))

-----------------------------------------------------------------------------
(* The driver's response                                                   *)

Remembered(s, in) == [s EXCEPT !.previous = in, !.previousAt = now']

\* A pedal leaves its rest between two readings, both at or after the reveal.
Pressed(s, in) ==
    LET pressed == {p \in Pedals : s.onset[p] = Never
                                   /\ s.previous[p] = 0 /\ in[p] > 0}
        onset   == [p \in Pedals |-> IF p \in pressed THEN now' ELSE s.onset[p]]
        strong  == \E p \in Pedals : onset[p] # Never /\ in[p] = 2
    IN  [Remembered(s, in) EXCEPT
            !.onset = onset,
            !.candidate = IF @ = Never /\ strong THEN now' ELSE @]

\* ResponseMetrics.observe_input.  Two readings at one time are no edge, and
\* the second of them is forgotten.
ObserveInput(s, in) ==
    IF in = NoInput \/ s.previous = NoInput \/ s.reveal = Never
    THEN Remembered(s, in)
    ELSE IF now' <= s.previousAt
    THEN Remembered(s, NoInput)
    ELSE IF s.previousAt < s.reveal \/ now' <= s.reveal
    THEN Remembered(s, in)
    ELSE Pressed(s, in)

Respond(s, in) ==
    LET seen   == ObserveInput(s, in)
        first  == Responses(s) = {} /\ Responses(seen) # {}
        rowful == seen.onset # s.onset \/ seen.candidate # s.candidate
        after  == IF first THEN [seen EXCEPT !.state = "RESPONDED"] ELSE seen
    IN  IF rowful THEN Row(after) \cup Fails(seen) ELSE {Ok(after)}

-----------------------------------------------------------------------------
(* update                                                                  *)

\* A contact or a departure: the end is asked for before anything is written.
Terminate(s, o) ==
    LET contacted == [s EXCEPT !.terminated = TRUE,
                               !.outcome = CASE o.contact = "collision" -> "COLLISION"
                                             [] o.contact = "departure" -> "ROAD_DEPARTURE"
                                             [] OTHER -> @]
    IN  Then(Row(contacted), LAMBDA x : Abort(x, "NONE"))

\* Observations no scene may go on from.
Unsound(s, o) == ~o.sound \/ (s.state = "ARMED" /\ (o.clear \/ o.onset))

\* begin_reveal is the actors' and may refuse.
Fire(s) ==
    LET fired == [s EXCEPT !.state = "TRIGGERED", !.trigger = now']
    IN  Then(Row(fired), LAMBDA x :
            Abort(x, "UNOBSERVABLE")
              \cup Row([x EXCEPT !.state = "LEAD_MOVING_ASIDE"]))

\* The policy waits, fires or blocks; without one the station decides.
Trigger(s, o) ==
    IF s.state # "ARMED" THEN {Ok(s)}
    ELSE IF policy THEN {Ok(s)} \cup Fire(s) \cup Abort(s, "UNOBSERVABLE")
    ELSE IF o.reached THEN Fire(s) ELSE {Ok(s)}

Reveal(s, o) ==
    LET revealed == [s EXCEPT !.reveal = now', !.state = "HAZARD_REVEALED"]
    IN  IF s.trigger # Never /\ s.reveal = Never /\ o.clear THEN Row(revealed)
        ELSE {Ok(s)}

LeadDone(s, o) ==
    IF s.trigger # Never /\ ~s.leadComplete /\ o.complete
    THEN Row([s EXCEPT !.leadComplete = TRUE]) ELSE {Ok(s)}

Complete(s, outcome) ==
    LET done == [s EXCEPT !.state = "COMPLETED", !.outcome = outcome]
    IN  {Ends(done)} \cup Fails(done)

\* The policy ends a triggered scene when it likes; without one a scene ends
\* some time after its reveal, once the lead has left.
Outcome(s) ==
    IF policy
    THEN {Ends(s)} \cup
         IF s.trigger = Never THEN {}
         ELSE Complete(s, "AVOIDED") \cup Abort(s, "UNOBSERVABLE")
    ELSE IF s.leadComplete /\ s.reveal # Never /\ now' - s.reveal >= Observing
    THEN Complete(s, s.outcome) ELSE {Ends(s)}

Updated(o) ==
    IF h.state \notin Live THEN {Ends(h)}
    ELSE IF o.contact # "none" THEN Terminate(h, o)
    ELSE IF Unsound(h, o) THEN Abort(h, "UNOBSERVABLE")
    ELSE LET triggered == Trigger(h, o)
             revealed  == Then(triggered, LAMBDA s : Reveal(s, o))
             moved     == Then(revealed, LAMBDA s : LeadDone(s, o))
             answered  == Then(moved, LAMBDA s : Respond(s, o.input))
             sampled   == Then(answered, Row)
         IN  Then(sampled, Outcome)

\* Which pedals the driver has been seen to leave at rest since the reveal.
Rest(o) ==
    IF h'.reveal = Never \/ o.input = NoInput THEN {}
    ELSE {p \in Pedals : o.input[p] = 0}

\* The observation's time: it may be that of the one before.
Later == now' \in {now, now + 1} \cap 1..MaxTime

\* The call gives r, having met `n' faults.
Call(r, n) ==
    /\ h' = r.s /\ err' = r.err
    /\ faults' = faults + n /\ faults' <= MaxFaults

Faults(r) == IF r.err = "none" THEN 0 ELSE 1

\* HazardScenario.update.
Update(o) ==
    /\ Later
    /\ \E r \in Updated(o) : Call(r, Faults(r))
    /\ rested' = rested \cup Rest(o)
    /\ struck' = IF h.state \in Live /\ struck = "none" THEN o.contact ELSE struck
    /\ UNCHANGED <<settings, disk, prepared>>

-----------------------------------------------------------------------------
(* arm                                                                     *)

\* What an observation must be for a scene to begin: a contact in it is not
\* looked at.
Armable(o) == o.sound /\ (policy \/ ~o.reached)

Raises(s, e) == [s |-> s, err |-> e, ends |-> TRUE]

\* OccurrenceRegistry.claim: the file is created or was there, and writing
\* into it may fail when it already stands.
Claim(s) ==
    IF disk # "none"
    THEN {[d |-> disk, r |-> Raises(s, "runtime")]}
    ELSE {[d |-> "ours", r |-> Ok([s EXCEPT !.claimed = TRUE])],
          [d |-> "ours", r |-> Raises(s, "other")]}

\* What arm raises is raised again after an abort, if it is a RuntimeError.
Rethrown(r) ==
    IF r.err # "runtime" THEN {r}
    ELSE {Raises(a.s, IF a.err = "none" THEN r.err ELSE a.err)
            : a \in Abort(r.s, "UNOBSERVABLE")}

\* What comes after the actors: the scenario is armed before the row that says
\* so, and the first reading is the baseline of the next.
Armed(s, o) ==
    Then(Row([s EXCEPT !.state = "ARMED"]),
         LAMBDA x : {Ok(ObserveInput(x, o.input))})

ArmDisabled ==
    /\ ~enabled
    /\ err' = "none"
    /\ UNCHANGED <<h, settings, disk, prepared, now, rested, struck, faults>>

\* arm's checks and the claim; the actors are next if nothing is raised.
BeginArm(o) ==
    /\ enabled /\ h.state = "IDLE"
    /\ Later
    /\ \E c \in IF Armable(o) THEN Claim(h)
                 ELSE {[d |-> disk, r |-> Raises(h, "runtime")]} :
          /\ disk' = c.d
          /\ \E r \in Rethrown(c.r) :
                Call(r, IF c.r.err = "other" \/ r.err # c.r.err THEN 1 ELSE 0)
    /\ UNCHANGED <<settings, prepared, rested, struck>>

\* The actors could not be prepared, because `e' was raised.
PrepareFails(e) ==
    /\ \E r \in Rethrown(Raises(h, e)) : Call(r, 1)
    /\ UNCHANGED <<settings, disk, prepared, now, rested, struck>>

\* They could.
EndArm(o) ==
    /\ prepared' = TRUE
    /\ UNCHANGED <<settings, disk, now, rested, struck>>
    /\ \E a \in Armed(h, o) : \E r \in Rethrown(a) : Call(r, Faults(a))

\* abort, called from outside; the time of the scene stands still.
AbortWith(outcome) ==
    /\ \E r \in Abort(h, outcome) : Call(r, Faults(r))
    /\ UNCHANGED <<settings, disk, prepared, now, rested, struck>>

-----------------------------------------------------------------------------
(* Properties                                                              *)

\* A response is one: the pedal that counts had been seen at rest at or after
\* the obstacle's appearance, so that a foot already on it never answers.
ResponseIsAfterReveal ==
    \A p \in Pedals : h.onset[p] # Never =>
        h.reveal # Never /\ h.reveal < h.onset[p] /\ p \in rested
=============================================================================
