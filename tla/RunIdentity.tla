---------------------------- MODULE RunIdentity ----------------------------
(***************************************************************************)
(* Who may run under which name: several starts of the program on one      *)
(* computer, with nothing between them but the files they create.  A pilot *)
(* start (tools/run_pilot.py) chooses its name (p8/pilot_identity.py); the *)
(* operator's own command line is given one.  Both register                *)
(* (p8/operator_registration.py), create the run's folder                  *)
(* (p8/services.py), may reserve the hazard (p7/occurrence.py) and publish *)
(* an archive (p8/operator_results.py).  Every start may end at any step.  *)
(***************************************************************************)
EXTENDS Integers, FiniteSets

CONSTANTS
    Starts,         \* the starts of the program
    Participants,
    LastNumber,     \* bound: the numbers a pilot start tries for its name
    MaxByHand       \* bound: the starts that are given their name by hand

\* "other" stands for a name that is not of the pilot starts' pattern.
ASSUME IdentityAssumption ==
    /\ IsFiniteSet(Starts) /\ LastNumber \in Nat \ {0}
    /\ "other" \notin Participants

VARIABLES
    starts,         \* of each start: its place, kind, participant and name
    reservations,   \* names under _pilot_launches, with the start that wrote each
    registrations,  \* names under _pilot_runs, and participants, claimed for good
    folders,        \* names with a run folder
    settled,        \* names whose folder holds a terminal manifest that is in the archive
    archives,       \* names with a published archive
    occurrences,    \* the reserved hazards, with the registry they are in
    sessions,       \* the starts that came to run a session
    windows         \* the exit windows of the second module are in the settings

diskVars == <<reservations, registrations, folders, settled, archives, occurrences, windows>>
identityVars == <<starts, diskVars, sessions>>

PilotNames == [participant : Participants, number : 1 .. LastNumber]
OtherNames == [participant : {"other"}, number : {1}]
Names == PilotNames \cup OtherNames

Kinds == {"pilot", "typed", "untyped"}
New == [pc |-> "new"]

IdentityInit ==
    /\ starts = [s \in Starts |-> New]
    /\ reservations = {} /\ folders = {} /\ settled = {} /\ archives = {}
    /\ occurrences = {} /\ sessions = {}
    /\ registrations = [runs |-> {}, people |-> {}]
    /\ windows \in BOOLEAN

At(s, place) == starts[s].pc = place
NameOf(s) == starts[s].name
Identified(s) == ~At(s, "new") /\ ~At(s, "over")
Go(s, place) == starts' = [starts EXCEPT ![s].pc = place]

-----------------------------------------------------------------------------
(***************************************************************************)
(* load_pilot_settings: windows that are missing are asked for, and the    *)
(* settings replaced as a whole once the answers make sense.               *)
(***************************************************************************)
AskForWindows ==
    /\ ~windows /\ \E s \in Starts : At(s, "new")
    /\ windows' = TRUE
    /\ UNCHANGED <<starts, reservations, registrations, folders, settled, archives, occurrences,
                   sessions>>

\* Settings that make no sense, or an answer that is cancelled, start nothing.
GiveUp(s) ==
    /\ At(s, "new")
    /\ starts' = [starts EXCEPT ![s] = [pc |-> "over"]]
    /\ UNCHANGED <<diskVars, sessions>>

(***************************************************************************)
(* A pilot start asks for the participant and takes the first number whose *)
(* folder, archive and registration are missing, if it is also the first   *)
(* to create the reservation.  The three looks and the creation are        *)
(* separate steps of the file system.                                      *)
(***************************************************************************)
ChoosePilot(s) ==
    /\ At(s, "new") /\ windows
    /\ \E p \in Participants :
          starts' = [starts EXCEPT ![s] =
              [pc |-> "folder", kind |-> "pilot", participant |-> p,
               name |-> [participant |-> p, number |-> 1]]]
    /\ UNCHANGED <<diskVars, sessions>>

NextNumber(s) ==
    /\ NameOf(s).number < LastNumber
    /\ starts' = [starts EXCEPT ![s].pc = "folder", ![s].name.number = @ + 1]

Look(s, place, taken, next) ==
    /\ At(s, place)
    /\ IF taken THEN NextNumber(s) ELSE Go(s, next)
    /\ UNCHANGED <<diskVars, sessions>>

LookForFolder(s) == Look(s, "folder", NameOf(s) \in folders, "archive")
LookForArchive(s) == Look(s, "archive", NameOf(s) \in archives, "registration")
LookForRegistration(s) ==
    Look(s, "registration", NameOf(s) \in registrations.runs, "reserve")

Reservation(s) == [name |-> NameOf(s), by |-> s]

Reserve(s) ==
    /\ At(s, "reserve")
    /\ IF \E r \in reservations : r.name = NameOf(s)
       THEN NextNumber(s) /\ UNCHANGED reservations
       ELSE Go(s, "reserved") /\ reservations' = reservations \cup {Reservation(s)}
    /\ UNCHANGED <<registrations, folders, settled, archives, occurrences, sessions, windows>>

\* The supervisor is told the name before anything of the run exists; a start without
\* a supervisor is one that nobody recovers.
Supervise(s) ==
    /\ At(s, "reserved")
    /\ starts' = [starts EXCEPT ![s].pc = "started", ![s].kind = "supervised"]
    /\ UNCHANGED <<diskVars, sessions>>

-----------------------------------------------------------------------------
IsByHand(s) == Identified(s) /\ starts[s].kind \in {"typed", "untyped"}

(***************************************************************************)
(* The operator's command line is given its identity: any name, also one   *)
(* of the pilot starts' pattern, with a session type or without.           *)
(***************************************************************************)
ChooseDirect(s) ==
    /\ At(s, "new") /\ Cardinality({t \in Starts : IsByHand(t)}) < MaxByHand
    /\ \E p \in Participants, k \in {"typed", "untyped"}, n \in Names :
          starts' = [starts EXCEPT ![s] =
              [pc |-> "started", kind |-> k, participant |-> p, name |-> n]]
    /\ UNCHANGED <<diskVars, sessions>>

HasType(s) == starts[s].kind # "untyped"

\* claim_registration: the folder first, then the assignment, then the claim.
Assigned(s) ==
    /\ At(s, "started")
    /\ Go(s, IF NameOf(s) \in folders THEN "refused" ELSE "assigned")
    /\ UNCHANGED <<diskVars, sessions>>

\* Arguments, readiness, type, identity or assignment are not acceptable.
Unassigned(s) ==
    /\ At(s, "started")
    /\ Go(s, "ended")
    /\ UNCHANGED <<diskVars, sessions>>

Claimed(s) ==
    IF HasType(s) THEN NameOf(s) \in registrations.runs
    ELSE starts[s].participant \in registrations.people

Claim(s) ==
    /\ At(s, "assigned")
    /\ IF Claimed(s) THEN Go(s, "refused") /\ UNCHANGED registrations
       ELSE /\ Go(s, "registered")
            /\ registrations' =
                  IF HasType(s) THEN [registrations EXCEPT !.runs = @ \cup {NameOf(s)}]
                  ELSE [registrations EXCEPT !.people = @ \cup {starts[s].participant}]
    /\ UNCHANGED <<reservations, folders, settled, archives, occurrences, sessions, windows>>

\* SessionServices: the folder must not have come into being since.
MakeFolder(s) ==
    /\ At(s, "registered")
    /\ IF NameOf(s) \in folders THEN Go(s, "refused") /\ UNCHANGED folders
       ELSE Go(s, "running") /\ folders' = folders \cup {NameOf(s)}
    /\ sessions' = IF NameOf(s) \in folders THEN sessions ELSE sessions \cup {s}
    /\ UNCHANGED <<reservations, registrations, settled, archives, occurrences, windows>>

-----------------------------------------------------------------------------

Registry(s) == IF HasType(s) THEN {NameOf(s)} ELSE {}

Hazard(s) == <<Registry(s), starts[s].participant>>

\* slip: a hazard that was run may be set up again, with its occurrence reserved
ReachHazardAgain(s) ==
    /\ starts[s].pc \in {"running", "hazard run"}
    /\ IF Hazard(s) \in occurrences THEN Go(s, "hazard refused") /\ UNCHANGED occurrences
       ELSE Go(s, "hazard run") /\ occurrences' = occurrences \cup {Hazard(s)}
    /\ UNCHANGED <<reservations, registrations, folders, settled, archives, sessions, windows>>

ReachHazard(s) ==
    /\ At(s, "running")
    /\ IF Hazard(s) \in occurrences THEN Go(s, "hazard refused") /\ UNCHANGED occurrences
       ELSE Go(s, "hazard run") /\ occurrences' = occurrences \cup {Hazard(s)}
    /\ UNCHANGED <<reservations, registrations, folders, settled, archives, sessions, windows>>

\* What the end of a run and its recovery leave under a name: a terminal manifest and an
\* archive of it, or, when one of them fails, a run that is not settled.
Settle(n) ==
    \/ UNCHANGED <<settled, archives>>
    \/ settled' = settled \cup {n} /\ archives' = archives \cup {n}

Live == {s \in Starts : starts[s].pc \in {"running", "hazard run", "hazard refused"}}

FinishRun(s) ==
    /\ s \in Live
    /\ Go(s, "finished") /\ Settle(NameOf(s))
    /\ UNCHANGED <<reservations, registrations, folders, occurrences, sessions, windows>>

Ended == {"ended", "finished", "refused", "dead", "recovered"}

\* A start that dies while it still chooses is one that never goes on.
Choosing == {"folder", "archive", "registration", "reserve"}

Crash(s) ==
    /\ starts[s].pc \notin {"new", "over"} \cup Choosing \cup Ended
    /\ Go(s, "dead")
    /\ UNCHANGED <<diskVars, sessions>>

(***************************************************************************)
(* The supervisor of a start whose process is over, however it ended,      *)
(* recovers what is under its name, unless it finds a terminal manifest    *)
(* and an archive: a start that was turned away has another's folder       *)
(* there, and where there is none one is made for the report.              *)
(***************************************************************************)
Recoverable(s) ==
    /\ starts[s].pc \in Ended \ {"recovered"} /\ starts[s].kind = "supervised"
    /\ NameOf(s) \notin settled

Recover(s) ==
    /\ Recoverable(s)
    /\ Go(s, "recovered")
    /\ folders' = folders \cup {NameOf(s)}
    /\ Settle(NameOf(s))
    /\ UNCHANGED <<reservations, registrations, occurrences, sessions, windows>>

\* The operator moves the folder of a run that is over to another disk.
MoveAway ==
    /\ \E n \in folders :
          /\ \A s \in Live : NameOf(s) # n
          /\ folders' = folders \ {n}
          /\ settled' = settled \ {n}
    /\ UNCHANGED <<starts, reservations, registrations, archives, occurrences, sessions, windows>>

IdentityNext ==
    \/ \E s \in Starts :
          \/ GiveUp(s) \/ ChoosePilot(s) \/ LookForFolder(s) \/ LookForArchive(s)
          \/ LookForRegistration(s) \/ Reserve(s) \/ Supervise(s)
          \/ ChooseDirect(s) \/ Assigned(s) \/ Unassigned(s)
          \/ Claim(s) \/ MakeFolder(s) \/ ReachHazard(s) \/ FinishRun(s)
          \/ Crash(s) \/ Recover(s)
    \/ AskForWindows \/ MoveAway

IdentitySpec == IdentityInit /\ [][IdentityNext]_identityVars

-----------------------------------------------------------------------------
ByHand(s, t) == IsByHand(t) /\ NameOf(t) = NameOf(s)
Reserved(s) == \E r \in reservations : r.by = s

(***************************************************************************)
(* Whatever the starts do at the same time, and wherever they die: no two  *)
(* sessions run under one name at a time; of those with a type none has    *)
(* the name of another, even when its folder has been moved away; a        *)
(* participant without a type has one session; a name that was reserved    *)
(* is refused later only for a start that was given it by hand; and a      *)
(* supervisor touches no session but its own or one under a name given by  *)
(* hand.                                                                   *)
(***************************************************************************)
RunsAreDistinct ==
    /\ \A s, t \in sessions : s # t =>
          /\ HasType(s) /\ HasType(t) => NameOf(s) # NameOf(t)
          /\ ~HasType(s) /\ ~HasType(t) => starts[s].participant # starts[t].participant
          /\ s \in Live /\ t \in Live => NameOf(s) # NameOf(t)
    /\ \A s \in Starts : Reserved(s) /\ At(s, "refused") => \E t \in Starts : ByHand(s, t)
    /\ \A s \in Starts, t \in sessions :
          s # t /\ Recoverable(s) /\ NameOf(s) = NameOf(t) => ByHand(s, t)

(***************************************************************************)
(* No session that reaches the hazard finds it reserved by an earlier one, *)
(* also for a participant who is driving again under another name.         *)
(***************************************************************************)
HazardIsAvailable == \A s \in Starts : ~At(s, "hazard refused")

\* Starts keep apart: no two live sessions share a name, no start is turned away from a name
\* it reserved but for one that was given it by hand, no supervisor recovers the session of
\* another launch, and a session that reaches the hazard finds its occurrence free.
StartsKeepApart == RunsAreDistinct /\ HazardIsAvailable

-----------------------------------------------------------------------------
(***************************************************************************)
(* The inductive invariant behind StartsKeepApart (IdentityProofs).        *)
(***************************************************************************)
Made == {"running", "hazard run", "hazard refused", "finished", "dead", "recovered"}
Places == Choosing \cup Made \cup Ended \cup {"reserved", "started", "assigned", "registered"}
Launches == {"pilot", "supervised"}

\* A start is nobody yet, or goes by a name of its kind; only a pilot start chooses one.
StartRecord ==
    {r \in [pc : Places, kind : Launches \cup {"typed", "untyped"},
            participant : Participants, name : Names] :
        /\ r.kind \in Launches => r.name \in PilotNames
        /\ r.pc \in Choosing \cup {"reserved"} => r.kind = "pilot"}
StartsInv ==
    /\ starts \in [Starts -> StartRecord \cup {New, [pc |-> "over"]}]
    /\ registrations \in [runs : SUBSET Names, people : SUBSET Participants]
    /\ sessions \subseteq {s \in Starts : starts[s].pc \in Made}
    /\ Live \subseteq sessions

\* A reservation is of the start that wrote it, under the name it keeps from then on.
ReservationInv ==
    /\ reservations \subseteq {Reservation(s) : s \in {t \in Starts : Identified(t)}}
    /\ \A r \in reservations : starts[r.by].kind \in Launches /\ starts[r.by].pc \notin Choosing
    /\ \A q, r \in reservations : q.name = r.name => q = r
    /\ \A s \in Starts :
          Identified(s) /\ starts[s].kind \in Launches /\ starts[s].pc \notin Choosing
          => Reserved(s)

\* The start that a name on disk comes from: it was given the name, or reserved it.
Owns(t, n) ==
    /\ Identified(t) /\ NameOf(t) = n
    /\ starts[t].kind \in Launches => Reserved(t)
OwnersInv ==
    /\ \A n \in folders : \E t \in Starts : Owns(t, n) /\ starts[t].pc \in Made
    /\ \A s \in Live : NameOf(s) \in folders
    /\ \A n \in registrations.runs : \E t \in Starts :
          Owns(t, n) /\ starts[t].pc \in Made \cup {"registered", "refused"}

\* A start past its registration claimed what nobody else had claimed.
Holds(s) == s \in sessions \/ At(s, "registered")
HoldersInv ==
    /\ \A s \in Starts : Holds(s) => Claimed(s)
    /\ \A s, t \in Starts :
          Holds(s) /\ Holds(t) /\ s # t => Hazard(s) # Hazard(t)
              /\ (HasType(s) /\ HasType(t) => NameOf(s) # NameOf(t))

\* A reserved hazard is one that a session ran.
OccurrenceInv ==
    \A o \in occurrences : \E t \in sessions : Hazard(t) = o /\ ~At(t, "running")

IdentityInv == StartsInv /\ ReservationInv /\ OwnersInv /\ HoldersInv /\ OccurrenceInv
                         /\ StartsKeepApart
=============================================================================
